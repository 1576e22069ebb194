----------------------------- MODULE MCConsole -----------------------------
(***************************************************************************)
(* What is printed and how it is shown, in one run: Printf, and Console on *)
(* a page of two rows of two columns.  A behaviour exercises one of the    *)
(* two, chosen at the start.                                               *)
(***************************************************************************)
EXTENDS Console, MCPrintf

MCTexts ==
  {<<<<"colour", "red">>, <<"print", "a">>>>,
   <<<<"print", "a">>, <<"newline">>, <<"print", "b">>>>,
   <<<<"print", "b">>, <<"return">>>>,
   <<<<"colour", "default">>, <<"backspace">>>>}

VARIABLE part   \* the part that moves

FirstCall == CHOOSE c \in Calls : TRUE

MCInit ==
  /\ Init /\ PrintfInit
  /\ part \in {"console", "printf"}
  /\ part = "console" => call = FirstCall

MCNext ==
  /\ UNCHANGED part
  /\ \/ part = "console" /\ Next /\ UNCHANGED printf_vars
     \/ part = "printf" /\ PrintfNext /\ UNCHANGED vars

MCSpec == MCInit /\ [][MCNext]_<<vars, printf_vars, part>>

=============================================================================

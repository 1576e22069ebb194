------------------------------ MODULE MCPrintf ------------------------------
(***************************************************************************)
(* Printf with words of eight bits and a buffer of eight bytes.            *)
(***************************************************************************)
EXTENDS Printf

Directives(flags, widths, prescisions, qualifiers, conversions) ==
  [flags : flags, width : widths, prescision : prescisions, qualifier : qualifiers,
   conversion : conversions]

\* Every number by itself, in a field that is too short, fits, or is too long.
Numbers ==
  Directives(SUBSET {"LEFT", "PLUS", "SPACE", "ALT", "ZERO"}, {None, 2, 6}, {None, Dot, 3},
             {"none"}, {"o", "d", "u", "X", "x"})

Short == Directives({{}}, {None}, {None}, {"h"}, {"i", "u"})

Stared(prescisions) == Directives({{"ZERO"}}, {Star}, prescisions, {"l"}, {"d"})

Words == {0, 7, 128, 255}

One(conversion) == CHOOSE d \in Directives({{}}, {None}, {None}, {"none"}, {conversion}) : TRUE

\* "%-2cb%3.1s%%%p%n", and a conversion nobody knows.
Mixed ==
  <<CHOOSE d \in Directives({{"LEFT"}}, {2}, {None}, {"none"}, {"c"}) : TRUE,
    Plain("b"),
    CHOOSE d \in Directives({{}}, {3}, {1}, {"none"}, {"s"}) : TRUE,
    One("%"), One("p"), One("n"), One("other")>>

MCCalls ==
  [format : {<<d>> : d \in Numbers \cup Short}, args : {<<Word(w)>> : w \in Words}, n : {8}]
  \cup [format : {<<d>> : d \in Stared({None, 2})},
        args : {<<Word(w), Word(200)>> : w \in {5, 251}}, n : {8}]
  \cup [format : {<<d>> : d \in Stared({Star})},
        args : {<<Word(5), Word(w), Word(200)>> : w \in {4, 255}}, n : {8}]
  \cup [format : {Mixed}, args : {<<Text(<<"a">>), Text(<<"c", "d">>), Word(10)>>}, n : 0 .. 8]

\* sprintf of one character.
SprintfCalls == {[format |-> <<Plain("a")>>, args |-> <<>>, n |-> ADDRESS_SPACE - 1]}

=============================================================================

------------------------------ MODULE Console ------------------------------
(***************************************************************************)
(* The console of console.c: characters are collected in a buffer, and     *)
(* cflush writes them to the display one by one.  One action is one round  *)
(* of its loop.                                                            *)
(*                                                                         *)
(* Nothing else touches the console meanwhile: the kernel prints with      *)
(* interrupts off or before the keyboard is enabled, so that the           *)
(* keyboard's handler interrupts no printing code.  The characters are a   *)
(* few letters, the ones the loop treats specially, and a whole number of  *)
(* an escape sequence for its digits; "SP" is a blank.  The texts the      *)
(* kernel prints hold whole escape sequences.                              *)
(***************************************************************************)
EXTENDS Paper, SequencesExt

CONSTANTS
  buffer_size,  \* STDOUT_BUFFER_SIZE (512)
  Letters,      \* the letters that are written
  Texts,        \* what is printed in one call: sequences of items (see Paper)
  WriteBound    \* how many items are written, at most

default_format == "default"

\* What is written (see Paper).
Writable ==
  ({"print"} \X Letters) \cup ({"colour"} \X {default_format, "red"})
    \cup {<<"newline">>, <<"return">>, <<"backspace">>}

ASSUME ConsoleAssumption ==
  /\ buffer_size \in Nat \ {0}
  /\ WriteBound \in 0 .. LineBound
  /\ {default_format, "red"} \subseteq Format
  /\ Letters \cap {"NL", "CR", "BS", "ESC", "NUL"} = {}
  /\ Texts \subseteq Seq(Writable)

\* The formats that two of the escape codes choose.
process_graphic_escape_sequence(code) ==
  IF code = "0" THEN default_format ELSE "red"

Code == {"0", "31"}

\* The bytes an item is written with.
Bytes(item) ==
  CASE item[1] = "print"     -> <<item[2]>>
    [] item[1] = "newline"   -> <<"NL">>
    [] item[1] = "return"    -> <<"CR">>
    [] item[1] = "backspace" -> <<"BS">>
    [] item[1] = "colour"    -> <<"ESC", "[", IF item[2] = "red" THEN "31" ELSE "0", "m">>

VARIABLES
  display,             \* vga_buffer, the screen and buffer_sync
  buffer, buffer_pos,  \* bytes that wait to be written
  x, y, format,        \* cursor and format of the console
  pos,                 \* cflush: index of the next byte, or Idle
  waiting,             \* cputc: the byte that waits for room, and what is next
  paper, written,      \* history: what was written, and how much of it
  lost                 \* history: the console did not keep its promise

Idle == -1
Nothing == <<>>

cursor  == <<x, y, format>>
pending == <<buffer, buffer_pos>>
history == <<paper, written>>

vars == <<display, pending, cursor, pos, waiting, history, lost>>

\* init_consoles.
Init ==
  /\ LET page == Filled(VGAChar("SP", default_format))
     IN  display = [buffer |-> page, screen |-> page, sync |-> TRUE]
  /\ buffer = [k \in 0 .. buffer_size - 1 |-> "NUL"] /\ buffer_pos = 0
  /\ x = 0 /\ y = 0 /\ format = default_format
  /\ pos = Idle /\ waiting = Nothing
  /\ paper = Sheet(default_format) /\ written = 0
  /\ lost = FALSE

-----------------------------------------------------------------------------
(***************************************************************************)
(* Writing to the buffer.                                                  *)
(***************************************************************************)

Note(items) ==
  /\ written + Len(items) <= WriteBound
  /\ written' = written + Len(items)
  /\ paper' = WriteAll(paper, items)

\* cputc, and cflush after it if then_flush; a full buffer is flushed first.
Cputc(byte, then_flush) ==
  /\ pos = Idle
  /\ IF buffer_pos >= buffer_size
     THEN /\ pos' = 0
          /\ waiting' = <<byte, then_flush>>
          /\ UNCHANGED pending
     ELSE /\ buffer' = [buffer EXCEPT ![buffer_pos] = byte]
          /\ buffer_pos' = buffer_pos + 1
          /\ pos' = IF then_flush THEN 0 ELSE Idle
          /\ UNCHANGED waiting
  /\ UNCHANGED <<display, cursor, lost>>

\* cputs, one character of it.
cputs ==
  \E c \in Letters :
    Cputc(c, FALSE) /\ Note(<<<<"print", c>>>>)

\* send_make_key (ps2_keyboard.c) writes and flushes each key.
send_make_key ==
  \E item \in {<<"print", c>> : c \in Letters} \cup {<<"newline">>, <<"backspace">>} :
    Cputc(Bytes(item)[1], TRUE) /\ Note(<<item>>)

\* vsnprintf: what fits of bytes, and a NUL in the place after it, or in the
\* last place if that leaves none.
vsnprintf(bytes, size) ==
  [k \in DOMAIN buffer |->
     IF k < buffer_pos \/ size = 0 THEN buffer[k]
     ELSE LET n == k - buffer_pos + 1
          IN  IF n <= Len(bytes) /\ n < size THEN bytes[n]
              ELSE IF n = Len(bytes) + 1 \/ n = size THEN "NUL"
              ELSE buffer[k]]

\* A text that does not fit in what is left of the buffer is cut.
vcprintf ==
  /\ pos = Idle
  /\ \E text \in Texts :
       LET bytes == FlattenSeq([k \in DOMAIN text |-> Bytes(text[k])])
           size  == buffer_size - buffer_pos
       IN  /\ buffer' = vsnprintf(bytes, size)
           /\ buffer_pos' = buffer_pos + IF Len(bytes) < size THEN Len(bytes) ELSE size
           /\ lost' = (lost \/ Len(bytes) >= size)
           /\ Note(text)
  /\ pos' = 0
  /\ UNCHANGED <<display, cursor, waiting>>

-----------------------------------------------------------------------------
(***************************************************************************)
(* Writing to the display.  The cursor, with the display, is a record here *)
(* so that a round of the loop can scroll and then write.                  *)
(***************************************************************************)

here == [display |-> display, x |-> x, y |-> y, format |-> format]

\* Its callers have nothing in the buffer.
clear_console ==
  /\ pos = Idle /\ buffer_pos = 0
  /\ written < WriteBound /\ written' = written + 1
  /\ display' = vga_flush(vga_fill(display, Row, VGAChar("SP", format)))
  /\ x' = 0 /\ y' = 0
  /\ paper' = Sheet(format)
  /\ lost' = FALSE
  /\ UNCHANGED <<pending, format, pos, waiting>>

cscroll(c) ==
  [c EXCEPT
     !.display = vga_fill(vga_copy_up(@), {page_rows - 1}, VGAChar("SP", c.format)),
     !.y = @ - 1]

scroll_if_below(c) == IF c.y >= page_rows THEN cscroll(c) ELSE c

inplace_cwrite(c, byte) ==
  [c EXCEPT !.display = vga_print_char(@, VGAChar(byte, c.format), c.x, c.y)]

cwrite(c, byte) ==
  LET w == inplace_cwrite(c, byte)
  IN  IF c.x + 1 = page_columns
      THEN [w EXCEPT !.x = 0, !.y = @ + 1]
      ELSE [w EXCEPT !.x = @ + 1]

\* From column 0, up to the end of the line above, as the screen has it.
backspace(c) ==
  LET above == IF c.y = 0 THEN 0 ELSE c.y - 1
      cells == [k \in Column |-> vga_get_char(c.display, k, above)]
      back  == IF c.x > 0 THEN [c EXCEPT !.x = @ - 1]
               ELSE [c EXCEPT !.x = EndOf(cells), !.y = above]
  IN  inplace_cwrite(back, "SP")

\* What a round of the loop does with any byte but ESC.
Round(c, byte) ==
  CASE byte = "NL" -> scroll_if_below([c EXCEPT !.y = @ + 1, !.x = 0])
    [] byte = "CR" -> [c EXCEPT !.x = 0]
    [] byte = "BS" -> backspace(c)
    [] OTHER       -> cwrite(c, byte)

\* process_escape_sequence after an ESC at index k: the index it goes on
\* with, and the format.
process_escape_sequence(k, fmt) ==
  IF buffer[k + 1] # "[" THEN <<k + 1, fmt>>
  ELSE IF buffer[k + 2] \notin Code THEN <<k + 2, fmt>>
  ELSE IF buffer[k + 3] = "m"
       THEN <<k + 4, process_graphic_escape_sequence(buffer[k + 2])>>
       ELSE <<k + 4, fmt>>

Show(c) ==
  display' = c.display /\ x' = c.x /\ y' = c.y /\ format' = c.format

\* One round; a backspace that has to look at a screen that is out of date
\* may end anywhere.
cflush_round ==
  /\ pos # Idle /\ pos < buffer_pos
  /\ LET c == scroll_if_below(here)
     IN  IF buffer[pos] = "ESC"
         THEN LET e == process_escape_sequence(pos, format)
              IN  /\ Show([c EXCEPT !.format = e[2]])
                  /\ pos' = e[1]
                  /\ UNCHANGED lost
         ELSE /\ Show(Round(c, buffer[pos]))
              /\ pos' = pos + 1
              /\ lost' = (lost \/ (buffer[pos] = "BS" /\ c.x = 0 /\ ~c.display.sync))
  /\ UNCHANGED <<pending, waiting, history>>

\* vga_flush, and cputc goes on if it was cputc that flushed.
cflush_end ==
  /\ pos # Idle /\ pos >= buffer_pos
  /\ display' = vga_flush(display)
  /\ IF waiting = Nothing
     THEN pos' = Idle /\ buffer_pos' = 0 /\ UNCHANGED buffer
     ELSE /\ buffer' = [buffer EXCEPT ![0] = waiting[1]]
          /\ buffer_pos' = 1
          /\ pos' = IF waiting[2] THEN 0 ELSE Idle
  /\ waiting' = Nothing
  /\ UNCHANGED <<cursor, history, lost>>

-----------------------------------------------------------------------------

\* Nothing more is written.
rest == pos = Idle /\ written = WriteBound /\ UNCHANGED vars

Next ==
  \/ cputs \/ send_make_key \/ vcprintf \/ clear_console
  \/ cflush_round \/ cflush_end \/ rest

Spec == Init /\ [][Next]_vars

-----------------------------------------------------------------------------

(***************************************************************************)
(* When nothing waits to be written, the screen shows what was written, in *)
(* place and colour, and the cursor is where the next character belongs:   *)
(* wrapping, scrolling late, and the two copies of the page never show     *)
(* (console.c 606-686, vga.c 24-74).  Excepted is what comes after a text  *)
(* that was cut, and after a backspace to a line that has just scrolled.   *)
(***************************************************************************)
ScreenShowsText ==
  pos = Idle /\ buffer_pos = 0 /\ ~lost =>
    /\ Shows(display.screen, paper)
    /\ x = paper.col /\ y = paper.line - paper.top
    /\ format = paper.format

=============================================================================

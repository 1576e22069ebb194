------------------------------- MODULE Paper -------------------------------
(***************************************************************************)
(* What a console promises: an endless roll of lines of page_columns cells *)
(* of which the screen shows page_rows, from line top on.  A character     *)
(* goes where the pen is; a full line is followed by the next; the roll    *)
(* moves up as far as the pen needs and no further, and after a full line  *)
(* only when something else is written.                                    *)
(***************************************************************************)
EXTENDS Vga, Sequences, FiniteSetsExt

CONSTANT LineBound  \* the lines a run of the model may fill

ASSUME PaperAssumption ==
  LineBound \in Nat /\ LineBound >= page_rows - 1

Line == 0 .. LineBound

Blank(cell) == cell[1] = "SP"

\* Where a backspace goes in a line it enters from the next: onto the last
\* cell if that is used, else behind the last used one (behind the first, if
\* the line is blank).
EndOf(cells) ==
  IF ~Blank(cells[page_columns - 1])
  THEN page_columns - 1
  ELSE 1 + Max({0} \cup {x \in Column : ~Blank(cells[x])})

Sheet(format) ==
  [lines |-> [l \in Line |-> [x \in Column |-> VGAChar("SP", format)]],
   line |-> 0, col |-> 0, top |-> 0, format |-> format]

RollUp(p) == [p EXCEPT !.top = Max({@, p.line - page_rows + 1})]

Put(p, c) ==
  LET q == [p EXCEPT !.lines[p.line][p.col] = VGAChar(c, p.format)]
  IN  IF p.col = page_columns - 1
      THEN [q EXCEPT !.col = 0, !.line = @ + 1]
      ELSE [q EXCEPT !.col = @ + 1]

\* The cell a backspace erases and leaves the pen on.
Before(p) ==
  LET above == IF p.line = p.top THEN p.line ELSE p.line - 1
  IN  IF p.col > 0 THEN <<p.line, p.col - 1>> ELSE <<above, EndOf(p.lines[above])>>

Erase(p, at) ==
  [p EXCEPT !.lines[at[1]][at[2]] = VGAChar("SP", p.format), !.line = at[1], !.col = at[2]]

\* What is written: <<"print", character>>, <<"colour", format>>, or one of
\* <<"newline">>, <<"return">> and <<"backspace">>.
Write(sheet, item) ==
  LET p == RollUp(sheet)
  IN  CASE item[1] = "print"     -> Put(p, item[2])
        [] item[1] = "colour"    -> [p EXCEPT !.format = item[2]]
        [] item[1] = "newline"   -> RollUp([p EXCEPT !.line = @ + 1, !.col = 0])
        [] item[1] = "return"    -> [p EXCEPT !.col = 0]
        [] item[1] = "backspace" -> Erase(p, Before(p))

WriteAll(sheet, items) ==
  LET after[n \in 0 .. Len(items)] ==
        IF n = 0 THEN sheet ELSE Write(after[n - 1], items[n])
  IN  after[Len(items)]

\* The screen shows p, blanks in whatever colour.
Shows(screen, p) ==
  \A y \in Row, x \in Column :
    LET cell == p.lines[p.top + y][x]
    IN  screen[y][x] = cell \/ (Blank(screen[y][x]) /\ Blank(cell))

=============================================================================

-------------------------------- MODULE Vga --------------------------------
(***************************************************************************)
(* The text-mode driver, drivers/vga/vga.c: a page in ordinary memory and  *)
(* the screen, which is brought up to date by copying the whole page, when *)
(* something asks for it.  The one console of the program covers the whole *)
(* page, so positions on the page and on the console are the same.         *)
(***************************************************************************)
EXTENDS Integers

CONSTANTS
  page_rows,     \* (24)
  page_columns,  \* (80)
  Format         \* colours of text

ASSUME PageAssumption ==
  /\ page_rows \in Nat /\ page_rows >= 2
  /\ page_columns \in Nat /\ page_columns >= 2

Row    == 0 .. page_rows - 1
Column == 0 .. page_columns - 1

\* A display: vga_buffer, the screen, and buffer_sync.
VGAChar(character, format) == <<character, format>>

Filled(c) == [y \in Row |-> [x \in Column |-> c]]

vga_flush(d) ==
  IF d.sync THEN d ELSE [d EXCEPT !.screen = d.buffer, !.sync = TRUE]

vga_print_char(d, c, x, y) ==
  [d EXCEPT !.buffer[y][x] = c, !.screen[y][x] = c]

vga_get_char(d, x, y) == d.screen[y][x]

\* Mutant: what is copied may be out of date.
vga_copy_up_unflushed(d) ==
  [d EXCEPT !.buffer = [y \in Row |-> IF y = page_rows - 1 THEN @[y] ELSE d.screen[y + 1]],
            !.sync = FALSE]

\* Row by row from the screen into the page, each row one higher.
vga_copy_up(d) ==
  LET flushed == vga_flush(d)
  IN  [flushed EXCEPT
         !.buffer = [y \in Row |-> IF y = page_rows - 1 THEN @[y] ELSE flushed.screen[y + 1]],
         !.sync = FALSE]

vga_fill(d, rows, c) ==
  [d EXCEPT !.buffer = [y \in Row |-> IF y \in rows THEN [x \in Column |-> c] ELSE @[y]],
            !.sync = FALSE]

=============================================================================

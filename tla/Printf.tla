------------------------------- MODULE Printf -------------------------------
(***************************************************************************)
(* vsnprintf of console.c, which all printing goes through: a format is    *)
(* copied into a buffer, directive by directive, and what does not fit is  *)
(* counted but not stored.  One action is one round of its loop.           *)
(*                                                                         *)
(* A format is a sequence of characters and of directives, whose flags,    *)
(* width and precision are read off already; none ends in a lone "%".      *)
(* A blank is "SP", as the byte behind a text is "NUL".                    *)
(* Pointers wrap, and with them end, the sum of two.                       *)
(***************************************************************************)
EXTENDS Integers, Sequences, SequencesExt

CONSTANTS
  WORD,           \* values of an unsigned int (2^32)
  SHORT,          \* and of an unsigned short (2^16)
  ADDRESS_SPACE,  \* values of a pointer (2^32)
  sizeof_pointer, \* (4)
  s,              \* where the buffer is
  SIZE,           \* and how long
  Calls           \* what is printed: a format, its arguments, and n

\* A width or a precision that is not given; one given by an argument; a lone ".".
None == -1
Star == -2
Dot  == -3

Conversion == {"%", "c", "s", "o", "i", "d", "u", "X", "x", "p", "n", "other"}

Directive ==
  [flags : SUBSET {"LEFT", "PLUS", "SPACE", "ALT", "ZERO"},
   width : Nat \cup {None, Star}, prescision : Nat \cup {None, Star, Dot},
   qualifier : {"none", "h", "l", "L"}, conversion : Conversion]

\* Items of a format, and arguments.
Plain(c)   == [plain |-> c]
Word(word) == [int |-> word]
Text(text) == [text |-> text]

IsPlain(item) == "plain" \in DOMAIN item

\* The arguments d takes for its width and precision, and with these in all:
\* "%n" and unknown conversions take none.
Stars(d) == (IF d.width = Star THEN 1 ELSE 0) + (IF d.prescision = Star THEN 1 ELSE 0)
Taken(d) == Stars(d) + IF d.conversion \in {"%", "n", "other"} THEN 0 ELSE 1

\* The arguments that d finds are of the kinds it takes.
Suits(d, list) ==
  /\ \A j \in 1 .. Stars(d) : list[j] \in [int : 0 .. WORD - 1]
  /\ Taken(d) > Stars(d) =>
       CASE d.conversion = "c" -> list[Taken(d)] \in [text : Seq(STRING)]
                                    /\ Len(list[Taken(d)].text) = 1
         [] d.conversion = "s" -> list[Taken(d)] \in [text : Seq(STRING)]
         [] OTHER              -> list[Taken(d)] \in [int : 0 .. WORD - 1]

\* The arguments match the format, as printf asks of its callers: item j
\* finds its own from the at[j]-th on.
Matched(c) ==
  \E at \in [1 .. Len(c.format) + 1 -> 1 .. Len(c.args) + 1] :
    /\ at[1] = 1
    /\ \A j \in DOMAIN c.format :
          IF IsPlain(c.format[j])
          THEN at[j + 1] = at[j]
          ELSE /\ at[j + 1] = at[j] + Taken(c.format[j])
               /\ Suits(c.format[j], SubSeq(c.args, at[j], Len(c.args)))

ASSUME PrintfAssumption ==
  /\ {WORD, SHORT} \subseteq Nat \ {0, 1} /\ WORD % SHORT = 0
  /\ {s, SIZE, ADDRESS_SPACE, sizeof_pointer} \subseteq Nat
  /\ s > 2 /\ s + SIZE + 2 < ADDRESS_SPACE
  /\ \A c \in Calls :
       /\ c.n \in 0 .. ADDRESS_SPACE - 1
       /\ c.format \in Seq([plain : STRING] \cup Directive)
       /\ c.args \in Seq([int : 0 .. WORD - 1] \cup [text : Seq(STRING)])
       /\ Matched(c)

\* The buffer and two bytes on each side of it, which hold "?" at first.
Location == s - 2 .. s + SIZE + 1

VARIABLES
  call,    \* the call that is made
  k,       \* index of the next item of its format
  args,    \* arguments that are left
  memory,  \* [Location -> character]
  output,  \* what was produced so far; pos is behind it, whether it fits or not
  field,   \* history: what the last directive made of its argument
  done

printf_vars == <<call, k, args, memory, output, field, done>>

NoField == [conversion |-> "none"]

PrintfInit ==
  /\ call \in Calls
  /\ k = 1 /\ args = call.args
  /\ memory = [a \in Location |-> "?"]
  /\ output = <<>>
  /\ field = NoField
  /\ done = FALSE

-----------------------------------------------------------------------------

end == (s + call.n) % ADDRESS_SPACE

\* Mutant: the place for the NUL is used too.
CanStore_last(a) == a <= end

CanStore(a) == a < end

\* bound_string_putchar, for each character of text.
Emit(text) ==
  LET pos == s + Len(output)
  IN  /\ memory' = [a \in Location |->
                      IF a - pos \in 0 .. Len(text) - 1 /\ CanStore(a)
                      THEN text[a - pos + 1] ELSE memory[a]]
      /\ output' = output \o text

\* while (count-- > 0) of a character.
Repeat(c, count) == [j \in 1 .. count |-> c]

AsInt(word) == IF word >= WORD \div 2 THEN word - WORD ELSE word
AsWord(int) == int % WORD

digits(flags) ==
  <<"0", "1", "2", "3", "4", "5", "6", "7", "8", "9">> \o
  IF "UPPER" \in flags THEN <<"A", "B", "C", "D", "E", "F">>
                       ELSE <<"a", "b", "c", "d", "e", "f">>

\* number / base until nothing is left; no word has more than WORD digits.
Numeral(number, base, flags) ==
  LET rest[j \in Nat] == IF j = 0 THEN number ELSE rest[j - 1] \div base
      length == CHOOSE j \in 1 .. WORD : rest[j] = 0 /\ (j > 1 => rest[j - 1] # 0)
  IN  [j \in 1 .. length |-> digits(flags)[1 + (rest[length - j] % base)]]

\* Mutant: the place for a sign is not taken from the width.
WidthLeft_unsigned(width, sign, length, prefix) == width - length - Len(prefix)

WidthLeft(width, sign, length, prefix) == width - Len(sign) - length - Len(prefix)

bound_string_format_integer(word, base, width, prescision, given) ==
  LET flags    == IF prescision >= 0 THEN given \ {"ZERO"} ELSE given
      negative == "SIGNED" \in flags /\ AsInt(word) < 0
      sign     == CASE negative -> <<"-">>
                    [] ~negative /\ {"SIGNED", "PLUS"} \subseteq flags -> <<"+">>
                    [] ~negative /\ {"SIGNED", "SPACE"} \subseteq flags
                         /\ "PLUS" \notin flags -> <<"SP">>
                    [] OTHER -> <<>>
      number   == Numeral(IF negative THEN AsWord(-word) ELSE word, base, flags)
      length   == IF Len(number) > prescision THEN Len(number) ELSE prescision
      prefix   == IF "ALT" \notin flags \/ base = 10 THEN <<>>
                  ELSE IF base = 16 THEN <<"0", IF "UPPER" \in flags THEN "X" ELSE "x">>
                  ELSE <<"0">>
      left     == WidthLeft(width, sign, length, prefix)
      Padding(c, when) == IF when THEN Repeat(c, left) ELSE <<>>
  IN  Padding("SP", flags \cap {"ZERO", "LEFT"} = {})
        \o sign \o prefix
        \o Padding("0", "ZERO" \in flags /\ "LEFT" \notin flags)
        \o Repeat("0", length - Len(number)) \o number
        \o Padding("SP", "LEFT" \in flags)

\* A text in a field, for c and s.
Padded(text, width, flags) ==
  IF "LEFT" \in flags THEN text \o Repeat("SP", width - Len(text))
                      ELSE Repeat("SP", width - Len(text)) \o text

-----------------------------------------------------------------------------
(***************************************************************************)
(* The rounds.  Arguments are taken for the width, the precision and the   *)
(* conversion, in this order.                                              *)
(***************************************************************************)

Item == call.format[k]

NextItem == ~done /\ k <= Len(call.format) /\ k' = k + 1 /\ UNCHANGED <<call, done>>

plain ==
  /\ NextItem /\ IsPlain(Item)
  /\ Emit(<<Item.plain>>)
  /\ field' = NoField
  /\ UNCHANGED args

Abs(x) == IF x < 0 THEN -x ELSE x

\* A negative width from an argument means LEFT_FLAG.
Width(d) == IF d.width = Star THEN Abs(AsInt(args[1].int)) ELSE d.width

Flags(d) ==
  (d.flags \ ((IF "PLUS" \in d.flags THEN {"SPACE"} ELSE {})
              \cup (IF "LEFT" \in d.flags THEN {"ZERO"} ELSE {})))
  \cup (IF d.width = Star /\ AsInt(args[1].int) < 0 THEN {"LEFT"} ELSE {})
  \cup (IF d.conversion = "X" THEN {"UPPER"} ELSE {})
  \cup (IF d.conversion \in {"i", "d"} THEN {"SIGNED"} ELSE {})

Prescision(d) ==
  CASE d.prescision = Star -> LET p == AsInt(args[IF d.width = Star THEN 2 ELSE 1].int) IN IF p < 0 THEN 0 ELSE p
    [] d.prescision = Dot  -> 0
    [] OTHER               -> d.prescision

Argument(d) == args[Stars(d) + 1]

\* The argument as the qualifier has it.
Number(d) ==
  LET low == Argument(d).int % SHORT
  IN  CASE d.qualifier = "h" /\ d.conversion \in {"i", "d"} /\ low >= SHORT \div 2
             -> AsWord(low - SHORT)
        [] d.qualifier = "h" /\ (d.conversion \notin {"i", "d"} \/ low < SHORT \div 2) -> low
        [] OTHER -> Argument(d).int

Base == [o |-> 8, i |-> 10, d |-> 10, u |-> 10, X |-> 16, x |-> 16]

\* The text directive d prints.
Printed(d) ==
  CASE d.conversion = "%" -> <<"%">>
    [] d.conversion \in {"n", "other"} -> <<>>
    [] d.conversion = "c" -> Padded(Argument(d).text, Width(d), Flags(d))
    [] d.conversion = "s" ->
         LET text   == Argument(d).text
             length == IF Prescision(d) \in 0 .. Len(text) THEN Prescision(d) ELSE Len(text)
         IN  Padded(SubSeq(text, 1, length), Width(d), Flags(d))
    [] d.conversion \in DOMAIN Base ->
         bound_string_format_integer(Number(d), Base[d.conversion], Width(d), Prescision(d),
                                     Flags(d))
    [] d.conversion = "p" ->
         LET all == Width(d) = None
         IN  bound_string_format_integer(Argument(d).int, 16,
               IF all THEN 2 * sizeof_pointer ELSE Width(d), Prescision(d),
               Flags(d) \cup IF all THEN {"ZERO"} ELSE {})

directive ==
  /\ NextItem /\ ~IsPlain(Item)
  /\ Emit(Printed(Item))
  /\ args' = SubSeq(args, Taken(Item) + 1, Len(args))
  /\ field' = [conversion |-> Item.conversion, text |-> Printed(Item), width |-> Width(Item),
               prescision |-> Prescision(Item), flags |-> Flags(Item),
               qualifier |-> Item.qualifier,
               argument |-> IF Taken(Item) > Stars(Item) THEN Argument(Item) ELSE NoField]

finish ==
  /\ ~done /\ k > Len(call.format) /\ done' = TRUE
  /\ LET pos == s + Len(output)
         nul == IF pos < end THEN pos ELSE end - 1
     IN  memory' = IF call.n > 0 THEN [memory EXCEPT ![nul] = "NUL"] ELSE memory
  /\ UNCHANGED <<call, k, args, output, field>>

printed == done /\ UNCHANGED printf_vars

PrintfNext == plain \/ directive \/ finish \/ printed

PrintfSpec == PrintfInit /\ [][PrintfNext]_printf_vars

-----------------------------------------------------------------------------

(***************************************************************************)
(* The buffer holds the text, cut where n leaves no room for its NUL, and  *)
(* nothing is written before the buffer or behind the NUL                  *)
(* (console.c 43-47, 177, 336-342).                                        *)
(***************************************************************************)
TextIsCut ==
  done =>
    LET n     == call.n
        shown == IF Len(output) < n THEN Len(output) ELSE n - 1
    IN  \A a \in Location :
          memory[a] = CASE a - s \in 0 .. shown - 1 -> output[a - s + 1]
                        [] n > 0 /\ a = s + shown   -> "NUL"
                        [] OTHER                    -> "?"

Digit(c, flags) == (CHOOSE j \in 1 .. 16 : digits(flags)[j] = c) - 1

Value(numeral, base, flags) ==
  LET read[j \in 0 .. Len(numeral)] ==
        IF j = 0 THEN 0 ELSE base * read[j - 1] + Digit(numeral[j], flags)
  IN  read[Len(numeral)]

\* Blanks fill f's width on one side, if they are needed.
Fills(f, blanks_before, blanks_after) ==
  /\ Len(f.text) >= f.width
  /\ blanks_before > 0 => "LEFT" \notin f.flags /\ Len(f.text) = f.width
  /\ blanks_after > 0  => "LEFT" \in f.flags /\ Len(f.text) = f.width

\* f's text is sign, prefix and a numeral whose value is magnitude.
ReadsAs(f, base, magnitude, sign, prefix) ==
  LET last == CHOOSE j \in DOMAIN f.text :
                f.text[j] # "SP" /\ \A m \in j + 1 .. Len(f.text) : f.text[m] = "SP"
  IN  \E length \in 1 .. last :
        LET numeral == SubSeq(f.text, last - length + 1, last)
            before  == last - length - Len(prefix) - Len(sign)
        IN  /\ before >= 0
            /\ SubSeq(f.text, 1, last - length) = Repeat("SP", before) \o sign \o prefix
            /\ \A j \in 1 .. length : Contains(digits(f.flags), numeral[j])
            /\ Value(numeral, base, f.flags) = magnitude
            /\ length >= f.prescision
            /\ Fills(f, before, Len(f.text) - last)
            \* Zeros in front are there for the precision or for the width.
            /\ length > 1 /\ length > f.prescision /\ numeral[1] = "0" =>
                 "ZERO" \in f.flags /\ f.prescision < 0 /\ Len(f.text) = f.width

(***************************************************************************)
(* A number comes out so that it reads back: sign, prefix, as many digits  *)
(* as the precision asks for, and blanks or zeros up to the width and not  *)
(* beyond it (console.c 84-171; the widths are counted down by three       *)
(* loops that share a counter).                                            *)
(***************************************************************************)
NumbersReadBack ==
  field.conversion \in DOMAIN Base =>
    LET f      == field
        signed == f.conversion \in {"i", "d"}
        values == IF f.qualifier = "h" THEN SHORT ELSE WORD
        low    == f.argument.int % values
        number == IF signed /\ low >= values \div 2 THEN low - values ELSE low
        sign   == CASE number < 0 -> <<"-">>
                    [] number >= 0 /\ signed /\ "PLUS" \in f.flags -> <<"+">>
                    [] number >= 0 /\ signed /\ "PLUS" \notin f.flags /\ "SPACE" \in f.flags
                         -> <<"SP">>
                    [] OTHER -> <<>>
        prefix == IF "ALT" \in f.flags
                  THEN CASE f.conversion = "o" -> <<"0">> [] f.conversion = "x" -> <<"0", "x">>
                         [] f.conversion = "X" -> <<"0", "X">> [] OTHER -> <<>>
                  ELSE <<>>
    IN  ReadsAs(f, Base[f.conversion], Abs(number), sign, prefix)

=============================================================================

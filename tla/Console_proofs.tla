--------------------------- MODULE Console_proofs ---------------------------
(***************************************************************************)
(* Proofs about Printf and Console: texts are always cut, numbers always   *)
(* read back, and the screen always shows what was written.                *)
(***************************************************************************)
EXTENDS Console, Printf, SequenceTheorems, WellFoundedInduction, TLAPS

-----------------------------------------------------------------------------
(***************************************************************************)
(* Induction, as a fact about sets of numbers, and what it gives: a        *)
(* function that is defined step by step exists.                           *)
(***************************************************************************)
Less == {pair \in Nat \X Nat : pair[1] < pair[2]}

LEMMA LeastNumber ==
  ASSUME NEW T \in SUBSET Nat, T # {}
  PROVE  \E m \in T : \A n \in T : m <= n
<1>1. IsWellFoundedOn(Less, Nat)
  BY NatLessThanWellFounded DEF OpToRel, Less
<1>2. PICK m \in T : \A n \in T : <<n, m>> \notin Less
  BY <1>1, WFMin
<1>3. \A n \in T : ~(n < m)
  BY <1>2 DEF Less
<1> QED
  BY <1>3

LEMMA AllNumbers ==
  ASSUME NEW T \in SUBSET Nat, 0 \in T, \A n \in T : n + 1 \in T
  PROVE  T = Nat
<1> DEFINE Rest == Nat \ T
<1> SUFFICES ASSUME Rest # {} PROVE FALSE
  OBVIOUS
<1>1. PICK m \in Rest : \A n \in Rest : m <= n
  BY LeastNumber
<1>2. m # 0 /\ m - 1 \in Nat
  BY <1>1
<1>3. m - 1 \in T
  BY <1>1, <1>2
<1>4. (m - 1) + 1 = m
  BY <1>1
<1> QED
  BY <1>1, <1>3, <1>4

Follows(f, n, first, link) == f[0] = first /\ \A j \in 1 .. n : f[j] = link[f[j - 1]]

LEMMA OnlyOneFollows ==
  ASSUME NEW S, NEW first \in S, NEW link \in [S -> S], NEW n \in Nat, NEW m \in 0 .. n,
         NEW f, Follows(f, m, first, link), NEW g, Follows(g, n, first, link)
  PROVE  f[m] = g[m]
<1> DEFINE Apart == {j \in 0 .. m : f[j] # g[j]}
<1> SUFFICES ASSUME Apart # {} PROVE FALSE
  OBVIOUS
<1>0. Apart \in SUBSET Nat
  OBVIOUS
<1> HIDE DEF Apart
<1>1. PICK j \in Apart : \A l \in Apart : j <= l
  BY <1>0, LeastNumber
<1> USE DEF Apart
<1>2. j # 0
  BY <1>1 DEF Follows
<1>3. j - 1 \in 0 .. m /\ f[j - 1] = g[j - 1]
  BY <1>1, <1>2
<1>4. j \in 1 .. m /\ j \in 1 .. n
  BY <1>1, <1>2
<1> QED
  BY <1>1, <1>3, <1>4 DEF Follows

Iterated(f, S, first, link) ==
  /\ f \in [Nat -> S]
  /\ f[0] = first
  /\ \A j \in Nat : f[j + 1] = link[f[j]]

LEMMA Iterates ==
  ASSUME NEW S, NEW first \in S, NEW link \in [S -> S]
  PROVE  \E f : Iterated(f, S, first, link)
<1> DEFINE T == {n \in Nat : \E f \in [0 .. n -> S] : Follows(f, n, first, link)}
<1>1. 0 \in T
  <2> DEFINE f == [j \in 0 .. 0 |-> first]
  <2>1. f \in [0 .. 0 -> S] /\ Follows(f, 0, first, link)
    BY DEF Follows
  <2> QED
    BY <2>1
<1>2. ASSUME NEW n \in T PROVE n + 1 \in T
  <2>1. PICK f \in [0 .. n -> S] : Follows(f, n, first, link)
    BY <1>2
  <2> DEFINE g == [j \in 0 .. n + 1 |-> IF j = n + 1 THEN link[f[n]] ELSE f[j]]
  <2>2. g \in [0 .. n + 1 -> S]
    BY <2>1
  <2>3. g[0] = first
    BY <2>1 DEF Follows
  <2>4. \A j \in 1 .. n + 1 : g[j] = link[g[j - 1]]
    <3> TAKE j \in 1 .. n + 1
    <3>1. CASE j = n + 1
      BY <3>1
    <3>2. CASE j # n + 1
      <4>1. j \in 1 .. n /\ j - 1 \in 0 .. n /\ j - 1 # n + 1
        BY <3>2
      <4>2. g[j] = f[j] /\ g[j - 1] = f[j - 1]
        BY <4>1
      <4> QED
        BY <2>1, <4>1, <4>2 DEF Follows
    <3> QED
      BY <3>1, <3>2
  <2>5. Follows(g, n + 1, first, link)
    BY <2>3, <2>4 DEF Follows
  <2> HIDE DEF g
  <2> QED
    BY <2>2, <2>5
<1>3. T = Nat
  <2>1. T \in SUBSET Nat
    OBVIOUS
  <2> HIDE DEF T
  <2> QED
    BY <1>1, <1>2, <2>1, AllNumbers
<1> DEFINE part(n) == CHOOSE f \in [0 .. n -> S] : Follows(f, n, first, link)
           whole == [n \in Nat |-> part(n)[n]]
<1>4. \A n \in Nat : part(n) \in [0 .. n -> S] /\ Follows(part(n), n, first, link)
  BY <1>3
<1> HIDE DEF T, part
<1>5. whole \in [Nat -> S]
  BY <1>4
<1>6. whole[0] = first
  BY <1>4 DEF Follows
<1>7. ASSUME NEW n \in Nat PROVE whole[n + 1] = link[whole[n]]
  <2>1. part(n + 1)[n + 1] = link[part(n + 1)[n]]
    <3>1. n + 1 \in 1 .. n + 1 /\ (n + 1) - 1 = n
      OBVIOUS
    <3> QED
      BY <1>4, <3>1 DEF Follows
  <2>2. part(n)[n] = part(n + 1)[n]
    <3>1. n \in 0 .. n + 1 /\ n + 1 \in Nat
      OBVIOUS
    <3> QED
      BY <1>4, <3>1, OnlyOneFollows
  <2> QED
    BY <2>1, <2>2
<1> HIDE DEF whole
<1>8. Iterated(whole, S, first, link)
  BY <1>5, <1>6, <1>7 DEF Iterated
<1> QED
  BY <1>8

-----------------------------------------------------------------------------
(***************************************************************************)
(* The texts vsnprintf makes.                                              *)
(***************************************************************************)
LEMMA Quotient ==
  ASSUME NEW v \in Nat, NEW base \in {8, 10, 16}
  PROVE  /\ v \div base \in Nat /\ v % base \in 0 .. base - 1
         /\ v = base * (v \div base) + (v % base)
         /\ v # 0 => v \div base < v
<1>1. CASE base = 8
  BY <1>1
<1>2. CASE base = 10
  BY <1>2
<1>3. CASE base = 16
  BY <1>3
<1> QED
  BY <1>1, <1>2, <1>3

\* over lists what is left of number, divided by base again and again.
Divided(over, number, base) ==
  /\ over \in [Nat -> 0 .. number]
  /\ over[0] = number
  /\ \A j \in Nat : over[j + 1] = over[j] \div base

\* length is how many divisions it takes, and at least one.
Divisions(length, over) ==
  /\ length \in 1 .. WORD
  /\ over[length] = 0
  /\ length > 1 => over[length - 1] # 0

LEMMA NumeralIs ==
  ASSUME NEW number \in 0 .. WORD - 1, NEW base \in {8, 10, 16}, NEW flags
  PROVE  \E over, length :
           /\ Divided(over, number, base)
           /\ Divisions(length, over)
           /\ Numeral(number, base, flags)
                = [j \in 1 .. length |-> digits(flags)[1 + (over[length - j] % base)]]
<1> DEFINE Recursion(r) == r = [j \in Nat |-> IF j = 0 THEN number ELSE r[j - 1] \div base]
           over == CHOOSE r : Recursion(r)
           length == CHOOSE j \in 1 .. WORD : over[j] = 0 /\ (j > 1 => over[j - 1] # 0)
<1>0. number \in Nat /\ WORD \in Nat /\ WORD >= 2 /\ number < WORD
  BY PrintfAssumption
<1>1. Recursion(over)
  <2> DEFINE link == [v \in 0 .. number |-> v \div base]
  <2>1. link \in [0 .. number -> 0 .. number]
    <3>1. ASSUME NEW v \in 0 .. number PROVE v \div base \in 0 .. number
      <4>1. v \in Nat
        OBVIOUS
      <4>2. v \div base \in Nat /\ (v # 0 => v \div base < v)
        BY <4>1, Quotient
      <4>3. v = 0 => v \div base = 0
        OBVIOUS
      <4> QED
        BY <1>0, <4>1, <4>2, <4>3
    <3> QED
      BY <3>1
  <2>2. number \in 0 .. number
    BY <1>0
  <2> HIDE DEF link
  <2>30. \E f : Iterated(f, 0 .. number, number, link)
    BY <2>1, <2>2, Iterates
  <2>3. PICK f \in [Nat -> 0 .. number] :
           f[0] = number /\ \A j \in Nat : f[j + 1] = link[f[j]]
    BY <2>30 DEF Iterated
  <2> USE DEF link
  <2>4. \A j \in Nat : f[j + 1] = f[j] \div base
    BY <2>3
  <2>5. ASSUME NEW j \in Nat PROVE f[j] = IF j = 0 THEN number ELSE f[j - 1] \div base
    <3>1. CASE j = 0
      BY <2>3, <3>1
    <3>2. CASE j # 0
      <4>1. j - 1 \in Nat /\ (j - 1) + 1 = j
        BY <3>2
      <4>2. f[(j - 1) + 1] = f[j - 1] \div base
        BY <2>4, <4>1
      <4> QED
        BY <3>2, <4>1, <4>2
    <3> QED
      BY <3>1, <3>2
  <2>6. Recursion(f)
    BY <2>3, <2>5
  <2> QED
    BY <2>6
<1>2. /\ over[0] = number
      /\ \A j \in Nat : over[j + 1] = over[j] \div base
  <2>0. over = [j \in Nat |-> IF j = 0 THEN number ELSE over[j - 1] \div base]
    BY <1>1
  <2> HIDE DEF over
  <2>1. over[0] = number
    BY <2>0
  <2>2. ASSUME NEW j \in Nat PROVE over[j + 1] = over[j] \div base
    <3>1. j + 1 \in Nat /\ j + 1 # 0 /\ (j + 1) - 1 = j
      OBVIOUS
    <3> QED
      BY <2>0, <3>1
  <2> QED
    BY <2>1, <2>2
<1>20. over = [j \in Nat |-> over[j]]
  <2>0. over = [j \in Nat |-> IF j = 0 THEN number ELSE over[j - 1] \div base]
    BY <1>1
  <2> HIDE DEF over
  <2> QED
    BY <2>0
<1> HIDE DEF over
<1> DEFINE T == {j \in Nat : /\ over[j] \in Nat /\ over[j] <= number
                             /\ over[j] = 0 \/ over[j] + j <= number}
<1>3. T = Nat
  <2>1. 0 \in T
    BY <1>0, <1>2
  <2>2. ASSUME NEW j \in T PROVE j + 1 \in T
    <3>1. /\ j \in Nat /\ over[j] \in Nat /\ over[j] <= number
          /\ over[j] = 0 \/ over[j] + j <= number
      OBVIOUS
    <3>2. over[j + 1] = over[j] \div base
      BY <1>2, <3>1
    <3>3. /\ over[j] \div base \in Nat
          /\ over[j] # 0 => over[j] \div base < over[j]
      BY <3>1, Quotient
    <3>4. over[j] = 0 => over[j] \div base = 0
      OBVIOUS
    <3> QED
      BY <1>0, <3>1, <3>2, <3>3, <3>4
  <2>3. T \in SUBSET Nat
    OBVIOUS
  <2> HIDE DEF T
  <2> QED
    BY <2>1, <2>2, <2>3, AllNumbers
<1>4. Divided(over, number, base)
  <2>1. \A j \in Nat : over[j] \in 0 .. number
    BY <1>0, <1>3
  <2>2. over \in [Nat -> 0 .. number]
    BY <1>20, <2>1
  <2> QED
    BY <1>2, <2>2 DEF Divided
<1>5. Divisions(length, over)
  <2> DEFINE Zeros == {j \in 1 .. WORD : over[j] = 0}
  <2>1. WORD \in Zeros
    BY <1>0, <1>3
  <2>2. Zeros \in SUBSET Nat
    BY <1>0
  <2> HIDE DEF Zeros
  <2>3. PICK j \in Zeros : \A m \in Zeros : j <= m
    BY <2>1, <2>2, LeastNumber
  <2> USE DEF Zeros
  <2>4. j > 1 => over[j - 1] # 0
    BY <1>0, <2>3
  <2>5. \E m \in 1 .. WORD : over[m] = 0 /\ (m > 1 => over[m - 1] # 0)
    BY <2>3, <2>4
  <2> QED
    BY <2>5 DEF Divisions
<1>6. Numeral(number, base, flags)
        = [j \in 1 .. length |-> digits(flags)[1 + (over[length - j] % base)]]
  BY DEF Numeral, over
<1> HIDE DEF length
<1> QED
  BY <1>4, <1>5, <1>6

\* What texts are made of.
Glyph ==
  STRING \cup {"SP", "-", "+", "%", "?", "NUL", "x", "X",
               "0", "1", "2", "3", "4", "5", "6", "7", "8", "9",
               "A", "B", "C", "D", "E", "F", "a", "b", "c", "d", "e", "f"}

LEMMA Glyphs ==
  /\ {"SP", "-", "+", "%", "?", "NUL", "x", "X"} \subseteq Glyph
  /\ {"0", "1", "2", "3", "4", "5", "6", "7", "8", "9"} \subseteq Glyph
  /\ {"A", "B", "C", "D", "E", "F", "a", "b", "c", "d", "e", "f"} \subseteq Glyph
BY DEF Glyph

LEMMA StringsAreGlyphs == STRING \subseteq Glyph
BY DEF Glyph

LEMMA Wider ==
  ASSUME NEW S, NEW T, S \subseteq T, NEW list \in Seq(S)
  PROVE  list \in Seq(T)
OBVIOUS

LEMMA TextOf ==
  ASSUME NEW text \in Seq(STRING)
  PROVE  text \in Seq(Glyph)
BY Wider, StringsAreGlyphs

LEMMA RepeatText ==
  ASSUME NEW c \in Glyph, NEW count \in Int
  PROVE  /\ Repeat(c, count) \in Seq(Glyph)
         /\ Len(Repeat(c, count)) = IF count > 0 THEN count ELSE 0
         /\ \A j \in 1 .. count : Repeat(c, count)[j] = c
<1>1. CASE count >= 0
  BY <1>1 DEF Repeat
<1>2. CASE count < 0
  <2>1. 1 .. count = 1 .. 0
    BY <1>2
  <2>2. Repeat(c, count) = Repeat(c, 0)
    BY <2>1 DEF Repeat
  <2>3. Repeat(c, 0) \in Seq(Glyph) /\ Len(Repeat(c, 0)) = 0
    BY DEF Repeat
  <2> QED
    BY <1>2, <2>1, <2>2, <2>3
<1>3. count >= 0 \/ count < 0
  OBVIOUS
<1> QED
  BY <1>1, <1>2, <1>3

LEMMA Concatenated ==
  ASSUME NEW S, NEW a \in Seq(S), NEW b \in Seq(S)
  PROVE  a \o b \in Seq(S) /\ Len(a \o b) = Len(a) + Len(b)
OBVIOUS

LEMMA DigitsText ==
  ASSUME NEW flags
  PROVE  digits(flags) \in Seq(Glyph) /\ Len(digits(flags)) = 16
<1> DEFINE low == <<"0", "1", "2", "3", "4", "5", "6", "7", "8", "9">>
           upper == <<"A", "B", "C", "D", "E", "F">>
           lower == <<"a", "b", "c", "d", "e", "f">>
<1>1. low \in Seq(Glyph) /\ Len(low) = 10
  BY Glyphs
<1>2. upper \in Seq(Glyph) /\ Len(upper) = 6
  BY Glyphs
<1>3. lower \in Seq(Glyph) /\ Len(lower) = 6
  BY Glyphs
<1>4. digits(flags) = low \o IF "UPPER" \in flags THEN upper ELSE lower
  BY DEF digits
<1> HIDE DEF low, upper, lower
<1>5. CASE "UPPER" \in flags
  <2>1. digits(flags) = low \o upper
    BY <1>4, <1>5
  <2>2. low \o upper \in Seq(Glyph) /\ Len(low \o upper) = Len(low) + Len(upper)
    BY <1>1, <1>2, Concatenated
  <2>3. Len(low) + Len(upper) = 16
    BY <1>1, <1>2
  <2> QED
    BY <2>1, <2>2, <2>3
<1>6. CASE "UPPER" \notin flags
  <2>1. digits(flags) = low \o lower
    BY <1>4, <1>6
  <2>2. low \o lower \in Seq(Glyph) /\ Len(low \o lower) = Len(low) + Len(lower)
    BY <1>1, <1>3, Concatenated
  <2>3. Len(low) + Len(lower) = 16
    BY <1>1, <1>3
  <2> QED
    BY <2>1, <2>2, <2>3
<1> QED
  BY <1>5, <1>6

LEMMA NumeralText ==
  ASSUME NEW number \in 0 .. WORD - 1, NEW base \in {8, 10, 16}, NEW flags
  PROVE  Numeral(number, base, flags) \in Seq(Glyph)
<1>1. PICK over, length :
         /\ Divided(over, number, base)
         /\ Divisions(length, over)
         /\ Numeral(number, base, flags)
              = [j \in 1 .. length |-> digits(flags)[1 + (over[length - j] % base)]]
  BY NumeralIs
<1>2. length \in Nat /\ number \in Nat
  BY <1>1, PrintfAssumption DEF Divisions
<1>3. ASSUME NEW j \in 1 .. length
      PROVE  digits(flags)[1 + (over[length - j] % base)] \in Glyph
  <2>1. length - j \in Nat
    BY <1>2
  <2>2. over[length - j] \in 0 .. number
    BY <1>1, <2>1 DEF Divided
  <2>3. over[length - j] \in Nat
    BY <1>2, <2>2
  <2>4. over[length - j] % base \in 0 .. base - 1
    BY <2>3, Quotient
  <2>5. 1 + (over[length - j] % base) \in 1 .. 16
    BY <2>4
  <2> QED
    BY <2>5, DigitsText
<1> QED
  BY <1>1, <1>2, <1>3

LEMMA PaddedText ==
  ASSUME NEW text \in Seq(Glyph), NEW width \in Int, NEW flags
  PROVE  Padded(text, width, flags) \in Seq(Glyph)
<1>1. width - Len(text) \in Int
  OBVIOUS
<1>2. Repeat("SP", width - Len(text)) \in Seq(Glyph)
  BY <1>1, RepeatText, Glyphs
<1> QED
  BY <1>2, Concatenated DEF Padded

LEMMA Remainder ==
  ASSUME NEW v \in Int, NEW m \in Nat \ {0}
  PROVE  v % m \in 0 .. m - 1
OBVIOUS

LEMMA IntegerText ==
  ASSUME NEW word \in 0 .. WORD - 1, NEW base \in {8, 10, 16}, NEW width \in Int,
         NEW prescision \in Int, NEW given
  PROVE  bound_string_format_integer(word, base, width, prescision, given) \in Seq(Glyph)
<1> DEFINE
      flags    == IF prescision >= 0 THEN given \ {"ZERO"} ELSE given
      negative == "SIGNED" \in flags /\ AsInt(word) < 0
      sign     == CASE negative -> <<"-">>
                    [] ~negative /\ {"SIGNED", "PLUS"} \subseteq flags -> <<"+">>
                    [] ~negative /\ {"SIGNED", "SPACE"} \subseteq flags
                         /\ "PLUS" \notin flags -> <<"SP">>
                    [] OTHER -> <<>>
      number   == Numeral(IF negative THEN AsWord(-word) ELSE word, base, flags)
      length   == IF Len(number) > prescision THEN Len(number) ELSE prescision
      prefix   == IF "ALT" \notin flags \/ base = 10 THEN <<>>
                  ELSE IF base = 16 THEN <<"0", IF "UPPER" \in flags THEN "X" ELSE "x">>
                  ELSE <<"0">>
      left     == WidthLeft(width, sign, length, prefix)
      Padding(c, when) == IF when THEN Repeat(c, left) ELSE <<>>
<1>1. bound_string_format_integer(word, base, width, prescision, given)
        = Padding("SP", flags \cap {"ZERO", "LEFT"} = {})
            \o sign \o prefix
            \o Padding("0", "ZERO" \in flags /\ "LEFT" \notin flags)
            \o Repeat("0", length - Len(number)) \o number
            \o Padding("SP", "LEFT" \in flags)
  BY DEF bound_string_format_integer
<1>2. sign \in Seq(Glyph) /\ Len(sign) \in Nat
  <2>1. sign \in {<<"-">>, <<"+">>, <<"SP">>, <<>>}
    OBVIOUS
  <2>2. {<<"-">>, <<"+">>, <<"SP">>, <<>>} \subseteq Seq(Glyph)
    BY Glyphs
  <2> HIDE DEF sign
  <2> QED
    BY <2>1, <2>2
<1>3. prefix \in Seq(Glyph) /\ Len(prefix) \in Nat
  <2>1. prefix \in {<<"0", "X">>, <<"0", "x">>, <<"0">>, <<>>}
    OBVIOUS
  <2>2. {<<"0", "X">>, <<"0", "x">>, <<"0">>, <<>>} \subseteq Seq(Glyph)
    BY Glyphs
  <2> HIDE DEF prefix
  <2> QED
    BY <2>1, <2>2
<1>4. number \in Seq(Glyph) /\ Len(number) \in Nat
  <2>1. WORD \in Nat \ {0} /\ -word \in Int
    BY PrintfAssumption
  <2>2. AsWord(-word) \in 0 .. WORD - 1
    BY <2>1, Remainder DEF AsWord
  <2>3. (IF negative THEN AsWord(-word) ELSE word) \in 0 .. WORD - 1
    BY <2>2
  <2>4. number \in Seq(Glyph)
    BY <2>3, NumeralText
  <2> HIDE DEF number
  <2> QED
    BY <2>4
<1> HIDE DEF sign, prefix, number
<1>5. length - Len(number) \in Int /\ left \in Int
  BY <1>2, <1>3, <1>4 DEF WidthLeft
<1> HIDE DEF left, length
<1>60. "SP" \in Glyph /\ "0" \in Glyph
  BY Glyphs
<1>61. Repeat("SP", left) \in Seq(Glyph)
  BY <1>5, <1>60, RepeatText
<1>62. Repeat("0", left) \in Seq(Glyph)
  BY <1>5, <1>60, RepeatText
<1>63. Repeat("0", length - Len(number)) \in Seq(Glyph)
  BY <1>5, <1>60, RepeatText
<1>64. <<>> \in Seq(Glyph)
  OBVIOUS
<1>7. /\ Padding("SP", flags \cap {"ZERO", "LEFT"} = {}) \in Seq(Glyph)
      /\ Padding("0", "ZERO" \in flags /\ "LEFT" \notin flags) \in Seq(Glyph)
      /\ Padding("SP", "LEFT" \in flags) \in Seq(Glyph)
  BY <1>61, <1>62, <1>64
<1> HIDE DEF Padding, flags
<1> QED
  BY <1>1, <1>2, <1>3, <1>4, <1>63, <1>7, Concatenated

-----------------------------------------------------------------------------
(***************************************************************************)
(* What a directive prints is a text, if its arguments suit it.            *)
(***************************************************************************)

LEMMA Words ==
  /\ WORD \in Nat \ {0} /\ SHORT \in Nat \ {0} /\ SHORT <= WORD
  /\ \A w \in 0 .. WORD - 1 : AsInt(w) \in Int /\ w % SHORT \in 0 .. WORD - 1
<1>1. /\ WORD \in Nat /\ WORD > 0 /\ SHORT \in Nat /\ SHORT > 0 /\ WORD % SHORT = 0
  BY PrintfAssumption
<1>2. SHORT <= WORD
  BY <1>1
<1>3. ASSUME NEW w \in 0 .. WORD - 1 PROVE AsInt(w) \in Int
  BY <1>1 DEF AsInt
<1>4. ASSUME NEW w \in 0 .. WORD - 1 PROVE w % SHORT \in 0 .. WORD - 1
  <2>1. w % SHORT \in 0 .. SHORT - 1
    BY <1>1, Remainder
  <2> QED
    BY <1>1, <1>2, <2>1
<1> QED
  BY <1>1, <1>2, <1>3, <1>4

LEMMA WidthIsNumber ==
  ASSUME NEW d \in Directive, Suits(d, args)
  PROVE  Width(d) \in Int
<1>1. CASE d.width = Star
  <2>1. 1 \in 1 .. Stars(d)
    BY <1>1 DEF Stars
  <2>2. args[1] \in [int : 0 .. WORD - 1]
    BY <2>1 DEF Suits
  <2>3. AsInt(args[1].int) \in Int
    BY <2>2, Words
  <2> HIDE DEF AsInt
  <2> QED
    BY <1>1, <2>3 DEF Width, Abs
<1>2. CASE d.width # Star
  <2>1. d.width \in Nat \cup {None, Star}
    BY DEF Directive
  <2> QED
    BY <1>2, <2>1 DEF Width, None
<1> QED
  BY <1>1, <1>2

LEMMA PrescisionIsNumber ==
  ASSUME NEW d \in Directive, Suits(d, args)
  PROVE  Prescision(d) \in Int
<1>1. CASE d.prescision = Star
  <2> DEFINE first == IF d.width = Star THEN 2 ELSE 1
  <2>1. first \in 1 .. Stars(d)
    BY <1>1 DEF Stars
  <2>2. args[first] \in [int : 0 .. WORD - 1]
    BY <2>1 DEF Suits
  <2>3. AsInt(args[first].int) \in Int
    BY <2>2, Words
  <2>4. Prescision(d) = IF AsInt(args[first].int) < 0 THEN 0 ELSE AsInt(args[first].int)
    BY <1>1 DEF Prescision, Star, Dot
  <2> QED
    BY <2>3, <2>4
<1>2. CASE d.prescision = Dot
  BY <1>2 DEF Prescision, Dot, Star
<1>3. CASE d.prescision # Star /\ d.prescision # Dot
  <2>1. d.prescision \in Nat \cup {None, Star, Dot}
    BY DEF Directive
  <2> QED
    BY <1>3, <2>1 DEF Prescision, None
<1> QED
  BY <1>1, <1>2, <1>3

LEMMA NumberIsWord ==
  ASSUME NEW d \in Directive, Argument(d) \in [int : 0 .. WORD - 1]
  PROVE  Number(d) \in 0 .. WORD - 1
<1> DEFINE low == Argument(d).int % SHORT
<1>1. Argument(d).int \in 0 .. WORD - 1
  OBVIOUS
<1>2. low \in 0 .. WORD - 1
  BY <1>1, Words
<1>3. low \in Int /\ SHORT \in Nat /\ WORD \in Nat \ {0}
  BY <1>2, Words
<1>4. Number(d) \in {AsWord(low - SHORT), low, Argument(d).int}
  BY DEF Number
<1> HIDE DEF low
<1>5. AsWord(low - SHORT) \in 0 .. WORD - 1
  BY <1>3, Remainder DEF AsWord
<1> QED
  BY <1>1, <1>2, <1>4, <1>5

LEMMA PrintedText ==
  ASSUME NEW d \in Directive, Suits(d, args)
  PROVE  Printed(d) \in Seq(Glyph)
<1>1. Width(d) \in Int /\ Prescision(d) \in Int
  BY WidthIsNumber, PrescisionIsNumber
<1>2. /\ d.conversion \in Conversion
      /\ DOMAIN Base = {"o", "i", "d", "u", "X", "x"}
  BY DEF Directive, Base
<1>3. d.conversion \in DOMAIN Base \cup {"c", "s", "p"} =>
        Taken(d) = Stars(d) + 1 /\ Stars(d) \in Nat /\ Argument(d) = args[Taken(d)]
  BY <1>2 DEF Taken, Stars, Argument
<1>4. CASE d.conversion = "%"
  <2>1. Printed(d) = <<"%">>
    BY <1>2, <1>4 DEF Printed
  <2> QED
    BY <2>1, Glyphs
<1>5. CASE d.conversion \in {"n", "other"}
  <2>1. Printed(d) = <<>>
    BY <1>2, <1>5 DEF Printed
  <2> QED
    BY <2>1
<1>6. CASE d.conversion = "c"
  <2>1. Argument(d).text \in Seq(STRING)
    BY <1>3, <1>6 DEF Suits
  <2>2. Printed(d) = Padded(Argument(d).text, Width(d), Flags(d))
    BY <1>2, <1>6 DEF Printed
  <2> QED
    BY <1>1, <2>1, <2>2, TextOf, PaddedText
<1>7. CASE d.conversion = "s"
  <2> DEFINE given  == Argument(d).text
             length == IF Prescision(d) \in 0 .. Len(given) THEN Prescision(d) ELSE Len(given)
  <2>1. given \in Seq(STRING)
    BY <1>3, <1>7 DEF Suits
  <2>2. Printed(d) = Padded(SubSeq(given, 1, length), Width(d), Flags(d))
    BY <1>2, <1>7 DEF Printed
  <2> HIDE DEF given
  <2>3. given \in Seq(Glyph)
    BY <2>1, TextOf
  <2>4. length \in 0 .. Len(given)
    BY <2>3
  <2> HIDE DEF length
  <2>5. SubSeq(given, 1, length) \in Seq(Glyph)
    BY <2>3, <2>4
  <2> QED
    BY <1>1, <2>2, <2>5, PaddedText
<1>8. CASE d.conversion \in DOMAIN Base
  <2>1. Argument(d) \in [int : 0 .. WORD - 1]
    BY <1>2, <1>3, <1>8 DEF Suits
  <2>2. Number(d) \in 0 .. WORD - 1
    BY <2>1, NumberIsWord
  <2>3. Base[d.conversion] \in {8, 10, 16}
    BY <1>8 DEF Base
  <2>4. Printed(d) = bound_string_format_integer(Number(d), Base[d.conversion], Width(d),
                                                 Prescision(d), Flags(d))
    BY <1>2, <1>8 DEF Printed
  <2> QED
    BY <1>1, <2>2, <2>3, <2>4, IntegerText
<1>9. CASE d.conversion = "p"
  <2> DEFINE all   == Width(d) = None
             width == IF all THEN 2 * sizeof_pointer ELSE Width(d)
             given == Flags(d) \cup IF all THEN {"ZERO"} ELSE {}
  <2>1. Argument(d) \in [int : 0 .. WORD - 1]
    BY <1>3, <1>9 DEF Suits
  <2>2. width \in Int
    BY <1>1, PrintfAssumption
  <2>3. Printed(d) = bound_string_format_integer(Argument(d).int, 16, width, Prescision(d), given)
    BY <1>2, <1>9 DEF Printed
  <2> HIDE DEF width, given
  <2> QED
    BY <1>1, <2>1, <2>2, <2>3, IntegerText
<1> QED
  BY <1>2, <1>4, <1>5, <1>6, <1>7, <1>8, <1>9 DEF Conversion

-----------------------------------------------------------------------------
(***************************************************************************)
(* The buffer while a call runs: what was produced so far, as far as it    *)
(* fits, and nothing else.                                                 *)
(***************************************************************************)

Stored(text, limit) ==
  [a \in Location |-> IF a - s \in 0 .. Len(text) - 1 /\ a < limit THEN text[a - s + 1] ELSE "?"]

\* Item j of the format finds its arguments from the at[j]-th on.
Places(at, c) ==
  /\ at \in [1 .. Len(c.format) + 1 -> 1 .. Len(c.args) + 1]
  /\ \A j \in DOMAIN c.format :
        IF IsPlain(c.format[j])
        THEN at[j + 1] = at[j]
        ELSE /\ at[j + 1] = at[j] + Taken(c.format[j])
             /\ Suits(c.format[j], SubSeq(c.args, at[j], Len(c.args)))

\* What is left of the arguments is what the items that are left find.
ArgumentsLeft ==
  /\ call \in Calls
  /\ k \in 1 .. Len(call.format) + 1
  /\ \E at : Places(at, call) /\ args = SubSeq(call.args, at[k], Len(call.args))

PrintfInv ==
  /\ ArgumentsLeft
  /\ output \in Seq(Glyph)
  /\ done \in BOOLEAN
  /\ ~done => memory = Stored(output, end)
  /\ TextIsCut

LEMMA CallIsSound ==
  ASSUME NEW c \in Calls
  PROVE  /\ c.n \in Nat
         /\ c.format \in Seq([plain : STRING] \cup Directive)
         /\ c.args \in Seq([int : 0 .. WORD - 1] \cup [text : Seq(STRING)])
         /\ \E at : at[1] = 1 /\ Places(at, c)
<1>1. /\ c.n \in 0 .. ADDRESS_SPACE - 1 /\ ADDRESS_SPACE \in Nat
      /\ c.format \in Seq([plain : STRING] \cup Directive)
      /\ c.args \in Seq([int : 0 .. WORD - 1] \cup [text : Seq(STRING)])
      /\ Matched(c)
  BY PrintfAssumption
<1>2. \E at : at[1] = 1 /\ Places(at, c)
  BY <1>1 DEF Matched, Places
<1> QED
  BY <1>1, <1>2

\* A plain character is a text, and no directive is plain.
LEMMA Items ==
  /\ \A item \in [plain : STRING] \cup Directive :
        IsPlain(item) => item.plain \in STRING
  /\ \A item \in [plain : STRING] \cup Directive : ~IsPlain(item) => item \in Directive
BY DEF IsPlain, Directive

LEMMA Behind ==
  ASSUME NEW S, NEW list \in Seq(S), NEW from \in 1 .. Len(list) + 1,
         NEW j \in 1 .. Len(list) - from + 1
  PROVE  SubSeq(list, from, Len(list))[j] = list[from + j - 1]
OBVIOUS

LEMMA Rest ==
  ASSUME NEW S, NEW list \in Seq(S), NEW from \in 1 .. Len(list) + 1, NEW taken \in Nat,
         from + taken <= Len(list) + 1
  PROVE  SubSeq(SubSeq(list, from, Len(list)), taken + 1, Len(SubSeq(list, from, Len(list))))
           = SubSeq(list, from + taken, Len(list))
<1> DEFINE tail == SubSeq(list, from, Len(list))
<1>1. tail \in Seq(S) /\ Len(tail) = Len(list) - from + 1
  OBVIOUS
<1>2. \A j \in 1 .. Len(tail) : tail[j] = list[from + j - 1]
  OBVIOUS
<1> HIDE DEF tail
<1> DEFINE left  == SubSeq(tail, taken + 1, Len(tail))
           right == SubSeq(list, from + taken, Len(list))
<1>3. left \in Seq(S) /\ Len(left) = Len(list) - from - taken + 1
  BY <1>1
<1>4. right \in Seq(S) /\ Len(right) = Len(list) - from - taken + 1
  OBVIOUS
<1>5. ASSUME NEW j \in 1 .. Len(list) - from - taken + 1
      PROVE  left[j] = right[j]
  <2>0. /\ taken + 1 \in 1 .. Len(tail) + 1
        /\ j \in 1 .. Len(tail) - (taken + 1) + 1
        /\ (taken + 1) + j - 1 = taken + j
    BY <1>1
  <2>1. left[j] = tail[taken + j]
    BY <1>1, <2>0, Behind
  <2>2. taken + j \in 1 .. Len(tail)
    BY <1>1
  <2>3. tail[taken + j] = list[from + taken + j - 1]
    BY <1>2, <2>2
  <2>4. right[j] = list[from + taken + j - 1]
    OBVIOUS
  <2> QED
    BY <2>1, <2>3, <2>4
<1> HIDE DEF left, right
<1>6. left = right
  <2>0. Len(list) - from - taken + 1 \in Nat
    OBVIOUS
  <2>1. PICK n \in Nat : n = Len(list) - from - taken + 1
    BY <2>0
  <2>2. \A j \in 1 .. n : left[j] = right[j]
    BY <1>5, <2>1
  <2>3. left \in Seq(S) /\ right \in Seq(S) /\ Len(left) = n /\ Len(right) = n
    BY <1>3, <1>4, <2>1
  <2>4. left = [j \in 1 .. n |-> left[j]] /\ right = [j \in 1 .. n |-> right[j]]
    BY <2>3
  <2> QED
    BY <2>2, <2>4
<1> QED
  BY <1>6 DEF left, right, tail

\* Storing text behind what is stored.
LEMMA StoredMore ==
  ASSUME NEW before \in Seq(Glyph), NEW text \in Seq(Glyph), NEW limit \in Int
  PROVE  [a \in Location |->
            IF a - (s + Len(before)) \in 0 .. Len(text) - 1 /\ a < limit
            THEN text[a - (s + Len(before)) + 1] ELSE Stored(before, limit)[a]]
           = Stored(before \o text, limit)
<1>1. s \in Int /\ SIZE \in Int /\ Location \subseteq Int
  BY PrintfAssumption DEF Location
<1>2. ASSUME NEW a \in Location
      PROVE  (IF a - (s + Len(before)) \in 0 .. Len(text) - 1 /\ a < limit
              THEN text[a - (s + Len(before)) + 1] ELSE Stored(before, limit)[a])
               = Stored(before \o text, limit)[a]
  <2> DEFINE p == a - s
  <2>1. p \in Int /\ a - (s + Len(before)) = p - Len(before) /\ Len(before) \in Nat
    BY <1>1
  <2>2. Len(before \o text) = Len(before) + Len(text)
    OBVIOUS
  <2>3. /\ Stored(before, limit)[a]
              = IF p \in 0 .. Len(before) - 1 /\ a < limit THEN before[p + 1] ELSE "?"
        /\ Stored(before \o text, limit)[a]
              = IF p \in 0 .. Len(before \o text) - 1 /\ a < limit
                THEN (before \o text)[p + 1] ELSE "?"
    BY DEF Stored
  <2> HIDE DEF p
  <2>4. p \in 0 .. Len(before) - 1 => (before \o text)[p + 1] = before[p + 1]
    BY <2>1
  <2>5. p - Len(before) \in 0 .. Len(text) - 1 =>
          (before \o text)[p + 1] = text[p - Len(before) + 1]
    BY <2>1
  <2> QED
    BY <2>1, <2>2, <2>3, <2>4, <2>5
<1>3. Stored(before \o text, limit) = [a \in Location |-> Stored(before \o text, limit)[a]]
  BY DEF Stored
<1> HIDE DEF Location
<1> QED
  BY <1>2, <1>3

\* The NUL behind what is stored, or over the last place.
Nul(text, n) == IF s + Len(text) < s + n THEN s + Len(text) ELSE s + n - 1

WithNul(mem, place, n) == IF n > 0 THEN [mem EXCEPT ![place] = "NUL"] ELSE mem

\* TextIsCut of a memory.
IsCut(mem, text, n) ==
  LET shown == IF Len(text) < n THEN Len(text) ELSE n - 1
  IN  \A a \in Location :
        mem[a] = CASE a - s \in 0 .. shown - 1 -> text[a - s + 1]
                   [] n > 0 /\ a = s + shown   -> "NUL"
                   [] OTHER                    -> "?"

LEMMA StoredCut ==
  ASSUME NEW text \in Seq(Glyph), NEW n \in Nat
  PROVE  IsCut(WithNul(Stored(text, s + n), Nul(text, n), n), text, n)
<1> DEFINE mem == WithNul(Stored(text, s + n), Nul(text, n), n)
<1> SUFFICES ASSUME NEW a \in Location
             PROVE  LET shown == IF Len(text) < n THEN Len(text) ELSE n - 1
                    IN  mem[a] = CASE a - s \in 0 .. shown - 1 -> text[a - s + 1]
                                   [] n > 0 /\ a = s + shown   -> "NUL"
                                   [] OTHER                    -> "?"
  BY DEF IsCut
<1>1. s \in Int /\ SIZE \in Int /\ a \in Int /\ Len(text) \in Nat
  BY PrintfAssumption DEF Location
<1> DEFINE shown == IF Len(text) < n THEN Len(text) ELSE n - 1
           nul   == IF s + Len(text) < s + n THEN s + Len(text) ELSE s + n - 1
<1>2. nul = s + shown /\ shown \in Int
  BY <1>1
<1>3. Stored(text, s + n)[a]
        = IF a - s \in 0 .. Len(text) - 1 /\ a < s + n THEN text[a - s + 1] ELSE "?"
  BY DEF Stored
<1>4. DOMAIN Stored(text, s + n) = Location
  BY DEF Stored
<1>5. mem[a] = IF n > 0 /\ a = nul THEN "NUL" ELSE Stored(text, s + n)[a]
  BY <1>4 DEF Stored, WithNul, Nul
<1> HIDE DEF mem
<1>6. CASE n > 0 /\ a = s + shown
  <2>1. ~(a - s \in 0 .. shown - 1)
    BY <1>1, <1>2, <1>6
  <2> QED
    BY <1>2, <1>5, <1>6, <2>1
<1>7. CASE ~(n > 0 /\ a = s + shown)
  <2>1. mem[a] = IF a - s \in 0 .. Len(text) - 1 /\ a < s + n THEN text[a - s + 1] ELSE "?"
    BY <1>2, <1>3, <1>5, <1>7
  <2>2. a - s \in 0 .. Len(text) - 1 /\ a < s + n <=> a - s \in 0 .. shown - 1
    BY <1>1, <1>7
  <2> QED
    BY <1>7, <2>1, <2>2
<1> QED
  BY <1>6, <1>7

-----------------------------------------------------------------------------
(***************************************************************************)
(* The rounds keep PrintfInv.                                              *)
(***************************************************************************)

\* Where no buffer reaches the end of the address space.
BuffersEnd == \A c \in Calls : s + c.n < ADDRESS_SPACE

LEMMA EndIs ==
  ASSUME BuffersEnd, call \in Calls
  PROVE  end = s + call.n
<1>1. PICK c \in Calls : c = call
  OBVIOUS
<1>2. c.n \in Nat /\ s \in Nat /\ ADDRESS_SPACE \in Nat /\ s + c.n < ADDRESS_SPACE
  BY CallIsSound, PrintfAssumption DEF BuffersEnd
<1>3. (s + c.n) % ADDRESS_SPACE = s + c.n
  BY <1>2
<1> QED
  BY <1>1, <1>3 DEF end

LEMMA EmitStores ==
  ASSUME BuffersEnd, PrintfInv, ~done, call' = call, NEW text \in Seq(Glyph), Emit(text)
  PROVE  output' \in Seq(Glyph) /\ memory' = Stored(output', end')
<1>1. PICK before \in Seq(Glyph) : before = output
  BY DEF PrintfInv, ArgumentsLeft
<1>2. PICK limit : limit = end
  OBVIOUS
<1>3. PICK c \in Calls : c = call
  BY DEF PrintfInv, ArgumentsLeft
<1>4. limit \in Int
  <2>1. c.n \in Nat /\ s \in Nat
    BY CallIsSound, PrintfAssumption
  <2>2. end = s + c.n
    BY <1>3, EndIs
  <2> QED
    BY <1>2, <2>1, <2>2
<1>5. end' = limit
  BY <1>2 DEF end
<1>6. output' = before \o text
  BY <1>1 DEF Emit
<1>7. memory = Stored(before, limit)
  BY <1>1, <1>2 DEF PrintfInv, ArgumentsLeft
<1>8. memory' = [a \in Location |->
                   IF a - (s + Len(before)) \in 0 .. Len(text) - 1 /\ a < limit
                   THEN text[a - (s + Len(before)) + 1] ELSE Stored(before, limit)[a]]
  BY <1>1, <1>2, <1>7 DEF Emit, CanStore
<1>9. memory' = Stored(before \o text, limit)
  BY <1>4, <1>8, StoredMore
<1> QED
  BY <1>5, <1>6, <1>9

\* The next item is a character or a directive that finds its arguments.
LEMMA ArgumentsStart ==
  ASSUME PrintfInit
  PROVE  ArgumentsLeft
<1>1. PICK c \in Calls : c = call
  BY DEF PrintfInit
<1>2. c.args \in Seq([int : 0 .. WORD - 1] \cup [text : Seq(STRING)])
  BY CallIsSound
<1>3. PICK at : at[1] = 1 /\ Places(at, c)
  BY CallIsSound
<1>4. c.args = SubSeq(c.args, 1, Len(c.args))
  BY <1>2
<1>5. 1 \in 1 .. Len(c.format) + 1
  BY CallIsSound
<1>6. args = SubSeq(call.args, at[k], Len(call.args))
  BY <1>1, <1>3, <1>4 DEF PrintfInit
<1>7. k \in 1 .. Len(call.format) + 1
  BY <1>1, <1>5 DEF PrintfInit
<1> QED
  BY <1>1, <1>3, <1>6, <1>7 DEF ArgumentsLeft

LEMMA PlainItem ==
  ASSUME ArgumentsLeft, plain
  PROVE  /\ <<Item.plain>> \in Seq(Glyph)
         /\ ArgumentsLeft'
<1>1. PICK c \in Calls, i \in Int : c = call /\ i = k
  BY DEF ArgumentsLeft
<1>2. /\ call' = call /\ k' = i + 1 /\ args' = args
      /\ i \in 1 .. Len(c.format) /\ IsPlain(c.format[i]) /\ Item = c.format[i]
  BY <1>1 DEF plain, NextItem, Item, ArgumentsLeft
<1>3. c.format[i].plain \in STRING
  <2>1. c.format[i] \in [plain : STRING] \cup Directive
    BY <1>2, CallIsSound
  <2> QED
    BY <1>2, <2>1, Items
<1>4. <<c.format[i].plain>> \in Seq(Glyph)
  <2>1. c.format[i].plain \in Glyph
    BY <1>3, StringsAreGlyphs
  <2> QED
    BY <2>1
<1>5. PICK at : Places(at, c) /\ args = SubSeq(c.args, at[i], Len(c.args))
  BY <1>1 DEF ArgumentsLeft
<1>6. at[i + 1] = at[i]
  <2>1. i \in DOMAIN c.format
    BY <1>2, CallIsSound
  <2>2. IsPlain(c.format[i]) => at[i + 1] = at[i]
    BY <1>5, <2>1 DEF Places
  <2> QED
    BY <1>2, <2>2
<1>7. i + 1 \in 1 .. Len(c.format) + 1
  BY <1>2, CallIsSound
<1>8. ArgumentsLeft'
  BY <1>1, <1>2, <1>5, <1>6, <1>7 DEF ArgumentsLeft
<1> QED
  BY <1>2, <1>4, <1>8

LEMMA DirectiveItem ==
  ASSUME ArgumentsLeft, directive
  PROVE  /\ Item \in Directive /\ Suits(Item, args)
         /\ ArgumentsLeft'
<1>1. PICK c \in Calls, i \in Int : c = call /\ i = k
  BY DEF ArgumentsLeft
<1>2. PICK d : d = Item
  OBVIOUS
<1>3. /\ call' = call /\ k' = i + 1
      /\ i \in 1 .. Len(c.format) /\ ~IsPlain(c.format[i]) /\ d = c.format[i]
      /\ args' = SubSeq(args, Taken(d) + 1, Len(args))
  BY <1>1, <1>2 DEF directive, NextItem, Item, ArgumentsLeft
<1>4. d \in Directive
  <2>1. c.format[i] \in [plain : STRING] \cup Directive
    BY <1>3, CallIsSound
  <2> QED
    BY <1>3, <2>1, Items
<1>5. PICK at : Places(at, c) /\ args = SubSeq(c.args, at[i], Len(c.args))
  BY <1>1 DEF ArgumentsLeft
<1>6. Suits(d, args) /\ at[i + 1] = at[i] + Taken(d)
  <2>1. i \in DOMAIN c.format
    BY <1>3, CallIsSound
  <2>2. /\ at[i + 1] = at[i] + Taken(c.format[i])
        /\ Suits(c.format[i], SubSeq(c.args, at[i], Len(c.args)))
    BY <1>3, <1>5, <2>1 DEF Places
  <2> QED
    BY <1>3, <1>5, <2>2
<1>7. i + 1 \in 1 .. Len(c.format) + 1
  BY <1>3, CallIsSound
<1>8. args' = SubSeq(c.args, at[i + 1], Len(c.args))
  <2>1. /\ at[i] \in 1 .. Len(c.args) + 1
        /\ at[i + 1] \in 1 .. Len(c.args) + 1
        /\ Taken(d) \in Nat
    <3>1. i \in 1 .. Len(c.format) + 1
      BY <1>3, CallIsSound
    <3>2. Taken(d) \in Nat
      BY DEF Taken, Stars
    <3> QED
      BY <1>5, <1>7, <3>1, <3>2 DEF Places
  <2>2. at[i] + Taken(d) <= Len(c.args) + 1
    BY <1>6, <2>1
  <2>3. SubSeq(args, Taken(d) + 1, Len(args)) = SubSeq(c.args, at[i] + Taken(d), Len(c.args))
    BY <1>5, <2>1, <2>2, CallIsSound, Rest
  <2> QED
    BY <1>3, <1>6, <2>3
<1>9. ArgumentsLeft'
  BY <1>1, <1>3, <1>5, <1>7, <1>8 DEF ArgumentsLeft
<1> QED
  BY <1>2, <1>4, <1>6, <1>9

LEMMA PrintfStarts ==
  ASSUME BuffersEnd, PrintfInit
  PROVE  PrintfInv
<1>1. memory = Stored(output, end)
  <2>1. Len(<<>>) - 1 = -1 /\ s \in Nat /\ SIZE \in Nat
    BY PrintfAssumption
  <2>2. \A a \in Location : ~(a - s \in 0 .. Len(<<>>) - 1)
    BY <2>1 DEF Location
  <2>3. Stored(<<>>, end) = [a \in Location |-> "?"]
    BY <2>2 DEF Stored
  <2> QED
    BY <2>3 DEF PrintfInit
<1>2. TextIsCut
  BY DEF PrintfInit, TextIsCut
<1>3. output \in Seq(Glyph) /\ done \in BOOLEAN
  <2>1. <<>> \in Seq(Glyph)
    OBVIOUS
  <2>2. output = <<>> /\ done = FALSE
    BY DEF PrintfInit
  <2> QED
    BY <2>1, <2>2
<1> QED
  BY <1>1, <1>2, <1>3, ArgumentsStart DEF PrintfInv

LEMMA PlainKeeps ==
  ASSUME BuffersEnd, PrintfInv, plain
  PROVE  PrintfInv'
<1>1. ~done /\ done' = done /\ call' = call /\ Emit(<<Item.plain>>)
  BY DEF plain, NextItem
<1>2. <<Item.plain>> \in Seq(Glyph) /\ ArgumentsLeft'
  BY PlainItem DEF PrintfInv
<1>3. output' \in Seq(Glyph) /\ memory' = Stored(output', end')
  <2>1. PICK text \in Seq(Glyph) : text = <<Item.plain>>
    BY <1>2
  <2> QED
    BY <1>1, <2>1, EmitStores
<1>4. TextIsCut'
  BY <1>1 DEF TextIsCut
<1> QED
  BY <1>1, <1>2, <1>3, <1>4 DEF PrintfInv

LEMMA DirectiveKeeps ==
  ASSUME BuffersEnd, PrintfInv, directive
  PROVE  PrintfInv'
<1>1. ~done /\ done' = done /\ call' = call /\ Emit(Printed(Item))
  BY DEF directive, NextItem
<1>2. Item \in Directive /\ Suits(Item, args) /\ ArgumentsLeft'
  BY DirectiveItem DEF PrintfInv
<1>3. output' \in Seq(Glyph) /\ memory' = Stored(output', end')
  <2>1. PICK d \in Directive : d = Item
    BY <1>2
  <2>2. PICK text \in Seq(Glyph) : text = Printed(d)
    BY <1>2, <2>1, PrintedText
  <2> QED
    BY <1>1, <2>1, <2>2, EmitStores
<1>4. TextIsCut'
  BY <1>1 DEF TextIsCut
<1> QED
  BY <1>1, <1>2, <1>3, <1>4 DEF PrintfInv

LEMMA FinishKeeps ==
  ASSUME BuffersEnd, PrintfInv, finish
  PROVE  PrintfInv'
<1>0. PICK c \in Calls, text \in Seq(Glyph) : c = call /\ text = output
  BY DEF PrintfInv, ArgumentsLeft
<1>1. PICK n \in Nat : c = call /\ text = output /\ n = call.n
  BY <1>0, CallIsSound
<1>2. /\ ~done /\ done' = TRUE /\ call' = call /\ k' = k /\ args' = args /\ output' = output
  BY DEF finish
<1>3. memory = Stored(text, s + n)
  <2>1. end = s + n
    BY <1>1, EndIs
  <2> QED
    BY <1>1, <1>2, <2>1 DEF PrintfInv, ArgumentsLeft
<1>4. memory' = WithNul(Stored(text, s + n), Nul(text, n), n)
  <2>1. PICK limit : limit = end
    OBVIOUS
  <2>2. limit = s + n
    BY <1>1, <2>1, EndIs
  <2>3. PICK place : place = IF s + Len(text) < limit THEN s + Len(text) ELSE limit - 1
    OBVIOUS
  <2>4. place = Nul(text, n)
    <3>1. s \in Nat /\ limit \in Int
      BY <2>2, PrintfAssumption
    <3> QED
      BY <2>2, <2>3, <3>1 DEF Nul
  <2>5. memory' = IF n > 0 THEN [memory EXCEPT ![place] = "NUL"] ELSE memory
    BY <1>1, <2>1, <2>3 DEF finish
  <2>6. memory' = WithNul(memory, place, n)
    BY <2>5 DEF WithNul
  <2> QED
    BY <1>3, <2>4, <2>6
<1>5. TextIsCut'
  <2>1. IsCut(memory', text, n)
    BY <1>4, StoredCut
  <2>2. call'.n = n /\ output' = text
    BY <1>1, <1>2
  <2> QED
    BY <2>1, <2>2 DEF TextIsCut, IsCut
<1> QED
  BY <1>1, <1>2, <1>5 DEF PrintfInv, ArgumentsLeft

THEOREM PrintfInvariant ==
  ASSUME BuffersEnd
  PROVE  PrintfSpec => []PrintfInv
<1>1. PrintfInit => PrintfInv
  BY PrintfStarts
<1>2. PrintfInv /\ [PrintfNext]_printf_vars => PrintfInv'
  <2> SUFFICES ASSUME PrintfInv, [PrintfNext]_printf_vars PROVE PrintfInv'
    OBVIOUS
  <2>1. CASE plain
    BY <2>1, PlainKeeps
  <2>2. CASE directive
    BY <2>2, DirectiveKeeps
  <2>3. CASE finish
    BY <2>3, FinishKeeps
  <2>4. CASE UNCHANGED printf_vars
    BY <2>4 DEF PrintfInv, ArgumentsLeft, TextIsCut, printf_vars, end
  <2> QED
    BY <2>1, <2>2, <2>3, <2>4 DEF PrintfNext, printed
<1> QED
  BY <1>1, <1>2, PTL DEF PrintfSpec

THEOREM TextIsAlwaysCut ==
  ASSUME BuffersEnd
  PROVE  PrintfSpec => []TextIsCut
<1>1. PrintfInv => TextIsCut
  BY DEF PrintfInv
<1> QED
  BY <1>1, PrintfInvariant, PTL

-----------------------------------------------------------------------------
(***************************************************************************)
(* Digits, and the value of a numeral.                                     *)
(***************************************************************************)

\* Element i of two sequences in a row.
LEMMA InARow ==
  ASSUME NEW a \in Seq(Glyph), NEW b \in Seq(Glyph)
  PROVE  /\ a \o b \in Seq(Glyph) /\ Len(a \o b) = Len(a) + Len(b)
         /\ \A i \in 1 .. Len(a) : (a \o b)[i] = a[i]
         /\ \A i \in 1 .. Len(b) : (a \o b)[Len(a) + i] = b[i]
OBVIOUS

\* Sixteen characters, no two the same and none a blank.
LEMMA DigitsAre ==
  ASSUME NEW flags
  PROVE  /\ digits(flags)[1] = "0"
         /\ \A i, j \in 1 .. 16 : digits(flags)[i] = digits(flags)[j] => i = j
         /\ \A i \in 1 .. 16 : digits(flags)[i] # "SP"
<1> DEFINE low == <<"0", "1", "2", "3", "4", "5", "6", "7", "8", "9">>
           upper == <<"A", "B", "C", "D", "E", "F">>
           lower == <<"a", "b", "c", "d", "e", "f">>
<1>1. CASE "UPPER" \in flags
  <2>1. digits(flags) = low \o upper
    BY <1>1 DEF digits
  <2>2. low \in Seq(Glyph) /\ upper \in Seq(Glyph) /\ Len(low) = 10 /\ Len(upper) = 6
    BY Glyphs
  <2>3. PICK list : list = digits(flags)
    OBVIOUS
  <2>4. /\ \A i \in 1 .. 10 : list[i] = low[i]
        /\ \A i \in 1 .. 6 : list[10 + i] = upper[i]
    <3> HIDE DEF low, upper
    <3>1. /\ \A i \in 1 .. Len(low) : (low \o upper)[i] = low[i]
          /\ \A i \in 1 .. Len(upper) : (low \o upper)[Len(low) + i] = upper[i]
      BY <2>2, InARow
    <3> QED
      BY <2>1, <2>2, <2>3, <3>1
  <2>5. /\ list[1] = "0"
        /\ list[2] = "1"
        /\ list[3] = "2"
        /\ list[4] = "3"
        /\ list[5] = "4"
        /\ list[6] = "5"
        /\ list[7] = "6"
        /\ list[8] = "7"
        /\ list[9] = "8"
        /\ list[10] = "9"
        /\ list[11] = "A"
        /\ list[12] = "B"
        /\ list[13] = "C"
        /\ list[14] = "D"
        /\ list[15] = "E"
        /\ list[16] = "F"
    BY <2>4
  <2> QED
    BY <2>3, <2>5
<1>2. CASE "UPPER" \notin flags
  <2>1. digits(flags) = low \o lower
    BY <1>2 DEF digits
  <2>2. low \in Seq(Glyph) /\ lower \in Seq(Glyph) /\ Len(low) = 10 /\ Len(lower) = 6
    BY Glyphs
  <2>3. PICK list : list = digits(flags)
    OBVIOUS
  <2>4. /\ \A i \in 1 .. 10 : list[i] = low[i]
        /\ \A i \in 1 .. 6 : list[10 + i] = lower[i]
    <3> HIDE DEF low, lower
    <3>1. /\ \A i \in 1 .. Len(low) : (low \o lower)[i] = low[i]
          /\ \A i \in 1 .. Len(lower) : (low \o lower)[Len(low) + i] = lower[i]
      BY <2>2, InARow
    <3> QED
      BY <2>1, <2>2, <2>3, <3>1
  <2>5. /\ list[1] = "0"
        /\ list[2] = "1"
        /\ list[3] = "2"
        /\ list[4] = "3"
        /\ list[5] = "4"
        /\ list[6] = "5"
        /\ list[7] = "6"
        /\ list[8] = "7"
        /\ list[9] = "8"
        /\ list[10] = "9"
        /\ list[11] = "a"
        /\ list[12] = "b"
        /\ list[13] = "c"
        /\ list[14] = "d"
        /\ list[15] = "e"
        /\ list[16] = "f"
    BY <2>4
  <2> QED
    BY <2>3, <2>5
<1> QED
  BY <1>1, <1>2

LEMMA DigitIs ==
  ASSUME NEW flags, NEW i \in 1 .. 16
  PROVE  Digit(digits(flags)[i], flags) = i - 1
<1>1. \A j \in 1 .. 16 : digits(flags)[j] = digits(flags)[i] => j = i
  BY DigitsAre
<1>2. (CHOOSE j \in 1 .. 16 : digits(flags)[j] = digits(flags)[i]) = i
  BY <1>1
<1> QED
  BY <1>2 DEF Digit

LEMMA SameDigits ==
  ASSUME NEW flags, NEW others, "UPPER" \in flags <=> "UPPER" \in others
  PROVE  digits(flags) = digits(others)
BY DEF digits

\* zeros zeros, and behind them the numeral with the divisions over.
Numbered(list, zeros, length, over, base, flags) ==
  /\ list \in Seq(Glyph) /\ Len(list) = zeros + length
  /\ \A j \in 1 .. zeros : list[j] = "0"
  /\ \A j \in 1 .. length : list[zeros + j] = digits(flags)[1 + (over[length - j] % base)]

LEMMA ValueIs ==
  ASSUME NEW number \in 0 .. WORD - 1, NEW base \in {8, 10, 16}, NEW flags,
         NEW over, Divided(over, number, base), NEW length, Divisions(length, over),
         NEW zeros \in Nat, NEW list, Numbered(list, zeros, length, over, base, flags)
  PROVE  Value(list, base, flags) = number
<1> DEFINE size == zeros + length
           known == [j \in 0 .. size |-> IF j <= zeros THEN 0 ELSE over[length - (j - zeros)]]
           Reads(f) == f = [j \in 0 .. size |->
                              IF j = 0 THEN 0 ELSE base * f[j - 1] + Digit(list[j], flags)]
<1>1. /\ length \in Nat /\ length >= 1 /\ number \in Nat /\ base \in Nat /\ Len(list) = size
      /\ over \in [Nat -> 0 .. number] /\ over[0] = number /\ over[length] = 0
      /\ \A j \in Nat : over[j + 1] = over[j] \div base
  <2>1. length \in 1 .. WORD /\ over[length] = 0 /\ WORD \in Nat
    BY PrintfAssumption DEF Divisions
  <2>2. length \in Nat /\ length >= 1 /\ number \in Nat
    BY <2>1
  <2>3. Len(list) = size
    BY DEF Numbered
  <2>4. /\ over \in [Nat -> 0 .. number] /\ over[0] = number
        /\ \A j \in Nat : over[j + 1] = over[j] \div base
    BY DEF Divided
  <2>5. base \in Nat
    OBVIOUS
  <2> QED
    BY <2>1, <2>2, <2>3, <2>4, <2>5
<1>2. \A j \in Nat : over[j] \in Nat
  <2>1. 0 .. number \subseteq Nat
    OBVIOUS
  <2> QED
    BY <1>1, <2>1
<1>3. ASSUME NEW j \in 1 .. size
      PROVE  known[j] = base * known[j - 1] + Digit(list[j], flags)
  <2>0. j \in 0 .. size /\ j - 1 \in 0 .. size /\ j \in Nat
    BY <1>1
  <2>1. CASE j <= zeros
    <3>1. known[j] = 0 /\ known[j - 1] = 0
      BY <2>0, <2>1
    <3>2. list[j] = "0"
      BY <2>0, <2>1 DEF Numbered
    <3>3. Digit("0", flags) = 0
      <4>1. digits(flags)[1] = "0" /\ 1 \in 1 .. 16
        BY DigitsAre
      <4>2. Digit(digits(flags)[1], flags) = 1 - 1
        BY <4>1, DigitIs
      <4> QED
        BY <4>1, <4>2
    <3>4. base * 0 = 0
      OBVIOUS
    <3> HIDE DEF known
    <3> QED
      BY <3>1, <3>2, <3>3, <3>4
  <2>2. CASE j > zeros
    <3>1. PICK i \in Nat : i = j - zeros /\ i \in 1 .. length /\ length - i \in Nat
                           /\ (length - i) + 1 = length - (i - 1) /\ j = zeros + i
      BY <1>1, <2>0, <2>2
    <3>2. PICK v \in Nat : v = over[length - i]
      BY <1>2, <3>1
    <3>3. known[j] = v
      BY <2>0, <2>2, <3>1, <3>2
    <3>4. known[j - 1] = v \div base
      <4>1. v \div base = over[length - (i - 1)]
        BY <1>1, <3>1, <3>2
      <4>2. CASE j - 1 <= zeros
        <5>1. i = 1 /\ length - (i - 1) = length
          BY <1>1, <2>2, <3>1, <4>2
        <5>2. known[j - 1] = 0
          BY <2>0, <4>2
        <5> HIDE DEF known
        <5> QED
          BY <1>1, <4>1, <5>1, <5>2
      <4>3. CASE ~(j - 1 <= zeros)
        <5>1. (j - 1) - zeros = i - 1
          BY <3>1
        <5>2. known[j - 1] = over[length - ((j - 1) - zeros)]
          BY <2>0, <4>3
        <5> HIDE DEF known
        <5> QED
          BY <4>1, <5>1, <5>2
      <4> QED
        BY <4>2, <4>3
    <3>5. Digit(list[j], flags) = v % base
      <4>1. list[j] = digits(flags)[1 + (v % base)]
        BY <3>1, <3>2 DEF Numbered
      <4>2. v % base \in 0 .. base - 1
        BY Quotient
      <4>3. 1 + (v % base) \in 1 .. 16 /\ (1 + (v % base)) - 1 = v % base
        BY <4>2
      <4> QED
        BY <4>1, <4>3, DigitIs
    <3>6. v = base * (v \div base) + (v % base)
      BY Quotient
    <3> HIDE DEF known
    <3> QED
      BY <3>3, <3>4, <3>5, <3>6
  <2> QED
    BY <2>0, <2>1, <2>2
<1>4. known[0] = 0 /\ known[size] = number
  <2>1. 0 \in 0 .. size /\ size \in 0 .. size /\ ~(size <= zeros) /\ length - (size - zeros) = 0
    BY <1>1
  <2> QED
    BY <1>1, <2>1
<1>5. known = [j \in 0 .. size |-> known[j]]
  OBVIOUS
<1> HIDE DEF known
<1>6. Reads(known)
  <2>1. \A j \in 0 .. size :
          known[j] = IF j = 0 THEN 0 ELSE base * known[j - 1] + Digit(list[j], flags)
    <3> TAKE j \in 0 .. size
    <3>1. CASE j = 0
      BY <1>4, <3>1
    <3>2. CASE j # 0
      <4>1. j \in 1 .. size
        BY <1>1, <3>2
      <4> QED
        BY <1>3, <3>2, <4>1
    <3> QED
      BY <3>1, <3>2
  <2> QED
    BY <1>5, <2>1
<1> DEFINE read == CHOOSE f : Reads(f)
<1>7. read = [j \in 0 .. size |->
                IF j = 0 THEN 0 ELSE base * read[j - 1] + Digit(list[j], flags)]
  <2>1. Reads(read)
    BY <1>6
  <2> QED
    BY <2>1
<1>8. Value(list, base, flags) = read[size]
  BY <1>1 DEF Value
<1> HIDE DEF read, Reads
<1> DEFINE T == {j \in Nat : j <= size => read[j] = known[j]}
<1>9. T = Nat
  <2>1. 0 \in T
    <3>1. 0 \in 0 .. size
      BY <1>1
    <3> QED
      BY <1>4, <1>7, <3>1
  <2>2. ASSUME NEW j \in T PROVE j + 1 \in T
    <3>1. CASE j + 1 <= size
      <4>1. j + 1 \in 1 .. size /\ (j + 1) - 1 = j /\ read[j] = known[j] /\ j + 1 \in 0 .. size
            /\ j + 1 # 0
        BY <1>1, <3>1
      <4>2. known[j + 1] = base * known[j] + Digit(list[j + 1], flags)
        BY <1>3, <4>1
      <4>3. read[j + 1] = base * read[j] + Digit(list[j + 1], flags)
        BY <1>7, <4>1
      <4> QED
        BY <4>1, <4>2, <4>3
    <3>2. CASE ~(j + 1 <= size)
      BY <3>2
    <3> QED
      BY <3>1, <3>2
  <2>3. T \in SUBSET Nat
    OBVIOUS
  <2> HIDE DEF T
  <2> QED
    BY <2>1, <2>2, <2>3, AllNumbers
<1>10. read[size] = known[size]
  <2>1. size \in Nat
    BY <1>1
  <2>2. size \in T /\ size <= size
    BY <1>9, <2>1
  <2> QED
    BY <2>2
<1> QED
  BY <1>4, <1>8, <1>10

-----------------------------------------------------------------------------
(***************************************************************************)
(* How a number is laid out: blanks, sign, prefix, zeros, digits, blanks.  *)
(***************************************************************************)
LEMMA BlanksText ==
  ASSUME NEW count \in Nat
  PROVE  /\ Repeat("SP", count) \in Seq(Glyph) /\ Len(Repeat("SP", count)) = count
         /\ \A j \in 1 .. count : Repeat("SP", count)[j] = "SP"
<1>1. PICK blank \in Glyph : blank = "SP"
  BY Glyphs
<1>2. count \in Int
  OBVIOUS
<1>3. /\ Repeat(blank, count) \in Seq(Glyph)
      /\ Len(Repeat(blank, count)) = IF count > 0 THEN count ELSE 0
      /\ \A j \in 1 .. count : Repeat(blank, count)[j] = blank
  BY <1>2, RepeatText
<1>4. Len(Repeat(blank, count)) = count
  BY <1>3
<1> QED
  BY <1>1, <1>3, <1>4

LEMMA FrontOf ==
  ASSUME NEW a \in Seq(Glyph), NEW b \in Seq(Glyph)
  PROVE  SubSeq(a \o b, 1, Len(a)) = a
<1>1. /\ a \o b \in Seq(Glyph) /\ Len(a \o b) = Len(a) + Len(b)
      /\ \A i \in 1 .. Len(a) : (a \o b)[i] = a[i]
  BY InARow
<1>2. PICK both \in Seq(Glyph) : both = a \o b
  BY <1>1
<1>3. SubSeq(both, 1, Len(a)) = [i \in 1 .. Len(a) |-> both[i]]
  BY <1>1, <1>2
<1>4. a = [i \in 1 .. Len(a) |-> a[i]]
  OBVIOUS
<1> QED
  BY <1>1, <1>2, <1>3, <1>4

LEMMA BackOf ==
  ASSUME NEW a \in Seq(Glyph), NEW b \in Seq(Glyph)
  PROVE  SubSeq(a \o b, Len(a) + 1, Len(a) + Len(b)) = b
<1>1. /\ a \o b \in Seq(Glyph) /\ Len(a \o b) = Len(a) + Len(b)
      /\ \A i \in 1 .. Len(b) : (a \o b)[Len(a) + i] = b[i]
  BY InARow
<1>2. PICK both \in Seq(Glyph) : both = a \o b
  BY <1>1
<1>3. PICK m \in Nat, n \in Nat : m = Len(a) /\ n = Len(b)
  OBVIOUS
<1> DEFINE part == SubSeq(both, m + 1, m + n)
<1>4. part \in Seq(Glyph) /\ Len(part) = n
  BY <1>1, <1>2, <1>3
<1>5. ASSUME NEW i \in 1 .. n PROVE part[i] = b[i]
  <2>1. part[i] = both[m + i]
    BY <1>1, <1>2, <1>3
  <2> QED
    BY <1>1, <1>2, <1>3, <2>1
<1> HIDE DEF part
<1>6. part = b
  BY <1>3, <1>4, <1>5
<1> QED
  BY <1>2, <1>3, <1>6 DEF part

\* The last character of text that is no blank.
LastOf(text) ==
  CHOOSE j \in DOMAIN text : text[j] # "SP" /\ \A m \in j + 1 .. Len(text) : text[m] = "SP"

\* A head, a list without blanks, and blanks.
IsLaidOut(text, head, list, after) ==
  /\ text \in Seq(Glyph) /\ Len(text) = Len(head) + Len(list) + after
  /\ LastOf(text) = Len(head) + Len(list)
  /\ SubSeq(text, 1, Len(head)) = head
  /\ SubSeq(text, Len(head) + 1, Len(head) + Len(list)) = list

NoBlank(list) == Len(list) >= 1 /\ \A j \in 1 .. Len(list) : list[j] # "SP"

LEMMA LaidOut ==
  ASSUME NEW head \in Seq(Glyph), NEW list \in Seq(Glyph), NEW after \in Nat,
         NoBlank(list), NEW text, text = (head \o list) \o Repeat("SP", after)
  PROVE  IsLaidOut(text, head, list, after)
<1>1. PICK both \in Seq(Glyph), blanks \in Seq(Glyph) :
         /\ both = head \o list /\ blanks = Repeat("SP", after)
         /\ Len(both) = Len(head) + Len(list) /\ Len(blanks) = after
         /\ \A j \in 1 .. after : blanks[j] = "SP"
  <2>1. head \o list \in Seq(Glyph) /\ Len(head \o list) = Len(head) + Len(list)
    BY InARow
  <2>2. /\ Repeat("SP", after) \in Seq(Glyph) /\ Len(Repeat("SP", after)) = after
        /\ \A j \in 1 .. after : Repeat("SP", after)[j] = "SP"
    BY BlanksText
  <2> QED
    BY <2>1, <2>2
<1>2. PICK h \in Nat, l \in Nat : h = Len(head) /\ l = Len(list) /\ l >= 1 /\ Len(both) = h + l
                                  /\ \A j \in 1 .. l : list[j] # "SP"
  BY <1>1 DEF NoBlank
<1>3. /\ text \in Seq(Glyph) /\ Len(text) = h + l + after
      /\ \A i \in 1 .. h + l : text[i] = both[i]
      /\ \A i \in 1 .. after : text[h + l + i] = "SP"
  <2>1. /\ both \o blanks \in Seq(Glyph) /\ Len(both \o blanks) = Len(both) + Len(blanks)
        /\ \A i \in 1 .. Len(both) : (both \o blanks)[i] = both[i]
        /\ \A i \in 1 .. Len(blanks) : (both \o blanks)[Len(both) + i] = blanks[i]
    BY InARow
  <2>2. text = both \o blanks
    BY <1>1
  <2>3. /\ text \in Seq(Glyph) /\ Len(text) = Len(both) + Len(blanks)
        /\ \A i \in 1 .. Len(both) : text[i] = both[i]
        /\ \A i \in 1 .. Len(blanks) : text[Len(both) + i] = blanks[i]
    BY <2>1, <2>2, Zenon
  <2>4. Len(both) = h + l /\ Len(blanks) = after
    BY <1>1, <1>2
  <2>5. \A i \in 1 .. after : text[h + l + i] = blanks[i]
    BY <2>3, <2>4
  <2>6. /\ Len(text) = h + l + after
        /\ \A i \in 1 .. h + l : text[i] = both[i]
    BY <2>3, <2>4
  <2> QED
    BY <1>1, <2>3, <2>5, <2>6
<1>4. text[h + l] # "SP"
  <2>1. both[h + l] = list[l]
    BY <1>1, <1>2, InARow
  <2>2. text[h + l] = both[h + l]
    <3>1. h + l \in 1 .. h + l
      BY <1>2
    <3> QED
      BY <1>3, <3>1
  <2> QED
    BY <1>2, <2>1, <2>2
<1>5. LastOf(text) = h + l
  <2>1. h + l \in DOMAIN text
    BY <1>2, <1>3
  <2>2. ASSUME NEW m \in h + l + 1 .. Len(text) PROVE text[m] = "SP"
    <3>1. m - (h + l) \in 1 .. after /\ h + l + (m - (h + l)) = m
      BY <1>3
    <3> QED
      BY <1>3, <3>1
  <2>3. ASSUME NEW j \in DOMAIN text, text[j] # "SP", \A m \in j + 1 .. Len(text) : text[m] = "SP"
        PROVE  j = h + l
    <3>1. j \in 1 .. Len(text) /\ h + l \in 1 .. Len(text)
      BY <1>3, <2>1
    <3>2. ~(j \in h + l + 1 .. Len(text))
      BY <2>2, <2>3
    <3>3. ~(h + l \in j + 1 .. Len(text))
      BY <1>4, <2>3
    <3>4. PICK n \in Nat : n = Len(text)
      BY <1>3
    <3>5. /\ j \in 1 .. n /\ h + l \in 1 .. n
          /\ ~(j \in h + l + 1 .. n) /\ ~(h + l \in j + 1 .. n)
      BY <3>1, <3>2, <3>3, <3>4
    <3>6. \A u, v \in 1 .. n : ~(u \in v + 1 .. n) /\ ~(v \in u + 1 .. n) => u = v
      OBVIOUS
    <3> QED
      BY <3>5, <3>6
  <2> QED
    BY <1>4, <2>1, <2>2, <2>3 DEF LastOf
<1>6. SubSeq(text, 1, h) = head
  <2>1. SubSeq(both, 1, h) = head
    BY <1>1, <1>2, FrontOf
  <2>2. SubSeq(text, 1, h) = [i \in 1 .. h |-> text[i]]
    BY <1>2, <1>3
  <2>3. SubSeq(both, 1, h) = [i \in 1 .. h |-> both[i]]
    BY <1>2
  <2>4. \A i \in 1 .. h : text[i] = both[i]
    BY <1>2, <1>3
  <2> QED
    BY <2>1, <2>2, <2>3, <2>4, SMTT(30)
<1>7. SubSeq(text, h + 1, h + l) = list
  <2>1. SubSeq(both, h + 1, h + l) = list
    BY <1>1, <1>2, BackOf
  <2>2. SubSeq(text, h + 1, h + l) = [i \in 1 .. l |-> text[h + i]]
    BY <1>2, <1>3
  <2>3. SubSeq(both, h + 1, h + l) = [i \in 1 .. l |-> both[h + i]]
    BY <1>2
  <2>4. ASSUME NEW i \in 1 .. l PROVE text[h + i] = both[h + i]
    <3>1. h + i \in 1 .. h + l
      BY <1>2
    <3> QED
      BY <1>3, <3>1
  <2> QED
    BY <2>1, <2>2, <2>3, <2>4
<1> QED
  BY <1>2, <1>3, <1>5, <1>6, <1>7 DEF IsLaidOut

\* A numeral is made of digits, and begins with a needless 0 only behind zeros.
LEMMA NumeralDigits ==
  ASSUME NEW number \in 0 .. WORD - 1, NEW base \in {8, 10, 16}, NEW flags,
         NEW over, Divided(over, number, base), NEW length, Divisions(length, over),
         NEW zeros \in Nat, NEW list, Numbered(list, zeros, length, over, base, flags)
  PROVE  /\ list \in Seq(Glyph) /\ length \in Nat /\ length >= 1 /\ Len(list) = zeros + length
         /\ \A j \in 1 .. Len(list) : Contains(digits(flags), list[j]) /\ list[j] # "SP"
         /\ list[1] = "0" /\ length > 1 => zeros > 0
<1>1. /\ list \in Seq(Glyph) /\ length \in Nat /\ length >= 1 /\ Len(list) = zeros + length
      /\ length > 1 => over[length - 1] # 0
  BY PrintfAssumption DEF Divisions, Numbered
<1>2. \A j \in Nat : over[j] \in Nat /\ over[j + 1] = over[j] \div base
  <2>1. over \in [Nat -> 0 .. number] /\ 0 .. number \subseteq Nat
    BY DEF Divided
  <2> QED
    BY <2>1 DEF Divided
<1>3. ASSUME NEW j \in 1 .. Len(list)
      PROVE  \E i \in 1 .. 16 : list[j] = digits(flags)[i]
  <2>1. CASE j <= zeros
    <3>1. list[j] = "0" /\ digits(flags)[1] = "0" /\ 1 \in 1 .. 16
      BY <2>1, DigitsAre DEF Numbered
    <3> QED
      BY <3>1
  <2>2. CASE j > zeros
    <3>1. PICK i \in 1 .. length : j = zeros + i /\ length - i \in Nat
      <4>1. j - zeros \in 1 .. length /\ j = zeros + (j - zeros) /\ length - (j - zeros) \in Nat
        BY <1>1, <2>2
      <4> QED
        BY <4>1
    <3>2. PICK v \in Nat : v = over[length - i]
      BY <1>2, <3>1
    <3>3. list[j] = digits(flags)[1 + (v % base)]
      BY <3>1, <3>2 DEF Numbered
    <3>4. 1 + (v % base) \in 1 .. 16
      <4>1. v % base \in 0 .. base - 1
        BY Quotient
      <4> QED
        BY <4>1
    <3> QED
      BY <3>3, <3>4
  <2>3. j <= zeros \/ j > zeros
    BY <1>1
  <2> QED
    BY <2>1, <2>2, <2>3
<1>4. ASSUME NEW j \in 1 .. Len(list)
      PROVE  Contains(digits(flags), list[j]) /\ list[j] # "SP"
  <2>1. PICK i \in 1 .. 16 : list[j] = digits(flags)[i]
    BY <1>3
  <2>2. i \in 1 .. Len(digits(flags)) /\ digits(flags)[i] # "SP"
    BY DigitsText, DigitsAre
  <2> QED
    BY <2>1, <2>2 DEF Contains
<1>5. ASSUME list[1] = "0", length > 1, zeros = 0
      PROVE  FALSE
  <2>1. PICK v \in Nat : v = over[length - 1] /\ v # 0
    <3>1. length - 1 \in Nat
      BY <1>1
    <3> QED
      BY <1>1, <1>2, <1>5, <3>1
  <2>2. v \div base = 0
    <3>1. length - 1 \in Nat /\ (length - 1) + 1 = length /\ over[length] = 0
      BY <1>1 DEF Divisions
    <3>2. over[(length - 1) + 1] = over[length - 1] \div base
      BY <1>2, <3>1
    <3> QED
      BY <2>1, <3>1, <3>2
  <2>3. list[1] = digits(flags)[1 + (v % base)]
    <3>1. 1 \in 1 .. length /\ zeros + 1 = 1
      BY <1>1, <1>5
    <3>2. list[zeros + 1] = digits(flags)[1 + (over[length - 1] % base)]
      BY <3>1 DEF Numbered
    <3> QED
      BY <2>1, <3>1, <3>2
  <2>4. v % base \in 0 .. base - 1 /\ v = base * (v \div base) + (v % base)
    BY Quotient
  <2>5. v % base # 0
    <3>1. base * 0 = 0
      OBVIOUS
    <3>2. v = base * 0 + (v % base)
      BY <2>2, <2>4
    <3> QED
      BY <2>1, <3>1, <3>2
  <2>6. /\ 1 + (v % base) \in 1 .. 16 /\ 1 \in 1 .. 16 /\ 1 + (v % base) # 1
        /\ digits(flags)[1 + (v % base)] = digits(flags)[1]
    <3>1. digits(flags)[1 + (v % base)] = digits(flags)[1]
      BY <1>5, <2>3, DigitsAre
    <3> QED
      BY <2>4, <2>5, <3>1
  <2>7. \A i, j \in 1 .. 16 : digits(flags)[i] = digits(flags)[j] => i = j
    BY DigitsAre
  <2> QED
    BY <2>6, <2>7
<1> QED
  BY <1>1, <1>4, <1>5

\* Zeros are there for the precision or for the width, blanks for the width.
Spaced(f, before, zeros, length, after) ==
  /\ Fills(f, before, after)
  /\ zeros + length >= f.prescision
  /\ zeros > 0 => \/ zeros + length = f.prescision
                  \/ "ZERO" \in f.flags /\ f.prescision < 0 /\ Len(f.text) = f.width

LEMMA ReadsLaid ==
  ASSUME NEW number \in 0 .. WORD - 1, NEW base \in {8, 10, 16}, NEW f,
         NEW over, Divided(over, number, base), NEW length, Divisions(length, over),
         NEW zeros \in Nat, NEW list, Numbered(list, zeros, length, over, base, f.flags),
         NEW before \in Nat, NEW after \in Nat, NEW sign \in Seq(Glyph), NEW prefix \in Seq(Glyph),
         f.text = (((Repeat("SP", before) \o sign) \o prefix) \o list) \o Repeat("SP", after),
         f.prescision \in Int, Spaced(f, before, zeros, length, after)
  PROVE  ReadsAs(f, base, number, sign, prefix)
<1> DEFINE head == (Repeat("SP", before) \o sign) \o prefix
<1>1. PICK h \in Nat, m \in Nat, n \in Nat :
         /\ head \in Seq(Glyph) /\ m = Len(sign) /\ n = Len(prefix)
         /\ h = Len(head) /\ h = (before + m) + n
  <2>1. Repeat("SP", before) \in Seq(Glyph) /\ Len(Repeat("SP", before)) = before
    BY BlanksText
  <2>2. /\ Repeat("SP", before) \o sign \in Seq(Glyph)
        /\ Len(Repeat("SP", before) \o sign) = before + Len(sign)
    BY <2>1, InARow
  <2>3. head \in Seq(Glyph) /\ Len(head) = (before + Len(sign)) + Len(prefix)
    BY <2>2, InARow
  <2> QED
    BY <2>3
<1>2. PICK text : text = f.text /\ text = (head \o list) \o Repeat("SP", after)
  OBVIOUS
<1> HIDE DEF head
<1>3. /\ list \in Seq(Glyph) /\ length \in Nat /\ length >= 1 /\ Len(list) = zeros + length
      /\ \A j \in 1 .. Len(list) : Contains(digits(f.flags), list[j]) /\ list[j] # "SP"
      /\ list[1] = "0" /\ length > 1 => zeros > 0
  BY NumeralDigits
<1>4. PICK l \in Nat : l = Len(list) /\ l = zeros + length /\ l >= 1
  BY <1>3
<1>5. /\ Len(text) = h + l + after
      /\ LastOf(text) = h + l
      /\ SubSeq(text, 1, h) = head
      /\ SubSeq(text, h + 1, h + l) = list
  <2>1. /\ list \in Seq(Glyph) /\ head \in Seq(Glyph) /\ NoBlank(list)
        /\ text = (head \o list) \o Repeat("SP", after)
    BY <1>1, <1>2, <1>3, <1>4 DEF NoBlank
  <2>2. IsLaidOut(text, head, list, after)
    BY <2>1, LaidOut
  <2>3. /\ Len(text) = Len(head) + Len(list) + after
        /\ LastOf(text) = Len(head) + Len(list)
        /\ SubSeq(text, 1, Len(head)) = head
        /\ SubSeq(text, Len(head) + 1, Len(head) + Len(list)) = list
    BY <2>2 DEF IsLaidOut
  <2> QED
    BY <1>1, <1>4, <2>3
<1>6. Value(list, base, f.flags) = number
  BY ValueIs
<1>7. /\ l \in 1 .. h + l /\ (h + l) - l + 1 = h + 1 /\ (h + l) - l = h
      /\ ((h + l) - l) - n - m = before /\ Len(text) - (h + l) = after
  <2>1. h = (before + m) + n /\ l >= 1 /\ Len(text) = h + l + after
    BY <1>1, <1>4, <1>5
  <2> QED
    BY <2>1
<1>8. l >= f.prescision
  BY <1>4 DEF Spaced
<1>9. l > 1 /\ l > f.prescision /\ list[1] = "0" =>
        "ZERO" \in f.flags /\ f.prescision < 0 /\ Len(f.text) = f.width
  <2> SUFFICES ASSUME l > 1, l > f.prescision, list[1] = "0"
               PROVE  "ZERO" \in f.flags /\ f.prescision < 0 /\ Len(f.text) = f.width
    OBVIOUS
  <2>1. zeros > 0
    BY <1>3, <1>4
  <2>2. zeros + length # f.prescision
    BY <1>3, <1>4
  <2> QED
    BY <2>1, <2>2 DEF Spaced
<1>10. Fills(f, before, after)
  BY DEF Spaced
<1> DEFINE Reads(last, size) ==
             LET numeral == SubSeq(f.text, last - size + 1, last)
                 front   == last - size - Len(prefix) - Len(sign)
             IN  /\ front >= 0
                 /\ SubSeq(f.text, 1, last - size) = Repeat("SP", front) \o sign \o prefix
                 /\ \A j \in 1 .. size : Contains(digits(f.flags), numeral[j])
                 /\ Value(numeral, base, f.flags) = number
                 /\ size >= f.prescision
                 /\ Fills(f, front, Len(f.text) - last)
                 /\ size > 1 /\ size > f.prescision /\ numeral[1] = "0" =>
                      "ZERO" \in f.flags /\ f.prescision < 0 /\ Len(f.text) = f.width
<1>11. Reads(h + l, l)
  <2>1. /\ SubSeq(f.text, (h + l) - l + 1, h + l) = list
        /\ SubSeq(f.text, 1, (h + l) - l) = (Repeat("SP", before) \o sign) \o prefix
        /\ (h + l) - l - Len(prefix) - Len(sign) = before
        /\ Len(f.text) - (h + l) = after
    BY <1>1, <1>2, <1>5, <1>7 DEF head
  <2>2. before >= 0
    OBVIOUS
  <2>3. \A j \in 1 .. l : Contains(digits(f.flags), list[j])
    BY <1>3, <1>4
  <2> QED
    BY <1>6, <1>8, <1>9, <1>10, <2>1, <2>2, <2>3
<1>12. ReadsAs(f, base, number, sign, prefix) <=> \E size \in 1 .. LastOf(f.text) : Reads(LastOf(f.text), size)
  BY DEF ReadsAs, LastOf
<1> HIDE DEF Reads
<1> QED
  BY <1>2, <1>5, <1>7, <1>11, <1>12

-----------------------------------------------------------------------------
(***************************************************************************)
(* What bound_string_format_integer makes reads as its word.               *)
(***************************************************************************)
Negative(word, flags) == "SIGNED" \in flags /\ AsInt(word) < 0

Magnitude(word, flags) == IF Negative(word, flags) THEN AsWord(-word) ELSE word

SignOf(word, flags) ==
  CASE Negative(word, flags) -> <<"-">>
    [] ~Negative(word, flags) /\ {"SIGNED", "PLUS"} \subseteq flags -> <<"+">>
    [] ~Negative(word, flags) /\ {"SIGNED", "SPACE"} \subseteq flags
         /\ "PLUS" \notin flags -> <<"SP">>
    [] OTHER -> <<>>

PrefixOf(base, flags) ==
  IF "ALT" \notin flags \/ base = 10 THEN <<>>
  ELSE IF base = 16 THEN <<"0", IF "UPPER" \in flags THEN "X" ELSE "x">>
  ELSE <<"0">>

LEMMA Signs ==
  ASSUME NEW word, NEW base, NEW flags
  PROVE  SignOf(word, flags) \in Seq(Glyph) /\ PrefixOf(base, flags) \in Seq(Glyph)
<1>1. SignOf(word, flags) \in {<<"-">>, <<"+">>, <<"SP">>, <<>>}
  BY DEF SignOf
<1>2. PrefixOf(base, flags) \in {<<"0", "X">>, <<"0", "x">>, <<"0">>, <<>>}
  BY DEF PrefixOf
<1>3. /\ {<<"-">>, <<"+">>, <<"SP">>, <<>>} \subseteq Seq(Glyph)
      /\ {<<"0", "X">>, <<"0", "x">>, <<"0">>, <<>>} \subseteq Seq(Glyph)
  BY Glyphs
<1> QED
  BY <1>1, <1>2, <1>3

LEMMA MagnitudeIsWord ==
  ASSUME NEW word \in 0 .. WORD - 1, NEW flags
  PROVE  Magnitude(word, flags) \in 0 .. WORD - 1
<1>1. WORD \in Nat \ {0} /\ -word \in Int
  BY PrintfAssumption
<1>2. AsWord(-word) \in 0 .. WORD - 1
  BY <1>1, Remainder DEF AsWord
<1> QED
  BY <1>2 DEF Magnitude

LEMMA PaddingIs ==
  ASSUME NEW c \in Glyph, NEW left \in Int, NEW when \in BOOLEAN
  PROVE  (IF when THEN Repeat(c, left) ELSE <<>>)
           = Repeat(c, IF when /\ left > 0 THEN left ELSE 0)
<1>1. ASSUME NEW count \in Int, count <= 0 PROVE Repeat(c, count) = <<>>
  <2>1. Repeat(c, count) \in Seq(Glyph) /\ Len(Repeat(c, count)) = 0
    BY <1>1, RepeatText
  <2> QED
    BY <2>1, EmptySeq
<1>2. CASE when /\ left > 0
  BY <1>2
<1>3. CASE when /\ left <= 0
  BY <1>1, <1>3
<1>4. CASE ~when
  BY <1>1, <1>4
<1> QED
  BY <1>2, <1>3, <1>4

\* The parts of the text, each as long as it is.
Parts(word, base, width, prescision, given, flags) ==
  LET number == Numeral(Magnitude(word, given), base, flags)
      most   == IF Len(number) > prescision THEN Len(number) ELSE prescision
      left   == width - Len(SignOf(word, given)) - most - Len(PrefixOf(base, given))
      Room(when) == IF when /\ left > 0 THEN left ELSE 0
  IN  (((((Repeat("SP", Room(flags \cap {"ZERO", "LEFT"} = {}))
            \o SignOf(word, given)) \o PrefixOf(base, given))
          \o Repeat("0", Room("ZERO" \in flags /\ "LEFT" \notin flags)))
         \o Repeat("0", most - Len(number))) \o number)
       \o Repeat("SP", Room("LEFT" \in flags))

LEMMA IntegerParts ==
  ASSUME NEW word \in 0 .. WORD - 1, NEW base \in {8, 10, 16}, NEW width \in Int,
         NEW prescision \in Int, NEW given, NEW flags,
         flags = IF prescision >= 0 THEN given \ {"ZERO"} ELSE given
  PROVE  bound_string_format_integer(word, base, width, prescision, given)
           = Parts(word, base, width, prescision, given, flags)
<1> DEFINE
      negative == "SIGNED" \in flags /\ AsInt(word) < 0
      sign     == CASE negative -> <<"-">>
                    [] ~negative /\ {"SIGNED", "PLUS"} \subseteq flags -> <<"+">>
                    [] ~negative /\ {"SIGNED", "SPACE"} \subseteq flags
                         /\ "PLUS" \notin flags -> <<"SP">>
                    [] OTHER -> <<>>
      prefix   == IF "ALT" \notin flags \/ base = 10 THEN <<>>
                  ELSE IF base = 16 THEN <<"0", IF "UPPER" \in flags THEN "X" ELSE "x">>
                  ELSE <<"0">>
      number   == Numeral(IF negative THEN AsWord(-word) ELSE word, base, flags)
      most     == IF Len(number) > prescision THEN Len(number) ELSE prescision
      left     == WidthLeft(width, sign, most, prefix)
      Padding(c, when) == IF when THEN Repeat(c, left) ELSE <<>>
      Room(when) == IF when /\ left > 0 THEN left ELSE 0
<1>1. bound_string_format_integer(word, base, width, prescision, given)
        = Padding("SP", flags \cap {"ZERO", "LEFT"} = {})
            \o sign \o prefix
            \o Padding("0", "ZERO" \in flags /\ "LEFT" \notin flags)
            \o Repeat("0", most - Len(number)) \o number
            \o Padding("SP", "LEFT" \in flags)
  BY DEF bound_string_format_integer
<1>2. \A flag \in {"SIGNED", "PLUS", "SPACE", "ALT", "UPPER"} : flag \in flags <=> flag \in given
  OBVIOUS
<1>3. negative <=> Negative(word, given)
  BY <1>2 DEF Negative
<1>4. sign = SignOf(word, given)
  BY <1>2, <1>3 DEF SignOf
<1>5. prefix = PrefixOf(base, given)
  BY <1>2 DEF PrefixOf
<1>6. number = Numeral(Magnitude(word, given), base, flags)
  BY <1>3 DEF Magnitude
<1>7. sign \in Seq(Glyph) /\ prefix \in Seq(Glyph)
  <2>1. SignOf(word, given) \in Seq(Glyph) /\ PrefixOf(base, given) \in Seq(Glyph)
    BY Signs
  <2> HIDE DEF sign, prefix
  <2> QED
    BY <1>4, <1>5, <2>1
<1>8. number \in Seq(Glyph)
  <2>1. Magnitude(word, given) \in 0 .. WORD - 1
    BY MagnitudeIsWord
  <2> QED
    BY <1>6, <2>1, NumeralText
<1> HIDE DEF negative, sign, prefix, number
<1>9. left = width - Len(sign) - most - Len(prefix)
  BY DEF WidthLeft
<1>10. most \in Int
  BY <1>8
<1> HIDE DEF left, most
<1>11. left \in Int
  <2>1. PICK a \in Int, b \in Int : a = Len(sign) /\ b = Len(prefix)
    BY <1>7
  <2>2. left = width - a - most - b
    BY <1>9, <2>1
  <2>3. \A u, v, w \in Int : width - u - v - w \in Int
    OBVIOUS
  <2> QED
    BY <1>10, <2>1, <2>2, <2>3
<1>12. "SP" \in Glyph /\ "0" \in Glyph
  BY Glyphs
<1>13. /\ Padding("SP", flags \cap {"ZERO", "LEFT"} = {})
             = Repeat("SP", Room(flags \cap {"ZERO", "LEFT"} = {}))
       /\ Padding("SP", "LEFT" \in flags) = Repeat("SP", Room("LEFT" \in flags))
       /\ Padding("0", "ZERO" \in flags /\ "LEFT" \notin flags)
             = Repeat("0", Room("ZERO" \in flags /\ "LEFT" \notin flags))
  BY <1>11, <1>12, PaddingIs
<1> HIDE DEF Padding
<1>14. Parts(word, base, width, prescision, given, flags)
         = (((((Repeat("SP", Room(flags \cap {"ZERO", "LEFT"} = {})) \o sign) \o prefix)
               \o Repeat("0", Room("ZERO" \in flags /\ "LEFT" \notin flags)))
              \o Repeat("0", most - Len(number))) \o number)
            \o Repeat("SP", Room("LEFT" \in flags))
  BY <1>4, <1>5, <1>6, <1>9, Zenon DEF Parts, most
<1> HIDE DEF Room
<1> QED
  BY <1>1, <1>13, <1>14


LEMMA ZerosText ==
  ASSUME NEW count \in Nat
  PROVE  /\ Repeat("0", count) \in Seq(Glyph) /\ Len(Repeat("0", count)) = count
         /\ \A j \in 1 .. count : Repeat("0", count)[j] = "0"
<1>1. PICK zero \in Glyph : zero = "0"
  BY Glyphs
<1>2. count \in Int
  OBVIOUS
<1>3. /\ Repeat(zero, count) \in Seq(Glyph)
      /\ Len(Repeat(zero, count)) = IF count > 0 THEN count ELSE 0
      /\ \A j \in 1 .. count : Repeat(zero, count)[j] = zero
  BY <1>2, RepeatText
<1>4. Len(Repeat(zero, count)) = count
  BY <1>3
<1> QED
  BY <1>1, <1>3, <1>4

\* Zeros twice, and a numeral.
LEMMA ZerosInFront ==
  ASSUME NEW more \in Nat, NEW extra \in Nat, NEW length \in Nat, NEW over, NEW base, NEW flags,
         NEW number \in Seq(Glyph), Len(number) = length,
         \A j \in 1 .. length : number[j] = digits(flags)[1 + (over[length - j] % base)],
         NEW list, list = (Repeat("0", more) \o Repeat("0", extra)) \o number
  PROVE  Numbered(list, more + extra, length, over, base, flags)
<1>1. PICK a \in Seq(Glyph), b \in Seq(Glyph) :
         /\ a = Repeat("0", more) /\ Len(a) = more /\ \A j \in 1 .. more : a[j] = "0"
         /\ b = Repeat("0", extra) /\ Len(b) = extra /\ \A j \in 1 .. extra : b[j] = "0"
  BY ZerosText
<1>2. PICK zeros \in Seq(Glyph) :
         /\ zeros = a \o b /\ Len(zeros) = more + extra
         /\ \A i \in 1 .. more : zeros[i] = a[i]
         /\ \A i \in 1 .. extra : zeros[more + i] = b[i]
  <2>1. /\ a \o b \in Seq(Glyph) /\ Len(a \o b) = Len(a) + Len(b)
        /\ \A i \in 1 .. Len(a) : (a \o b)[i] = a[i]
        /\ \A i \in 1 .. Len(b) : (a \o b)[Len(a) + i] = b[i]
    BY InARow
  <2>2. /\ a \o b \in Seq(Glyph) /\ Len(a \o b) = more + extra
        /\ \A i \in 1 .. more : (a \o b)[i] = a[i]
        /\ \A i \in 1 .. extra : (a \o b)[more + i] = b[i]
    BY <1>1, <2>1
  <2> QED
    BY <2>2, Zenon
<1>3. ASSUME NEW j \in 1 .. more + extra PROVE zeros[j] = "0"
  <2>1. CASE j <= more
    <3>1. j \in 1 .. more
      BY <2>1
    <3> QED
      BY <1>1, <1>2, <3>1
  <2>2. CASE j > more
    <3>1. PICK i \in 1 .. extra : j = more + i
      <4>1. j - more \in 1 .. extra /\ j = more + (j - more)
        BY <2>2
      <4> QED
        BY <4>1
    <3> QED
      BY <1>1, <1>2, <3>1
  <2> QED
    BY <2>1, <2>2
<1>4. /\ list \in Seq(Glyph) /\ Len(list) = Len(zeros) + Len(number)
      /\ \A i \in 1 .. Len(zeros) : list[i] = zeros[i]
      /\ \A i \in 1 .. Len(number) : list[Len(zeros) + i] = number[i]
  <2>1. /\ zeros \o number \in Seq(Glyph) /\ Len(zeros \o number) = Len(zeros) + Len(number)
        /\ \A i \in 1 .. Len(zeros) : (zeros \o number)[i] = zeros[i]
        /\ \A i \in 1 .. Len(number) : (zeros \o number)[Len(zeros) + i] = number[i]
    BY InARow
  <2>2. list = zeros \o number
    BY <1>1, <1>2
  <2> QED
    BY <2>1, <2>2, Zenon
<1>5. \A j \in 1 .. more + extra : list[j] = "0"
  BY <1>2, <1>3, <1>4
<1>6. \A j \in 1 .. length : list[(more + extra) + j] = number[j]
  BY <1>2, <1>4
<1>7. list \in Seq(Glyph) /\ Len(list) = (more + extra) + length
  BY <1>2, <1>4
<1> QED
  BY <1>5, <1>6, <1>7 DEF Numbered

\* The room that is left goes to one of the paddings.
Share(when, left) == IF when /\ left > 0 THEN left ELSE 0

\* What a text of total characters has too many of, for its width and precision.
Fitting(width, prescision, z, l, total, before, zeros, length, after) ==
  /\ total >= width
  /\ before > 0 => ~l /\ total = width
  /\ after > 0 => l /\ total = width
  /\ zeros + length >= prescision
  /\ zeros > 0 => zeros + length = prescision \/ (z /\ prescision < 0 /\ total = width)

Shared(width, prescision, length, ls, lp, z, l, most, left, before, more, extra, after) ==
  /\ before = Share(~z /\ ~l, left) /\ more = Share(z /\ ~l, left) /\ after = Share(l, left)
  /\ extra = most - length
  /\ Fitting(width, prescision, z, l, before + ls + lp + (more + extra + length) + after,
             before, more + extra, length, after)

Most(length, prescision) == IF length > prescision THEN length ELSE prescision

CanShare(width, prescision, length, ls, lp, z, l) ==
  LET most == Most(length, prescision)
      left == width - ls - most - lp
  IN  \E before, more, extra, after \in Nat :
        Shared(width, prescision, length, ls, lp, z, l, most, left, before, more, extra, after)

LEMMA RoomIsShared ==
  ASSUME NEW width \in Int, NEW prescision \in Int, NEW length \in Nat,
         NEW ls \in Nat, NEW lp \in Nat, NEW z \in BOOLEAN, NEW l \in BOOLEAN,
         z => prescision < 0
  PROVE  CanShare(width, prescision, length, ls, lp, z, l)
<1>0. PICK most : most = Most(length, prescision) /\ most = IF length > prescision THEN length ELSE prescision
  BY DEF Most
<1>9. PICK left : left = width - ls - most - lp
  OBVIOUS
<1>1. most \in Nat /\ most - length \in Nat /\ left \in Int
  BY <1>0, <1>9
<1>2. PICK extra \in Nat : extra = most - length
  BY <1>1
<1>3. PICK room \in Nat : room = IF left > 0 THEN left ELSE 0
  BY <1>1
<1>4. CASE l
  <2>1. Shared(width, prescision, length, ls, lp, z, l, most, left, 0, 0, extra, room)
    BY <1>0, <1>9, <1>1, <1>2, <1>3, <1>4 DEF Shared, Share, Fitting
  <2> QED
    BY <1>0, <1>9, <2>1 DEF CanShare
<1>5. CASE ~l /\ z
  <2>1. Shared(width, prescision, length, ls, lp, z, l, most, left, 0, room, extra, 0)
    BY <1>0, <1>9, <1>1, <1>2, <1>3, <1>5 DEF Shared, Share, Fitting
  <2> QED
    BY <1>0, <1>9, <2>1 DEF CanShare
<1>6. CASE ~l /\ ~z
  <2>1. Shared(width, prescision, length, ls, lp, z, l, most, left, room, 0, extra, 0)
    BY <1>0, <1>9, <1>1, <1>2, <1>3, <1>6 DEF Shared, Share, Fitting
  <2> QED
    BY <1>0, <1>9, <2>1 DEF CanShare
<1> QED
  BY <1>4, <1>5, <1>6

\* number is the numeral that the divisions over make.
NumeralFrom(number, over, length, magnitude, base, flags) ==
  /\ Divided(over, magnitude, base) /\ Divisions(length, over)
  /\ number \in Seq(Glyph) /\ Len(number) = length /\ length \in Nat /\ length >= 1
  /\ \A j \in 1 .. length : number[j] = digits(flags)[1 + (over[length - j] % base)]

LEMMA NumeralParts ==
  ASSUME NEW magnitude \in 0 .. WORD - 1, NEW base \in {8, 10, 16}, NEW flags
  PROVE  \E over, length : NumeralFrom(Numeral(magnitude, base, flags), over, length, magnitude, base, flags)
<1>1. PICK over, length :
         /\ Divided(over, magnitude, base)
         /\ Divisions(length, over)
         /\ Numeral(magnitude, base, flags)
              = [j \in 1 .. length |-> digits(flags)[1 + (over[length - j] % base)]]
  BY NumeralIs
<1>2. length \in Nat /\ length >= 1
  BY <1>1, PrintfAssumption DEF Divisions
<1>3. Numeral(magnitude, base, flags) \in Seq(Glyph)
  BY NumeralText
<1>4. Len(Numeral(magnitude, base, flags)) = length
  BY <1>1, <1>2
<1>5. \A j \in 1 .. length :
         Numeral(magnitude, base, flags)[j] = digits(flags)[1 + (over[length - j] % base)]
  BY <1>1
<1>6. NumeralFrom(Numeral(magnitude, base, flags), over, length, magnitude, base, flags)
  BY <1>1, <1>2, <1>3, <1>4, <1>5 DEF NumeralFrom
<1> QED
  BY <1>6

LaidLike(text, before, sign, prefix, list, after) ==
  /\ text = (((Repeat("SP", before) \o sign) \o prefix) \o list) \o Repeat("SP", after)
  /\ Len(text) = before + Len(sign) + Len(prefix) + Len(list) + after

Regrouped(a, b, c, d) == ((a \o b) \o c) \o d = a \o ((b \o c) \o d)

LEMMA FourInARow ==
  ASSUME NEW a \in Seq(Glyph), NEW b \in Seq(Glyph), NEW c \in Seq(Glyph), NEW d \in Seq(Glyph)
  PROVE  Regrouped(a, b, c, d)
<1>1. (a \o b) \o c = a \o (b \o c)
  BY ConcatAssociative, SMTT(30)
<1>2. b \o c \in Seq(Glyph)
  BY InARow
<1>3. (a \o (b \o c)) \o d = a \o ((b \o c) \o d)
  BY <1>2, ConcatAssociative, SMTT(30)
<1> QED
  BY <1>1, <1>3 DEF Regrouped

LEMMA PartsInARow ==
  ASSUME NEW before \in Nat, NEW more \in Nat, NEW extra \in Nat, NEW after \in Nat,
         NEW sign \in Seq(Glyph), NEW prefix \in Seq(Glyph), NEW number \in Seq(Glyph),
         NEW text, text = (((((Repeat("SP", before) \o sign) \o prefix) \o Repeat("0", more))
                             \o Repeat("0", extra)) \o number) \o Repeat("SP", after)
  PROVE  LaidLike(text, before, sign, prefix,
                  (Repeat("0", more) \o Repeat("0", extra)) \o number, after)
<1>1. PICK blanks \in Seq(Glyph) : blanks = Repeat("SP", before) /\ Len(blanks) = before
  BY BlanksText
<1>2. PICK a \in Seq(Glyph) : a = Repeat("0", more)
  BY ZerosText
<1>3. PICK b \in Seq(Glyph) : b = Repeat("0", extra)
  BY ZerosText
<1>4. PICK tail \in Seq(Glyph) : tail = Repeat("SP", after) /\ Len(tail) = after
  BY BlanksText
<1>5. PICK one \in Seq(Glyph) : one = blanks \o sign /\ Len(one) = Len(blanks) + Len(sign)
  BY InARow
<1>6. PICK head \in Seq(Glyph) : head = one \o prefix /\ Len(head) = Len(one) + Len(prefix)
  BY InARow
<1>7. PICK zeros \in Seq(Glyph) : zeros = a \o b
  BY InARow
<1>8. PICK list \in Seq(Glyph) : list = zeros \o number
  BY InARow
<1>9. PICK both \in Seq(Glyph) : both = head \o list /\ Len(both) = Len(head) + Len(list)
  BY InARow
<1>10. ((head \o a) \o b) \o number = both
  <2>1. Regrouped(head, a, b, number)
    BY FourInARow
  <2> QED
    BY <1>7, <1>8, <1>9, <2>1 DEF Regrouped
<1>11. text = both \o tail
  BY <1>1, <1>2, <1>3, <1>4, <1>5, <1>6, <1>10
<1>12. Len(both \o tail) = Len(both) + Len(tail)
  BY InARow
<1>13. Len(text) = before + Len(sign) + Len(prefix) + Len(list) + after
  BY <1>1, <1>4, <1>5, <1>6, <1>9, <1>11, <1>12
<1>14. list = (Repeat("0", more) \o Repeat("0", extra)) \o number
  BY <1>2, <1>3, <1>7, <1>8
<1>15. text = (((Repeat("SP", before) \o sign) \o prefix) \o list) \o Repeat("SP", after)
  BY <1>1, <1>4, <1>5, <1>6, <1>9, <1>11
<1> QED
  BY <1>13, <1>14, <1>15 DEF LaidLike

\* text is before blanks, sign, prefix, zeros, the numeral with the divisions over, and blanks.
Reading(text, width, prescision, given, magnitude, base, sign, prefix,
        before, zeros, after, over, length, list) ==
  /\ before \in Nat /\ zeros \in Nat /\ after \in Nat
  /\ Divided(over, magnitude, base) /\ Divisions(length, over)
  /\ Numbered(list, zeros, length, over, base, given)
  /\ LaidLike(text, before, sign, prefix, list, after)
  /\ Fitting(width, prescision, "ZERO" \in given, "LEFT" \in given, Len(text),
             before, zeros, length, after)

LEMMA IntegerLaid ==
  ASSUME NEW word \in 0 .. WORD - 1, NEW base \in {8, 10, 16}, NEW width \in Int,
         NEW prescision \in Int, NEW given
  PROVE  \E before, zeros, after, over, length, list :
            Reading(bound_string_format_integer(word, base, width, prescision, given),
                    width, prescision, given, Magnitude(word, given), base,
                    SignOf(word, given), PrefixOf(base, given),
                    before, zeros, after, over, length, list)
<1>1. PICK magnitude \in 0 .. WORD - 1 : magnitude = Magnitude(word, given)
  BY MagnitudeIsWord
<1>2. PICK sign \in Seq(Glyph) : sign = SignOf(word, given)
  BY Signs
<1>3. PICK prefix \in Seq(Glyph) : prefix = PrefixOf(base, given)
  BY Signs
<1>4. PICK flags : flags = IF prescision >= 0 THEN given \ {"ZERO"} ELSE given
  OBVIOUS
<1>5. PICK over, length : NumeralFrom(Numeral(magnitude, base, flags), over, length, magnitude, base, flags)
  BY NumeralParts
<1>6. PICK number : number = Numeral(magnitude, base, flags)
  OBVIOUS
<1>7. /\ Divided(over, magnitude, base) /\ Divisions(length, over)
      /\ number \in Seq(Glyph) /\ Len(number) = length /\ length \in Nat /\ length >= 1
  BY <1>5, <1>6 DEF NumeralFrom
<1>8. \A j \in 1 .. length : number[j] = digits(given)[1 + (over[length - j] % base)]
  <2>1. digits(flags) = digits(given)
    BY <1>4, SameDigits
  <2> QED
    BY <1>5, <1>6, <2>1 DEF NumeralFrom
<1>9. PICK z \in BOOLEAN : z <=> "ZERO" \in flags
  <2>1. ("ZERO" \in flags) \in BOOLEAN
    OBVIOUS
  <2> QED
    BY <2>1, Zenon
<1>90. PICK l \in BOOLEAN : l <=> "LEFT" \in flags
  <2>1. ("LEFT" \in flags) \in BOOLEAN
    OBVIOUS
  <2> QED
    BY <2>1, Zenon
<1>10. (l <=> "LEFT" \in given) /\ (z => "ZERO" \in given /\ prescision < 0)
  <2>1. "ZERO" \in flags => "ZERO" \in given /\ prescision < 0
    BY <1>4
  <2>2. "LEFT" \in flags <=> "LEFT" \in given
    BY <1>4
  <2> QED
    BY <1>9, <1>90, <2>1, <2>2, Zenon
<1>11. PICK most : most = Most(length, prescision)
  OBVIOUS
<1>12. PICK ls \in Nat, lp \in Nat : ls = Len(sign) /\ lp = Len(prefix)
  OBVIOUS
<1>13. PICK left : left = width - ls - most - lp
  OBVIOUS
<1>14. PICK before \in Nat, more \in Nat, extra \in Nat, after \in Nat :
          Shared(width, prescision, length, ls, lp, z, l, most, left, before, more, extra, after)
  <2>1. (z => prescision < 0) /\ length \in Nat
    BY <1>7, <1>10
  <2>2. CanShare(width, prescision, length, ls, lp, z, l)
    BY <2>1, RoomIsShared
  <2> QED
    BY <1>11, <1>13, <2>2 DEF CanShare
<1>15. PICK text : text = bound_string_format_integer(word, base, width, prescision, given)
  OBVIOUS
<1>16. text = (((((Repeat("SP", before) \o sign) \o prefix) \o Repeat("0", more))
                 \o Repeat("0", extra)) \o number) \o Repeat("SP", after)
  <2>1. text = Parts(word, base, width, prescision, given, flags)
    BY <1>4, <1>15, IntegerParts
  <2>2. Parts(word, base, width, prescision, given, flags)
          = (((((Repeat("SP", Share(flags \cap {"ZERO", "LEFT"} = {}, left))
                  \o sign) \o prefix)
                \o Repeat("0", Share("ZERO" \in flags /\ "LEFT" \notin flags, left)))
               \o Repeat("0", most - Len(number))) \o number)
             \o Repeat("SP", Share("LEFT" \in flags, left))
    BY <1>1, <1>2, <1>3, <1>6, <1>7, <1>11, <1>12, <1>13 DEF Parts, Share, Most
  <2>3. /\ (flags \cap {"ZERO", "LEFT"} = {}) <=> (~z /\ ~l)
        /\ ("ZERO" \in flags /\ "LEFT" \notin flags) <=> (z /\ ~l)
        /\ "LEFT" \in flags <=> l
    BY <1>9, <1>90
  <2>4. /\ Share(flags \cap {"ZERO", "LEFT"} = {}, left) = before
        /\ Share("ZERO" \in flags /\ "LEFT" \notin flags, left) = more
        /\ Share("LEFT" \in flags, left) = after
        /\ most - Len(number) = extra
    BY <1>7, <1>14, <2>3 DEF Shared, Share
  <2> QED
    BY <2>1, <2>2, <2>4
<1>17. PICK list : list = (Repeat("0", more) \o Repeat("0", extra)) \o number
  OBVIOUS
<1>18. LaidLike(text, before, sign, prefix, list, after)
  BY <1>7, <1>16, <1>17, PartsInARow
<1>19. Numbered(list, more + extra, length, over, base, given)
  BY <1>7, <1>8, <1>17, ZerosInFront
<1>20. Fitting(width, prescision, "ZERO" \in given, "LEFT" \in given, Len(text),
              before, more + extra, length, after)
  <2>1. Len(text) = before + ls + lp + (more + extra + length) + after
    <3>1. Len(text) = before + ls + lp + Len(list) + after
      BY <1>12, <1>18 DEF LaidLike
    <3>2. Len(list) = (more + extra) + length
      BY <1>19 DEF Numbered
    <3> QED
      BY <3>1, <3>2
  <2>2. PICK total : total = Len(text) /\ Fitting(width, prescision, z, l, total, before, more + extra, length, after)
    BY <1>14, <2>1 DEF Shared
  <2> QED
    BY <1>10, <2>2 DEF Fitting
<1>21. more + extra \in Nat
  OBVIOUS
<1>22. Reading(text, width, prescision, given, magnitude, base, sign, prefix,
              before, more + extra, after, over, length, list)
  BY <1>7, <1>18, <1>19, <1>20, <1>21 DEF Reading
<1> QED
  BY <1>1, <1>2, <1>3, <1>15, <1>22

LEMMA IntegerReads ==
  ASSUME NEW word \in 0 .. WORD - 1, NEW base \in {8, 10, 16}, NEW f,
         f.width \in Int, f.prescision \in Int,
         f.text = bound_string_format_integer(word, base, f.width, f.prescision, f.flags)
  PROVE  ReadsAs(f, base, Magnitude(word, f.flags), SignOf(word, f.flags), PrefixOf(base, f.flags))
<1>1. PICK given, width, prescision, text :
         /\ given = f.flags /\ width = f.width /\ prescision = f.prescision /\ text = f.text
  OBVIOUS
<1>2. width \in Int /\ prescision \in Int
  BY <1>1
<1>3. PICK before, zeros, after, over, length, list :
         Reading(text, width, prescision, given, Magnitude(word, given), base,
                 SignOf(word, given), PrefixOf(base, given),
                 before, zeros, after, over, length, list)
  BY <1>1, <1>2, IntegerLaid
<1>4. /\ before \in Nat /\ zeros \in Nat /\ after \in Nat
      /\ Divided(over, Magnitude(word, given), base) /\ Divisions(length, over)
      /\ Numbered(list, zeros, length, over, base, f.flags)
      /\ f.text = (((Repeat("SP", before) \o SignOf(word, given)) \o PrefixOf(base, given))
                     \o list) \o Repeat("SP", after)
  BY <1>1, <1>3 DEF Reading, LaidLike
<1>5. Spaced(f, before, zeros, length, after)
  BY <1>1, <1>3 DEF Reading, Fitting, Spaced, Fills
<1>6. /\ Magnitude(word, given) \in 0 .. WORD - 1
      /\ SignOf(word, given) \in Seq(Glyph) /\ PrefixOf(base, given) \in Seq(Glyph)
  BY MagnitudeIsWord, Signs
<1>7. f.prescision \in Int
  OBVIOUS
<1>8. ReadsAs(f, base, Magnitude(word, given), SignOf(word, given), PrefixOf(base, given))
  BY <1>4, <1>5, <1>6, <1>7, ReadsLaid
<1> QED
  BY <1>1, <1>8

-----------------------------------------------------------------------------
(***************************************************************************)
(* The word a directive prints is its argument, as the qualifier has it.   *)
(***************************************************************************)
LEMMA SmallRemainder ==
  ASSUME NEW m \in Nat \ {0}, NEW v \in 0 .. m - 1
  PROVE  v % m = v
OBVIOUS

LEMMA NegativeRemainder ==
  ASSUME NEW m \in Nat \ {0}, NEW v \in 1 .. m
  PROVE  (-v) % m = m - v
OBVIOUS

\* word and number are the same, and number is below 0 only if signed.
SameNumber(word, number, signed) ==
  /\ number \in Int
  /\ number < 0 <=> signed /\ AsInt(word) < 0
  /\ number < 0 => AsWord(-word) = -number
  /\ ~(number < 0) => word = number

LEMMA HalfOf ==
  ASSUME NEW m \in Nat, m >= 2
  PROVE  m \div 2 \in Nat /\ m \div 2 >= 1 /\ 2 * (m \div 2) <= m /\ m <= 2 * (m \div 2) + 1
OBVIOUS

LEMMA SignedWord ==
  ASSUME NEW int \in 0 .. WORD - 1
  PROVE  /\ int >= WORD \div 2 => SameNumber(int, int - WORD, TRUE)
         /\ ~(int >= WORD \div 2) => SameNumber(int, int, TRUE)
         /\ SameNumber(int, int, FALSE)
<1>1. PICK h \in Nat : h = WORD \div 2 /\ h >= 1 /\ WORD \in Nat \ {0} /\ h <= WORD
  BY PrintfAssumption, HalfOf
<1>2. ASSUME int >= h PROVE SameNumber(int, int - WORD, TRUE)
  <2>1. AsInt(int) = int - WORD /\ int - WORD < 0 /\ int - WORD \in Int /\ int \in 1 .. WORD
    BY <1>1, <1>2 DEF AsInt
  <2>2. AsWord(-int) = WORD - int
    BY <1>1, <2>1, NegativeRemainder DEF AsWord
  <2>3. WORD - int = -(int - WORD)
    BY <1>1
  <2> QED
    BY <2>1, <2>2, <2>3 DEF SameNumber
<1>3. ASSUME ~(int >= h) PROVE SameNumber(int, int, TRUE)
  BY <1>1, <1>3 DEF SameNumber, AsInt
<1>4. SameNumber(int, int, FALSE)
  BY <1>1 DEF SameNumber
<1> QED
  BY <1>1, <1>2, <1>3, <1>4

LEMMA SignedShort ==
  ASSUME NEW low \in 0 .. SHORT - 1
  PROVE  /\ low >= SHORT \div 2 => SameNumber(AsWord(low - SHORT), low - SHORT, TRUE)
         /\ ~(low >= SHORT \div 2) => SameNumber(low, low, TRUE)
         /\ SameNumber(low, low, FALSE)
<1>1. /\ WORD \in Nat \ {0} /\ SHORT \in Nat \ {0} /\ SHORT <= WORD /\ SHORT >= 2 /\ WORD >= 2
  BY Words, PrintfAssumption
<1>2. PICK h \in Nat : h = WORD \div 2 /\ 2 * h <= WORD /\ WORD <= 2 * h + 1
  BY <1>1, HalfOf
<1>3. PICK g \in Nat : g = SHORT \div 2 /\ g >= 1 /\ 2 * g <= SHORT /\ SHORT <= 2 * g + 1
  BY <1>1, HalfOf
<1>4. g <= h
  BY <1>1, <1>2, <1>3
<1>5. ASSUME low >= g PROVE SameNumber(AsWord(low - SHORT), low - SHORT, TRUE)
  <2>1. PICK v \in 1 .. WORD : v = SHORT - low /\ low - SHORT = -v
    BY <1>1
  <2>2. AsWord(low - SHORT) = WORD - v
    BY <1>1, <2>1, NegativeRemainder DEF AsWord
  <2>3. WORD - v >= h /\ WORD - v < WORD /\ v < WORD
    BY <1>1, <1>2, <1>3, <1>5, <2>1
  <2>4. AsInt(WORD - v) = -v
    BY <1>1, <1>2, <2>3 DEF AsInt
  <2>5. AsWord(-(WORD - v)) = v
    <3>1. WORD - v \in 1 .. WORD /\ WORD - (WORD - v) = v
      BY <1>1, <2>3
    <3> QED
      BY <1>1, <3>1, NegativeRemainder DEF AsWord
  <2>6. -v < 0 /\ -v \in Int /\ -(-v) = v
    OBVIOUS
  <2> QED
    BY <2>1, <2>2, <2>4, <2>5, <2>6 DEF SameNumber
<1>6. ASSUME ~(low >= g) PROVE SameNumber(low, low, TRUE)
  BY <1>1, <1>2, <1>3, <1>4, <1>6 DEF SameNumber, AsInt
<1>7. SameNumber(low, low, FALSE)
  BY <1>1 DEF SameNumber
<1> QED
  BY <1>3, <1>5, <1>6, <1>7

\* The number an argument stands for.
NumberOf(int, qualifier, signed) ==
  LET values == IF qualifier = "h" THEN SHORT ELSE WORD
      low    == int % values
  IN  IF signed /\ low >= values \div 2 THEN low - values ELSE low

LEMMA NumberIs ==
  ASSUME NEW d \in Directive, Argument(d) \in [int : 0 .. WORD - 1],
         NEW signed \in BOOLEAN, signed <=> d.conversion \in {"i", "d"}
  PROVE  SameNumber(Number(d), NumberOf(Argument(d).int, d.qualifier, signed), signed)
<1>1. PICK int \in 0 .. WORD - 1 : int = Argument(d).int
  OBVIOUS
<1>2. WORD \in Nat \ {0} /\ SHORT \in Nat \ {0} /\ SHORT <= WORD
  BY Words
<1>3. CASE d.qualifier = "h"
  <2>1. PICK low \in 0 .. SHORT - 1 : low = int % SHORT
    <3>1. int \in Int /\ SHORT \in Nat \ {0}
      BY <1>2
    <3>2. int % SHORT \in 0 .. SHORT - 1
      BY <3>1, Remainder
    <3> QED
      BY <3>2
  <2>2. NumberOf(int, d.qualifier, signed)
          = IF signed /\ low >= SHORT \div 2 THEN low - SHORT ELSE low
    BY <1>3, <2>1 DEF NumberOf
  <2>3. low < SHORT \div 2 <=> ~(low >= SHORT \div 2)
    BY <1>2
  <2>4. Number(d) = IF signed /\ low >= SHORT \div 2 THEN AsWord(low - SHORT) ELSE low
    <3>1. CASE signed /\ low >= SHORT \div 2
      BY <1>1, <1>3, <2>1, <2>3, <3>1 DEF Number
    <3>2. CASE ~(signed /\ low >= SHORT \div 2)
      BY <1>1, <1>3, <2>1, <2>3, <3>2 DEF Number
    <3> QED
      BY <3>1, <3>2
  <2>5. /\ low >= SHORT \div 2 => SameNumber(AsWord(low - SHORT), low - SHORT, TRUE)
        /\ ~(low >= SHORT \div 2) => SameNumber(low, low, TRUE)
        /\ SameNumber(low, low, FALSE)
    BY <2>1, SignedShort
  <2> QED
    BY <1>1, <2>2, <2>4, <2>5
<1>4. CASE d.qualifier # "h"
  <2>1. int % WORD = int
    BY <1>2, SmallRemainder
  <2>2. NumberOf(int, d.qualifier, signed)
          = IF signed /\ int >= WORD \div 2 THEN int - WORD ELSE int
    BY <1>4, <2>1 DEF NumberOf
  <2>3. Number(d) = int
    BY <1>1, <1>4 DEF Number
  <2>4. /\ int >= WORD \div 2 => SameNumber(int, int - WORD, TRUE)
        /\ ~(int >= WORD \div 2) => SameNumber(int, int, TRUE)
        /\ SameNumber(int, int, FALSE)
    BY <1>1, SignedWord
  <2> QED
    BY <1>1, <2>2, <2>3, <2>4
<1> QED
  BY <1>3, <1>4

\* NumbersReadBack of a field.
FieldReads(f) ==
  LET signed == f.conversion \in {"i", "d"}
      values == IF f.qualifier = "h" THEN SHORT ELSE WORD
      low    == f.argument.int % values
      number == IF signed /\ low >= values \div 2 THEN low - values ELSE low
      sign   == CASE number < 0 -> <<"-">>
                  [] number >= 0 /\ signed /\ "PLUS" \in f.flags -> <<"+">>
                  [] number >= 0 /\ signed /\ "PLUS" \notin f.flags /\ "SPACE" \in f.flags
                       -> <<"SP">>
                  [] OTHER -> <<>>
      prefix == IF "ALT" \in f.flags
                THEN CASE f.conversion = "o" -> <<"0">> [] f.conversion = "x" -> <<"0", "x">>
                       [] f.conversion = "X" -> <<"0", "X">> [] OTHER -> <<>>
                ELSE <<>>
  IN  ReadsAs(f, Base[f.conversion], Abs(number), sign, prefix)

LEMMA SignIs ==
  ASSUME NEW word, NEW number, NEW signed \in BOOLEAN, NEW flags, SameNumber(word, number, signed),
         "SIGNED" \in flags <=> signed
  PROVE  /\ Magnitude(word, flags) = Abs(number)
         /\ SignOf(word, flags)
              = CASE number < 0 -> <<"-">>
                  [] number >= 0 /\ signed /\ "PLUS" \in flags -> <<"+">>
                  [] number >= 0 /\ signed /\ "PLUS" \notin flags /\ "SPACE" \in flags
                       -> <<"SP">>
                  [] OTHER -> <<>>
<1>1. /\ number \in Int
      /\ Negative(word, flags) <=> number < 0
      /\ number >= 0 <=> ~(number < 0)
  BY DEF SameNumber, Negative
<1>2. Magnitude(word, flags) = Abs(number)
  BY <1>1 DEF SameNumber, Magnitude, Abs
<1>20. /\ {"SIGNED", "PLUS"} \subseteq flags <=> signed /\ "PLUS" \in flags
       /\ {"SIGNED", "SPACE"} \subseteq flags <=> signed /\ "SPACE" \in flags
  OBVIOUS
<1> DEFINE sign == CASE number < 0 -> <<"-">>
                     [] number >= 0 /\ signed /\ "PLUS" \in flags -> <<"+">>
                     [] number >= 0 /\ signed /\ "PLUS" \notin flags /\ "SPACE" \in flags
                          -> <<"SP">>
                     [] OTHER -> <<>>
<1>3. ASSUME number < 0 PROVE SignOf(word, flags) = sign
  <2>1. SignOf(word, flags) = <<"-">>
    BY <1>1, <1>3 DEF SignOf
  <2>2. sign = <<"-">>
    BY <1>1, <1>3
  <2> QED
    BY <2>1, <2>2
<1>4. ASSUME ~(number < 0), signed, "PLUS" \in flags PROVE SignOf(word, flags) = sign
  <2>1. SignOf(word, flags) = <<"+">>
    <3>1. ~Negative(word, flags) /\ {"SIGNED", "PLUS"} \subseteq flags
      BY <1>1, <1>4
    <3> QED
      BY <3>1, <1>4 DEF SignOf
  <2>2. sign = <<"+">>
    BY <1>1, <1>4
  <2> QED
    BY <2>1, <2>2
<1>5. ASSUME ~(number < 0), signed, "PLUS" \notin flags, "SPACE" \in flags
      PROVE  SignOf(word, flags) = sign
  <2>1. SignOf(word, flags) = <<"SP">>
    <3>1. /\ ~Negative(word, flags) /\ ~({"SIGNED", "PLUS"} \subseteq flags)
          /\ {"SIGNED", "SPACE"} \subseteq flags
      BY <1>1, <1>5
    <3> QED
      BY <3>1, <1>5 DEF SignOf
  <2>2. sign = <<"SP">>
    BY <1>1, <1>5
  <2> QED
    BY <2>1, <2>2
<1>6. ASSUME ~(number < 0), ~(signed /\ ("PLUS" \in flags \/ "SPACE" \in flags))
      PROVE  SignOf(word, flags) = sign
  <2>1. SignOf(word, flags) = <<>>
    <3>1. /\ ~Negative(word, flags) /\ ~({"SIGNED", "PLUS"} \subseteq flags)
          /\ ~({"SIGNED", "SPACE"} \subseteq flags /\ "PLUS" \notin flags)
      BY <1>1, <1>6
    <3> QED
      BY <3>1 DEF SignOf
  <2>2. sign = <<>>
    BY <1>1, <1>6
  <2> QED
    BY <2>1, <2>2
<1>7. SignOf(word, flags) = sign
  <2> HIDE DEF sign
  <2> QED
    BY <1>3, <1>4, <1>5, <1>6
<1> QED
  BY <1>2, <1>7

LEMMA PrefixIs ==
  ASSUME NEW conversion \in DOMAIN Base, NEW flags, "UPPER" \in flags <=> conversion = "X"
  PROVE  PrefixOf(Base[conversion], flags)
           = IF "ALT" \in flags
             THEN CASE conversion = "o" -> <<"0">> [] conversion = "x" -> <<"0", "x">>
                    [] conversion = "X" -> <<"0", "X">> [] OTHER -> <<>>
             ELSE <<>>
<1>1. conversion \in {"o", "i", "d", "u", "X", "x"}
  BY DEF Base
<1>2. CASE conversion = "o"
  BY <1>2 DEF Base, PrefixOf
<1>3. CASE conversion = "x"
  BY <1>3 DEF Base, PrefixOf
<1>4. CASE conversion = "X"
  BY <1>4 DEF Base, PrefixOf
<1>5. CASE conversion \in {"i", "d", "u"}
  BY <1>5 DEF Base, PrefixOf
<1> QED
  BY <1>1, <1>2, <1>3, <1>4, <1>5

\* What a directive makes of its argument.
FieldOf(d) ==
  [conversion |-> d.conversion, text |-> Printed(d), width |-> Width(d),
   prescision |-> Prescision(d), flags |-> Flags(d), qualifier |-> d.qualifier,
   argument |-> IF Taken(d) > Stars(d) THEN Argument(d) ELSE NoField]

LEMMA DirectiveReads ==
  ASSUME NEW d \in Directive, Suits(d, args), d.conversion \in DOMAIN Base,
         NEW f, f = FieldOf(d)
  PROVE  FieldReads(f)
<1>1. /\ d.conversion \in {"o", "i", "d", "u", "X", "x"}
      /\ Base[d.conversion] \in {8, 10, 16}
  BY DEF Base
<1>2. Taken(d) = Stars(d) + 1 /\ Stars(d) \in Nat /\ Argument(d) = args[Taken(d)]
  BY <1>1 DEF Taken, Stars, Argument
<1>3. Argument(d) \in [int : 0 .. WORD - 1]
  BY <1>1, <1>2 DEF Suits
<1>4. /\ f.conversion = d.conversion /\ f.text = Printed(d) /\ f.width = Width(d)
      /\ f.prescision = Prescision(d) /\ f.flags = Flags(d) /\ f.qualifier = d.qualifier
      /\ f.argument = Argument(d)
  BY <1>2 DEF FieldOf
<1>5. f.width \in Int /\ f.prescision \in Int
  BY <1>4, WidthIsNumber, PrescisionIsNumber
<1>6. PICK word \in 0 .. WORD - 1 : word = Number(d)
  BY <1>3, NumberIsWord
<1>7. PICK signed \in BOOLEAN : signed <=> d.conversion \in {"i", "d"}
  BY <1>1
<1>8. /\ "SIGNED" \in f.flags <=> signed
      /\ "UPPER" \in f.flags <=> d.conversion = "X"
  <2>1. d.flags \subseteq {"LEFT", "PLUS", "SPACE", "ALT", "ZERO"}
    BY DEF Directive
  <2>2. /\ "SIGNED" \in Flags(d) <=> d.conversion \in {"i", "d"}
        /\ "UPPER" \in Flags(d) <=> d.conversion = "X"
    BY <2>1 DEF Flags
  <2> QED
    BY <1>4, <1>7, <2>2
<1>9. PICK number : number = NumberOf(Argument(d).int, d.qualifier, signed)
  OBVIOUS
<1>10. SameNumber(word, number, signed)
  BY <1>3, <1>6, <1>7, <1>9, NumberIs
<1>11. f.text = bound_string_format_integer(word, Base[d.conversion], f.width, f.prescision, f.flags)
  BY <1>1, <1>4, <1>6 DEF Printed
<1>12. ReadsAs(f, Base[d.conversion], Magnitude(word, f.flags), SignOf(word, f.flags),
               PrefixOf(Base[d.conversion], f.flags))
  BY <1>1, <1>5, <1>11, IntegerReads
<1>13. /\ Magnitude(word, f.flags) = Abs(number)
       /\ SignOf(word, f.flags)
             = CASE number < 0 -> <<"-">>
                 [] number >= 0 /\ signed /\ "PLUS" \in f.flags -> <<"+">>
                 [] number >= 0 /\ signed /\ "PLUS" \notin f.flags /\ "SPACE" \in f.flags
                      -> <<"SP">>
                 [] OTHER -> <<>>
  BY <1>8, <1>10, SignIs
<1>14. PrefixOf(Base[d.conversion], f.flags)
         = IF "ALT" \in f.flags
           THEN CASE d.conversion = "o" -> <<"0">> [] d.conversion = "x" -> <<"0", "x">>
                  [] d.conversion = "X" -> <<"0", "X">> [] OTHER -> <<>>
           ELSE <<>>
  BY <1>8, PrefixIs
<1>15. (f.conversion \in {"i", "d"}) = signed
  BY <1>4, <1>7
<1>16. number = LET values == IF f.qualifier = "h" THEN SHORT ELSE WORD
                    low    == f.argument.int % values
                IN  IF f.conversion \in {"i", "d"} /\ low >= values \div 2 THEN low - values ELSE low
  BY <1>4, <1>9, <1>15 DEF NumberOf
<1> QED
  BY <1>4, <1>12, <1>13, <1>14, <1>15, <1>16 DEF FieldReads

LEMMA NumbersStay ==
  ASSUME ArgumentsLeft, NumbersReadBack, [PrintfNext]_printf_vars
  PROVE  ArgumentsLeft' /\ NumbersReadBack'
<1>1. NumbersReadBack' <=> (field'.conversion \in DOMAIN Base => FieldReads(field'))
  BY DEF NumbersReadBack, FieldReads
<1>2. CASE plain
  <2>1. field' = NoField
    BY <1>2 DEF plain
  <2>2. field'.conversion \notin DOMAIN Base
    BY <2>1 DEF NoField, Base
  <2> QED
    BY <1>1, <1>2, <2>2, PlainItem
<1>3. CASE directive
  <2>1. PICK d : d = Item
    OBVIOUS
  <2>2. d \in Directive /\ Suits(d, args) /\ ArgumentsLeft'
    BY <1>3, <2>1, DirectiveItem
  <2>3. PICK f : f = field'
    OBVIOUS
  <2>4. f = FieldOf(d)
    BY <1>3, <2>1, <2>3 DEF directive, FieldOf
  <2>5. f.conversion = d.conversion
    BY <2>4 DEF FieldOf
  <2>6. f.conversion \in DOMAIN Base => FieldReads(f)
    BY <2>2, <2>4, <2>5, DirectiveReads
  <2> QED
    BY <1>1, <2>2, <2>3, <2>6
<1>4. CASE finish \/ UNCHANGED printf_vars
  <2>1. call' = call /\ k' = k /\ args' = args /\ field' = field
    BY <1>4 DEF finish, printf_vars
  <2>2. ArgumentsLeft'
    BY <2>1 DEF ArgumentsLeft
  <2>3. NumbersReadBack'
    BY <2>1 DEF NumbersReadBack
  <2> QED
    BY <2>2, <2>3
<1> QED
  BY <1>2, <1>3, <1>4 DEF PrintfNext, printed

(***************************************************************************)
(* Whatever is printed, wherever the buffer is and however long: every     *)
(* number a directive of vsnprintf makes reads as the argument it was made *)
(* of, with the sign, prefix, digits and width the directive asks for.     *)
(***************************************************************************)
THEOREM NumbersAlwaysReadBack == PrintfSpec => []NumbersReadBack
<1>1. PrintfInit => ArgumentsLeft /\ NumbersReadBack
  <2> SUFFICES ASSUME PrintfInit PROVE ArgumentsLeft /\ NumbersReadBack
    OBVIOUS
  <2>1. field.conversion \notin DOMAIN Base
    BY DEF PrintfInit, NoField, Base
  <2> QED
    BY <2>1, ArgumentsStart DEF NumbersReadBack
<1>2. ArgumentsLeft /\ NumbersReadBack /\ [PrintfNext]_printf_vars =>
        (ArgumentsLeft /\ NumbersReadBack)'
  BY NumbersStay
<1> QED
  BY <1>1, <1>2, PTL DEF PrintfSpec

-----------------------------------------------------------------------------
(***************************************************************************)
(* The page and the screen.                                                *)
(***************************************************************************)
Byte == Letters \cup {"NL", "CR", "BS", "ESC", "NUL", "[", "m", "0", "31"}

Cell == (Byte \cup {"SP"}) \X Format

Picture == [Row -> [Column -> Cell]]

Display ==
  {d \in [buffer : Picture, screen : Picture, sync : BOOLEAN] : d.sync => d.screen = d.buffer}

LEMMA PageIs ==
  /\ page_rows \in Nat /\ page_rows >= 2 /\ page_columns \in Nat /\ page_columns >= 2
  /\ Row \subseteq Int /\ Column \subseteq Int
  /\ 0 \in Row /\ page_rows - 1 \in Row /\ 0 \in Column /\ page_columns - 1 \in Column
  /\ \A v \in Int : v \in Row <=> 0 <= v /\ v <= page_rows - 1
  /\ \A v \in Int : v \in Column <=> 0 <= v /\ v <= page_columns - 1
BY PageAssumption DEF Row, Column

LEMMA CharIsCell ==
  ASSUME NEW byte \in Byte \cup {"SP"}, NEW f \in Format
  PROVE  VGAChar(byte, f) \in Cell /\ VGAChar(byte, f)[1] = byte
BY DEF VGAChar, Cell

LEMMA Flushed ==
  ASSUME NEW d \in Display
  PROVE  /\ vga_flush(d) \in Display
         /\ vga_flush(d).buffer = d.buffer /\ vga_flush(d).screen = d.buffer
         /\ vga_flush(d).sync = TRUE
<1>1. CASE d.sync
  BY <1>1 DEF vga_flush, Display
<1>2. CASE ~d.sync
  <2>1. vga_flush(d) = [d EXCEPT !.screen = d.buffer, !.sync = TRUE]
    BY <1>2 DEF vga_flush
  <2> QED
    BY <2>1 DEF Display
<1> QED
  BY <1>1, <1>2

FilledFrom(e, d, rows, cell) ==
  /\ e \in Display /\ e.sync = FALSE
  /\ \A v \in Row : v \notin rows => e.buffer[v] = d.buffer[v]
  /\ \A v \in Row, u \in Column : v \in rows => e.buffer[v][u] = cell

LEMMA FilledUp ==
  ASSUME NEW d \in Display, NEW rows, NEW cell \in Cell
  PROVE  FilledFrom(vga_fill(d, rows, cell), d, rows, cell)
<1> DEFINE p == [v \in Row |-> IF v \in rows THEN [u \in Column |-> cell] ELSE d.buffer[v]]
<1>1. d \in [buffer : Picture, screen : Picture, sync : BOOLEAN]
  BY DEF Display
<1>2. p \in Picture
  BY <1>1 DEF Picture
<1>3. vga_fill(d, rows, cell) = [d EXCEPT !.buffer = p, !.sync = FALSE]
  BY DEF vga_fill
<1>4. /\ \A v \in Row : v \notin rows => p[v] = d.buffer[v]
      /\ \A v \in Row, u \in Column : v \in rows => p[v][u] = cell
  OBVIOUS
<1> HIDE DEF p
<1>5. vga_fill(d, rows, cell) \in [buffer : Picture, screen : Picture, sync : BOOLEAN]
  BY <1>1, <1>2, <1>3
<1>6. vga_fill(d, rows, cell).sync = FALSE /\ vga_fill(d, rows, cell).buffer = p
  BY <1>1, <1>3
<1> QED
  BY <1>4, <1>5, <1>6 DEF Display, FilledFrom

LEMMA CopiedUp ==
  ASSUME NEW d \in Display
  PROVE  /\ vga_copy_up(d) \in Display
         /\ vga_copy_up(d).sync = FALSE
         /\ \A v \in Row : vga_copy_up(d).buffer[v]
              = IF v = page_rows - 1 THEN d.buffer[v] ELSE d.buffer[v + 1]
<1> DEFINE e == vga_flush(d)
           p == [v \in Row |-> IF v = page_rows - 1 THEN e.buffer[v] ELSE e.screen[v + 1]]
<1>1. /\ e \in [buffer : Picture, screen : Picture, sync : BOOLEAN]
      /\ e.buffer = d.buffer /\ e.screen = d.buffer
  BY Flushed DEF Display
<1>2. vga_copy_up(d) = [e EXCEPT !.buffer = p, !.sync = FALSE]
  BY DEF vga_copy_up
<1> HIDE DEF e
<1>3. p \in Picture
  <2>1. ASSUME NEW v \in Row, v # page_rows - 1 PROVE v + 1 \in Row
    BY <2>1, PageIs
  <2> QED
    BY <1>1, <2>1 DEF Picture
<1>4. \A v \in Row : p[v] = IF v = page_rows - 1 THEN d.buffer[v] ELSE d.buffer[v + 1]
  BY <1>1
<1> HIDE DEF p
<1>5. vga_copy_up(d) \in [buffer : Picture, screen : Picture, sync : BOOLEAN]
  BY <1>1, <1>2, <1>3
<1>6. vga_copy_up(d).sync = FALSE /\ vga_copy_up(d).buffer = p
  BY <1>1, <1>2
<1> QED
  BY <1>4, <1>5, <1>6 DEF Display

LEMMA PrintedChar ==
  ASSUME NEW d \in Display, NEW cell \in Cell, NEW u \in Column, NEW v \in Row
  PROVE  /\ vga_print_char(d, cell, u, v) \in Display
         /\ vga_print_char(d, cell, u, v).sync = d.sync
         /\ \A w \in Row, t \in Column : vga_print_char(d, cell, u, v).buffer[w][t]
              = IF w = v /\ t = u THEN cell ELSE d.buffer[w][t]
<1> DEFINE p == [d.buffer EXCEPT ![v][u] = cell]
           q == [d.screen EXCEPT ![v][u] = cell]
<1>1. d \in [buffer : Picture, screen : Picture, sync : BOOLEAN]
  BY DEF Display
<1>2. vga_print_char(d, cell, u, v) = [d EXCEPT !.buffer = p, !.screen = q]
  BY <1>1 DEF vga_print_char
<1>3. p \in Picture /\ q \in Picture
  BY <1>1 DEF Picture
<1>4. \A w \in Row, t \in Column : p[w][t] = IF w = v /\ t = u THEN cell ELSE d.buffer[w][t]
  BY <1>1 DEF Picture
<1>5. d.sync => p = q
  BY DEF Display
<1> HIDE DEF p, q
<1>6. vga_print_char(d, cell, u, v) \in [buffer : Picture, screen : Picture, sync : BOOLEAN]
  BY <1>1, <1>2, <1>3
<1>7. /\ vga_print_char(d, cell, u, v).buffer = p /\ vga_print_char(d, cell, u, v).screen = q
      /\ vga_print_char(d, cell, u, v).sync = d.sync
  BY <1>1, <1>2
<1> QED
  BY <1>4, <1>5, <1>6, <1>7 DEF Display

-----------------------------------------------------------------------------
(***************************************************************************)
(* The roll and the place of a line on the page.                           *)
(***************************************************************************)
LEMMA GreatestNumber ==
  ASSUME NEW n \in Nat, NEW T \in SUBSET (0 .. n), T # {}
  PROVE  Max(T) \in T /\ \A j \in T : Max(T) >= j
<1> DEFINE Below == {n - j : j \in T}
<1>1. Below \in SUBSET Nat /\ Below # {}
  <2>1. \A j \in T : n - j \in Nat
    OBVIOUS
  <2> QED
    BY <2>1
<1> HIDE DEF Below
<1>2. PICK m \in Below : \A j \in Below : m <= j
  BY <1>1, LeastNumber
<1> USE DEF Below
<1>3. PICK l \in T : m = n - l
  BY <1>2
<1>4. ASSUME NEW j \in T PROVE l >= j
  <2>1. n - j \in Below
    OBVIOUS
  <2>2. n - l <= n - j
    BY <1>2, <1>3, <2>1
  <2> QED
    BY <2>2
<1> QED
  BY <1>4 DEF Max

LEMMA MaxOfTwo ==
  ASSUME NEW a \in Int, NEW b \in Int
  PROVE  Max({a, b}) = IF a >= b THEN a ELSE b
<1> DEFINE m == IF a >= b THEN a ELSE b
<1>1. m \in {a, b} /\ \A j \in {a, b} : m >= j
  OBVIOUS
<1>2. \A j \in {a, b} : (\A l \in {a, b} : j >= l) => j = m
  OBVIOUS
<1> HIDE DEF m
<1>3. Max({a, b}) = m
  BY <1>1, <1>2 DEF Max
<1> QED
  BY <1>3 DEF m

LEMMA EndIsColumn ==
  ASSUME NEW cells \in [Column -> Cell]
  PROVE  EndOf(cells) \in Column
<1> DEFINE T == {0} \cup {u \in Column : ~Blank(cells[u])}
<1>1. CASE ~Blank(cells[page_columns - 1])
  BY <1>1, PageIs DEF EndOf
<1>2. CASE Blank(cells[page_columns - 1])
  <2>1. page_columns - 2 \in Nat
    BY PageIs
  <2>2. T \in SUBSET (0 .. page_columns - 2) /\ T # {}
    <3>1. ASSUME NEW u \in T PROVE u \in 0 .. page_columns - 2
      <4>1. u = 0 \/ (u \in Column /\ u # page_columns - 1)
        BY <1>2
      <4> QED
        BY <2>1, <4>1, PageIs
    <3> QED
      BY <3>1
  <2>3. EndOf(cells) = 1 + Max(T)
    BY <1>2 DEF EndOf
  <2> HIDE DEF T
  <2>4. Max(T) \in 0 .. page_columns - 2
    BY <2>1, <2>2, GreatestNumber
  <2> QED
    BY <2>1, <2>3, <2>4, PageIs
<1> QED
  BY <1>1, <1>2

\* It is a matter of which cells are blank.
LEMMA EndIsTheSame ==
  ASSUME NEW one \in [Column -> Cell], NEW other \in [Column -> Cell],
         \A u \in Column : Blank(one[u]) <=> Blank(other[u])
  PROVE  EndOf(one) = EndOf(other)
<1>1. {u \in Column : ~Blank(one[u])} = {u \in Column : ~Blank(other[u])}
  OBVIOUS
<1>2. Blank(one[page_columns - 1]) <=> Blank(other[page_columns - 1])
  BY PageIs
<1> QED
  BY <1>1, <1>2 DEF EndOf

View == [display : Display, x : Column, y : 0 .. page_rows, format : Format]

Roll ==
  {p \in [lines : [Line -> [Column -> Cell]], line : Line, col : Column, top : Line,
          format : Format] :
     /\ p.top <= p.line /\ p.line <= p.top + page_rows
     /\ p.top + page_rows - 1 <= LineBound
     /\ \A l \in Line, u \in Column : l > p.top + page_rows - 1 => Blank(p.lines[l][u])}

\* c shows p.
OnPaper(c, p) ==
  /\ c.x = p.col /\ c.y = p.line - p.top /\ c.format = p.format
  /\ Shows(c.display.buffer, p)

Same(a, b) == a = b \/ (Blank(a) /\ Blank(b))

LEMMA LineIs ==
  /\ LineBound \in Nat /\ Line \subseteq Int
  /\ \A v \in Int : v \in Line <=> 0 <= v /\ v <= LineBound
BY PaperAssumption DEF Line

LEMMA LineNumber ==
  ASSUME NEW v \in Line
  PROVE  v \in Int /\ 0 <= v /\ v <= LineBound
BY LineIs

LEMMA NextLine ==
  ASSUME NEW v \in Line, v < LineBound
  PROVE  v + 1 \in Line
BY PaperAssumption DEF Line

LEMMA RowNumber ==
  ASSUME NEW v \in Row
  PROVE  v \in Int /\ 0 <= v /\ v <= page_rows - 1 /\ page_rows \in Int
BY PageAssumption DEF Row

LEMMA RowOf ==
  ASSUME NEW v \in 0 .. page_rows, v < page_rows
  PROVE  v \in Row /\ v \in Int
BY PageAssumption DEF Row

LEMMA ScrolledIs ==
  ASSUME NEW c \in View, c.y = page_rows
  PROVE  /\ cscroll(c) \in View
         /\ cscroll(c).y = c.y - 1 /\ cscroll(c).x = c.x /\ cscroll(c).format = c.format
         /\ \A v \in Row : v # page_rows - 1 =>
              cscroll(c).display.buffer[v] = c.display.buffer[v + 1]
         /\ \A u \in Column : Blank(cscroll(c).display.buffer[page_rows - 1][u])
<1>0. PICK rows : rows = {page_rows - 1}
  OBVIOUS
<1> DEFINE cell == VGAChar("SP", c.format)
           up   == vga_copy_up(c.display)
           d    == vga_fill(up, rows, cell)
<1>1. /\ c.display \in Display /\ c.format \in Format /\ c.x \in Column
      /\ c.y \in 0 .. page_rows
  BY DEF View
<1>2. cell \in Cell /\ Blank(cell)
  <2>1. "SP" \in Byte \cup {"SP"}
    OBVIOUS
  <2> QED
    BY <1>1, <2>1, CharIsCell DEF Blank
<1>3. /\ up \in Display
      /\ \A v \in Row : v # page_rows - 1 => up.buffer[v] = c.display.buffer[v + 1]
  BY <1>1, CopiedUp
<1> HIDE DEF up, cell
<1>4. /\ d \in Display
      /\ \A v \in Row : v \notin rows => d.buffer[v] = up.buffer[v]
      /\ \A v \in Row, u \in Column : v \in rows => d.buffer[v][u] = cell
  <2>1. FilledFrom(d, up, rows, cell)
    BY <1>2, <1>3, FilledUp
  <2> QED
    BY <2>1 DEF FilledFrom
<1>5. cscroll(c) = [c EXCEPT !.display = d, !.y = c.y - 1]
  BY <1>0 DEF cscroll, View, d, up, cell
<1> HIDE DEF d
<1>6. c.y - 1 \in 0 .. page_rows
  BY PageIs
<1>7. cscroll(c) = [display |-> d, x |-> c.x, y |-> c.y - 1, format |-> c.format]
  BY <1>5 DEF View
<1>8. cscroll(c) \in View
  BY <1>1, <1>4, <1>6, <1>7 DEF View
<1>9. \A v \in Row : v # page_rows - 1 => d.buffer[v] = c.display.buffer[v + 1]
  BY <1>0, <1>3, <1>4
<1>10. \A u \in Column : Blank(d.buffer[page_rows - 1][u])
  <2> TAKE u \in Column
  <2>1. d.buffer[page_rows - 1][u] = cell
    BY <1>0, <1>4, PageIs
  <2> QED
    BY <1>2, <2>1
<1> QED
  BY <1>7, <1>8, <1>9, <1>10

LEMMA ScrolledView ==
  ASSUME NEW c \in View
  PROVE  /\ scroll_if_below(c) \in View
         /\ scroll_if_below(c).y < page_rows
         /\ scroll_if_below(c).x = c.x /\ scroll_if_below(c).format = c.format
<1>1. c.y \in 0 .. page_rows /\ page_rows \in Nat
  BY PageIs DEF View
<1>2. CASE c.y >= page_rows
  <2>1. c.y = page_rows /\ c.y - 1 < page_rows
    BY <1>1, <1>2
  <2> QED
    BY <1>2, <2>1, ScrolledIs DEF scroll_if_below
<1>3. CASE ~(c.y >= page_rows)
  BY <1>1, <1>3 DEF scroll_if_below
<1> QED
  BY <1>2, <1>3

LEMMA RolledUp ==
  ASSUME NEW c \in View, NEW p \in Roll, OnPaper(c, p)
  PROVE  /\ RollUp(p) \in Roll
         /\ OnPaper(scroll_if_below(c), RollUp(p))
         /\ RollUp(p).line = p.line /\ RollUp(p).col = p.col /\ RollUp(p).format = p.format
<1>1. /\ p \in [lines : [Line -> [Column -> Cell]], line : Line, col : Column, top : Line,
                format : Format]
      /\ p.top <= p.line /\ p.line <= p.top + page_rows
      /\ p.top + page_rows - 1 <= LineBound
      /\ \A l \in Line, u \in Column : l > p.top + page_rows - 1 => Blank(p.lines[l][u])
  BY DEF Roll
<1>2. /\ p.line \in Int /\ p.top \in Int /\ page_rows \in Int /\ p.line \in Line
      /\ c.y = p.line - p.top /\ c.y \in 0 .. page_rows
  <2>0. p.line \in Line /\ p.top \in Line
    BY <1>1
  <2>1. p.line \in Int /\ p.top \in Int /\ page_rows \in Int /\ p.line \in Line
    BY <2>0, LineNumber, PageIs
  <2>2. c.y = p.line - p.top
    BY DEF OnPaper
  <2>3. c.y \in 0 .. page_rows
    BY DEF View
  <2> QED
    BY <2>1, <2>2, <2>3
<1>3. RollUp(p) = [p EXCEPT !.top = Max({p.top, p.line - page_rows + 1})]
  BY <1>1 DEF RollUp
<1>4. Max({p.top, p.line - page_rows + 1})
        = IF p.top >= p.line - page_rows + 1 THEN p.top ELSE p.line - page_rows + 1
  BY <1>2, MaxOfTwo
<1>5. CASE c.y >= page_rows
  <2>1. c.y = page_rows /\ p.line = p.top + page_rows
    BY <1>1, <1>2, <1>5
  <2>2. Max({p.top, p.line - page_rows + 1}) = p.top + 1
    BY <1>2, <1>4, <2>1
  <2>3. RollUp(p) = [lines |-> p.lines, line |-> p.line, col |-> p.col, top |-> p.top + 1,
                     format |-> p.format]
    BY <1>1, <1>3, <2>2
  <2>4. p.top + 1 \in Line
    BY <1>1, <1>2, <2>1, LineIs, PageIs
  <2>5. /\ p.top + 1 <= p.line /\ p.line <= p.top + 1 + page_rows
        /\ p.top + 1 + page_rows - 1 <= LineBound
    BY <1>1, <1>2, <2>1, LineIs, PageIs
  <2>6. \A l \in Line, u \in Column : l > p.top + 1 + page_rows - 1 => Blank(p.lines[l][u])
    <3> TAKE l \in Line, u \in Column
    <3>1. l > p.top + 1 + page_rows - 1 => l > p.top + page_rows - 1
      BY <1>2, LineIs
    <3> QED
      BY <1>1, <3>1
  <2>7. RollUp(p) \in Roll
    BY <1>1, <2>3, <2>4, <2>5, <2>6 DEF Roll
  <2>8. /\ scroll_if_below(c) = cscroll(c) /\ cscroll(c) \in View
        /\ cscroll(c).y = c.y - 1 /\ cscroll(c).x = c.x /\ cscroll(c).format = c.format
        /\ \A v \in Row : v # page_rows - 1 =>
             cscroll(c).display.buffer[v] = c.display.buffer[v + 1]
        /\ \A u \in Column : Blank(cscroll(c).display.buffer[page_rows - 1][u])
    BY <1>5, <2>1, ScrolledIs DEF scroll_if_below
  <2>9. ASSUME NEW v \in Row, NEW u \in Column
        PROVE  Same(cscroll(c).display.buffer[v][u], p.lines[p.top + 1 + v][u])
    <3>1. CASE v = page_rows - 1
      <4>1. p.top + 1 + v = p.line /\ p.line > p.top + page_rows - 1
        BY <1>2, <2>1, <3>1
      <4>2. Blank(p.lines[p.top + 1 + v][u])
        BY <1>1, <1>2, <4>1
      <4> QED
        BY <2>8, <3>1, <4>2 DEF Same
    <3>2. CASE v # page_rows - 1
      <4>1. v + 1 \in Row /\ p.top + 1 + v = p.top + (v + 1)
        BY <1>2, <3>2, PageIs
      <4>2. Same(c.display.buffer[v + 1][u], p.lines[p.top + (v + 1)][u])
        BY <4>1 DEF OnPaper, Shows, Same
      <4> QED
        BY <2>8, <3>2, <4>1, <4>2
    <3> QED
      BY <3>1, <3>2
  <2>10. Shows(cscroll(c).display.buffer, RollUp(p))
    BY <2>3, <2>9 DEF Shows, Same
  <2>11. cscroll(c).y = p.line - (p.top + 1)
    BY <1>2, <2>8
  <2> QED
    BY <2>3, <2>7, <2>8, <2>10, <2>11 DEF OnPaper
<1>6. CASE ~(c.y >= page_rows)
  <2>1. Max({p.top, p.line - page_rows + 1}) = p.top
    BY <1>2, <1>4, <1>6
  <2>2. RollUp(p) = p
    BY <1>1, <1>3, <2>1
  <2>3. scroll_if_below(c) = c
    BY <1>6 DEF scroll_if_below
  <2> QED
    BY <2>2, <2>3
<1> QED
  BY <1>5, <1>6

-----------------------------------------------------------------------------
(***************************************************************************)
(* One byte on the page, and one item on the roll.                         *)
(***************************************************************************)

\* e is d after a character at column u of row v.
CharAt(e, d, cell, u, v) ==
  /\ e \in Display /\ e.sync = d.sync
  /\ \A w \in Row, t \in Column :
       e.buffer[w][t] = IF w = v /\ t = u THEN cell ELSE d.buffer[w][t]

LEMMA CharWritten ==
  ASSUME NEW c \in View, c.y < page_rows, NEW byte \in Byte \cup {"SP"}
  PROVE  \E e : /\ CharAt(e, c.display, VGAChar(byte, c.format), c.x, c.y)
                /\ inplace_cwrite(c, byte)
                     = [display |-> e, x |-> c.x, y |-> c.y, format |-> c.format]
                /\ inplace_cwrite(c, byte) \in View
<1> DEFINE cell == VGAChar(byte, c.format)
           e    == vga_print_char(c.display, cell, c.x, c.y)
<1>1. /\ c.display \in Display /\ c.format \in Format /\ c.x \in Column
      /\ c.y \in 0 .. page_rows
  BY DEF View
<1>2. c.y \in Row
  BY <1>1, PageIs
<1>3. cell \in Cell
  BY <1>1, CharIsCell
<1> HIDE DEF cell
<1>4. CharAt(e, c.display, cell, c.x, c.y)
  BY <1>1, <1>2, <1>3, PrintedChar, SMTT(30) DEF CharAt
<1>5. inplace_cwrite(c, byte) = [c EXCEPT !.display = e]
  BY DEF inplace_cwrite, View, e, cell
<1> HIDE DEF e
<1>6. inplace_cwrite(c, byte) = [display |-> e, x |-> c.x, y |-> c.y, format |-> c.format]
  BY <1>5 DEF View
<1>7. e \in Display
  BY <1>4 DEF CharAt
<1>8. inplace_cwrite(c, byte) \in View
  BY <1>1, <1>6, <1>7 DEF View
<1> QED
  BY <1>4, <1>6, <1>8 DEF cell

LEMMA ColumnNumber ==
  ASSUME NEW u \in Column
  PROVE  /\ u \in Int /\ 0 <= u /\ u <= page_columns - 1 /\ 0 \in Column
         /\ u + 1 # page_columns => u + 1 \in Column
         /\ u > 0 => u - 1 \in Column
BY PageAssumption DEF Column

LEMMA OnlyX ==
  ASSUME NEW D, NEW F, NEW c \in [display : D, x : Int, y : Int, format : F], NEW u \in Int
  PROVE  [c EXCEPT !.x = u] = [display |-> c.display, x |-> u, y |-> c.y, format |-> c.format]
OBVIOUS

LEMMA OnlyY ==
  ASSUME NEW D, NEW F, NEW c \in [display : D, x : Int, y : Int, format : F], NEW v \in Int
  PROVE  [c EXCEPT !.y = v] = [display |-> c.display, x |-> c.x, y |-> v, format |-> c.format]
OBVIOUS

LEMMA XThenY ==
  ASSUME NEW D, NEW F, NEW c \in [display : D, x : Int, y : Int, format : F],
         NEW u \in Int, NEW v \in Int,
         NEW d, d = [c EXCEPT !.x = u], NEW e, e = [d EXCEPT !.y = v]
  PROVE  e = [display |-> c.display, x |-> u, y |-> v, format |-> c.format]
<1>1. d = [display |-> c.display, x |-> u, y |-> c.y, format |-> c.format]
  BY OnlyX
<1> QED
  BY <1>1, OnlyY

LEMMA YThenX ==
  ASSUME NEW D, NEW F, NEW c \in [display : D, x : Int, y : Int, format : F],
         NEW u \in Int, NEW v \in Int,
         NEW d, d = [c EXCEPT !.y = v], NEW e, e = [d EXCEPT !.x = u]
  PROVE  e = [display |-> c.display, x |-> u, y |-> v, format |-> c.format]
<1>1. d = [display |-> c.display, x |-> c.x, y |-> v, format |-> c.format]
  BY OnlyY
<1> QED
  BY <1>1, OnlyX

\* Where the cursor is after a character.
LEMMA CursorMoves ==
  ASSUME NEW c \in View, c.y < page_rows, NEW byte \in Byte \cup {"SP"}
  PROVE  \E e : /\ CharAt(e, c.display, VGAChar(byte, c.format), c.x, c.y)
                /\ cwrite(c, byte)
                     = [display |-> e,
                        x |-> IF c.x + 1 = page_columns THEN 0 ELSE c.x + 1,
                        y |-> IF c.x + 1 = page_columns THEN c.y + 1 ELSE c.y,
                        format |-> c.format]
                /\ cwrite(c, byte) \in View
<1>1. /\ c.format \in Format /\ c.x \in Column /\ c.y \in 0 .. page_rows
  BY DEF View
<1>2. PICK e : /\ CharAt(e, c.display, VGAChar(byte, c.format), c.x, c.y)
               /\ inplace_cwrite(c, byte)
                    = [display |-> e, x |-> c.x, y |-> c.y, format |-> c.format]
  BY CharWritten
<1> DEFINE u == IF c.x + 1 = page_columns THEN 0 ELSE c.x + 1
           v == IF c.x + 1 = page_columns THEN c.y + 1 ELSE c.y
<1>3. u \in Column /\ v \in 0 .. page_rows
  <2>1. c.x \in Int /\ 0 \in Column /\ (c.x + 1 # page_columns => c.x + 1 \in Column)
    BY <1>1, ColumnNumber
  <2>2. page_rows \in Nat
    BY PageIs
  <2> QED
    BY <1>1, <2>1, <2>2
<1>4. cwrite(c, byte) = [display |-> e, x |-> u, y |-> v, format |-> c.format]
  <2>1. PICK w : w = inplace_cwrite(c, byte)
    OBVIOUS
  <2>2. /\ w = [display |-> e, x |-> c.x, y |-> c.y, format |-> c.format]
        /\ w \in View
    BY <1>2, <2>1, CharWritten
  <2>3. w \in [display : Display, x : Int, y : Int, format : Format]
    BY <1>1, <2>2, ColumnNumber DEF View
  <2>4. c.x \in Int /\ c.y \in Int
    BY <1>1, ColumnNumber
  <2>5. cwrite(c, byte) = IF c.x + 1 = page_columns
                          THEN [[w EXCEPT !.x = 0] EXCEPT !.y = c.y + 1]
                          ELSE [w EXCEPT !.x = c.x + 1]
    BY <2>1, <2>2 DEF cwrite
  <2>6. [[w EXCEPT !.x = 0] EXCEPT !.y = c.y + 1]
           = [display |-> e, x |-> 0, y |-> c.y + 1, format |-> c.format]
    <3>1. PICK w1 : w1 = [w EXCEPT !.x = 0]
      OBVIOUS
    <3>2. PICK w2 : w2 = [w1 EXCEPT !.y = c.y + 1]
      OBVIOUS
    <3>3. w2 = [display |-> w.display, x |-> 0, y |-> c.y + 1, format |-> w.format]
      BY <2>3, <2>4, <3>1, <3>2, XThenY
    <3> QED
      BY <2>2, <3>1, <3>2, <3>3
  <2>7. [w EXCEPT !.x = c.x + 1]
           = [display |-> e, x |-> c.x + 1, y |-> c.y, format |-> c.format]
    BY <2>2, <2>3, <2>4, OnlyX
  <2> QED
    BY <2>5, <2>6, <2>7
<1>5. e \in Display
  BY <1>2 DEF CharAt
<1> HIDE DEF u, v
<1>6. cwrite(c, byte) \in View
  BY <1>1, <1>3, <1>4, <1>5 DEF View
<1> QED
  BY <1>2, <1>4, <1>6 DEF u, v

\* Where a backspace goes.
BackTo(c) ==
  LET above == IF c.y = 0 THEN 0 ELSE c.y - 1
      cells == [k1 \in Column |-> vga_get_char(c.display, k1, above)]
  IN  IF c.x > 0 THEN [c EXCEPT !.x = @ - 1]
      ELSE [c EXCEPT !.x = EndOf(cells), !.y = above]

LEMMA BackspaceIs ==
  ASSUME NEW c \in View, c.y < page_rows
  PROVE  /\ backspace(c) = inplace_cwrite(BackTo(c), "SP")
         /\ BackTo(c) \in View /\ BackTo(c).y < page_rows
         /\ BackTo(c).display = c.display /\ BackTo(c).format = c.format
         /\ c.x > 0 => BackTo(c).x = c.x - 1 /\ BackTo(c).y = c.y
         /\ c.x = 0 => /\ BackTo(c).y = IF c.y = 0 THEN 0 ELSE c.y - 1
                       /\ BackTo(c).x = EndOf(c.display.screen[IF c.y = 0 THEN 0 ELSE c.y - 1])
<1> DEFINE above == IF c.y = 0 THEN 0 ELSE c.y - 1
           cells == [k1 \in Column |-> vga_get_char(c.display, k1, above)]
<1>1. /\ c.display \in Display /\ c.format \in Format /\ c.x \in Column
      /\ c.y \in 0 .. page_rows
  BY DEF View
<1>2. above \in Row /\ above \in 0 .. page_rows /\ above < page_rows
  BY <1>1, PageIs
<1>3. c.display.screen[above] \in [Column -> Cell]
  BY <1>1, <1>2 DEF Display, Picture
<1>4. cells = c.display.screen[above]
  BY <1>3 DEF vga_get_char
<1>5. EndOf(c.display.screen[above]) \in Column
  BY <1>3, EndIsColumn
<1>6. backspace(c) = inplace_cwrite(BackTo(c), "SP")
  BY DEF backspace, BackTo
<1> HIDE DEF above, cells
<1>7. BackTo(c) = IF c.x > 0 THEN [c EXCEPT !.x = c.x - 1]
                  ELSE [c EXCEPT !.x = EndOf(cells), !.y = above]
  BY DEF BackTo, above, cells, View
<1>8. CASE c.x > 0
  <2>1. BackTo(c) = [display |-> c.display, x |-> c.x - 1, y |-> c.y, format |-> c.format]
    BY <1>7, <1>8 DEF View
  <2>2. c.x - 1 \in Column /\ c.x # 0
    BY <1>1, <1>8, ColumnNumber
  <2> QED
    BY <1>1, <1>6, <2>1, <2>2 DEF View
<1>9. CASE ~(c.x > 0)
  <2>1. BackTo(c) = [display |-> c.display, x |-> EndOf(c.display.screen[above]), y |-> above,
                     format |-> c.format]
    BY <1>4, <1>7, <1>9 DEF View
  <2>2. BackTo(c) \in View
    BY <1>1, <1>2, <1>5, <2>1 DEF View
  <2> QED
    BY <1>2, <1>6, <1>9, <2>1, <2>2 DEF above
<1> QED
  BY <1>8, <1>9

LEMMA RoundView ==
  ASSUME NEW c \in View, c.y < page_rows, NEW byte \in Byte
  PROVE  Round(c, byte) \in View
<1>1. /\ c.display \in Display /\ c.format \in Format /\ c.x \in Column
      /\ c.y \in 0 .. page_rows
  BY DEF View
<1>2. CASE byte = "NL"
  <2> DEFINE d == [c EXCEPT !.y = @ + 1, !.x = 0]
  <2>0. c \in [display : Display, x : Int, y : Int, format : Format] /\ c.y + 1 \in Int
    BY <1>1, ColumnNumber DEF View
  <2>1. d = [display |-> c.display, x |-> 0, y |-> c.y + 1, format |-> c.format]
    <3>1. PICK w1 : w1 = [c EXCEPT !.y = c.y + 1]
      OBVIOUS
    <3>2. PICK w2 : w2 = [w1 EXCEPT !.x = 0]
      OBVIOUS
    <3>3. w2 = [display |-> c.display, x |-> 0, y |-> c.y + 1, format |-> c.format]
      BY <2>0, <3>1, <3>2, YThenX
    <3> QED
      BY <3>1, <3>2, <3>3
  <2>2. c.y + 1 \in 0 .. page_rows /\ 0 \in Column
    BY <1>1, PageIs
  <2>3. d \in View
    BY <1>1, <2>1, <2>2 DEF View
  <2>4. Round(c, byte) = scroll_if_below(d)
    BY <1>2 DEF Round
  <2> HIDE DEF d
  <2> QED
    BY <2>3, <2>4, ScrolledView
<1>3. CASE byte = "CR"
  <2>1. Round(c, byte) = [display |-> c.display, x |-> 0, y |-> c.y, format |-> c.format]
    BY <1>3 DEF Round, View
  <2> QED
    BY <1>1, <2>1, PageIs DEF View
<1>4. CASE byte = "BS"
  <2>1. Round(c, byte) = inplace_cwrite(BackTo(c), "SP")
    BY <1>4, BackspaceIs DEF Round
  <2>2. "SP" \in Byte \cup {"SP"}
    OBVIOUS
  <2>3. BackTo(c) \in View /\ BackTo(c).y < page_rows
    BY BackspaceIs
  <2>4. PICK b \in View : b = BackTo(c)
    BY <2>3
  <2> QED
    BY <2>1, <2>2, <2>3, <2>4, CharWritten
<1>5. CASE byte \notin {"NL", "CR", "BS"}
  <2>1. Round(c, byte) = cwrite(c, byte)
    BY <1>5 DEF Round
  <2> QED
    BY <2>1, CursorMoves
<1> QED
  BY <1>2, <1>3, <1>4, <1>5

LEMMA RollIs ==
  ASSUME NEW p \in Roll
  PROVE  /\ p.lines \in [Line -> [Column -> Cell]] /\ p.line \in Line /\ p.top \in Line
         /\ p.col \in Column /\ p.format \in Format
         /\ p.line \in Int /\ p.top \in Int /\ p.col \in Int
         /\ p.top <= p.line /\ p.line <= p.top + page_rows
         /\ p.top + page_rows - 1 <= LineBound
         /\ 0 <= p.top /\ p.line <= LineBound
         /\ \A l \in Line, u \in Column : l > p.top + page_rows - 1 => Blank(p.lines[l][u])
<1>1. /\ p.lines \in [Line -> [Column -> Cell]] /\ p.line \in Line /\ p.top \in Line
      /\ p.col \in Column /\ p.format \in Format
      /\ p.top <= p.line /\ p.line <= p.top + page_rows
      /\ p.top + page_rows - 1 <= LineBound
      /\ \A l \in Line, u \in Column : l > p.top + page_rows - 1 => Blank(p.lines[l][u])
  BY DEF Roll
<1>2. p.line \in Int /\ p.top \in Int /\ p.col \in Int /\ 0 <= p.top /\ p.line <= LineBound
  BY <1>1, LineNumber, ColumnNumber
<1> QED
  BY <1>1, <1>2

\* The roll with one cell written.
WrittenAt(lines, p, cell, l, u) ==
  /\ lines \in [Line -> [Column -> Cell]]
  /\ \A m \in Line, t \in Column :
       lines[m][t] = IF m = l /\ t = u THEN cell ELSE p.lines[m][t]
  /\ \A m \in Line, t \in Column : m > p.top + page_rows - 1 => Blank(lines[m][t])

LEMMA RollWritten ==
  ASSUME NEW p \in Roll, NEW l \in Line, l <= p.top + page_rows - 1, NEW u \in Column,
         NEW cell \in Cell
  PROVE  WrittenAt([p.lines EXCEPT ![l][u] = cell], p, cell, l, u)
<1> DEFINE lines == [p.lines EXCEPT ![l][u] = cell]
<1>1. p.lines \in [Line -> [Column -> Cell]] /\ p.top \in Int /\ l \in Int
  BY RollIs, LineNumber
<1>2. lines \in [Line -> [Column -> Cell]]
  BY <1>1
<1>3. \A m \in Line, t \in Column :
        lines[m][t] = IF m = l /\ t = u THEN cell ELSE p.lines[m][t]
  BY <1>1
<1> HIDE DEF lines
<1>4. ASSUME NEW m \in Line, NEW t \in Column, m > p.top + page_rows - 1
      PROVE  Blank(lines[m][t])
  <2>1. m \in Int /\ page_rows \in Int
    BY LineNumber, PageIs
  <2>2. m # l
    BY <1>1, <1>4, <2>1
  <2>3. Blank(p.lines[m][t])
    BY <1>4, RollIs
  <2> QED
    BY <1>3, <2>2, <2>3
<1>5. WrittenAt(lines, p, cell, l, u)
  BY <1>2, <1>3, <1>4 DEF WrittenAt
<1> QED
  BY <1>5 DEF lines

LEMMA PlaceOnRoll ==
  ASSUME NEW p \in Roll, NEW v \in Row
  PROVE  p.top + v \in Line /\ p.top + v <= p.top + page_rows - 1
<1>1. v \in Int /\ 0 <= v /\ v <= page_rows - 1
  BY PageAssumption DEF Row
<1>2. p.top \in Int /\ 0 <= p.top /\ p.top + page_rows - 1 <= LineBound
  BY RollIs
<1>3. LineBound \in Int /\ page_rows \in Int
  BY PaperAssumption, PageAssumption
<1> QED
  BY <1>1, <1>2, <1>3 DEF Line

\* The same cell on the page and on the roll.
LEMMA CellShown ==
  ASSUME NEW p \in Roll, NEW d \in Display, Shows(d.buffer, p),
         NEW cell, NEW u \in Column, NEW v \in Row,
         NEW e, CharAt(e, d, cell, u, v), NEW lines, WrittenAt(lines, p, cell, p.top + v, u)
  PROVE  \A w \in Row, t \in Column : Same(e.buffer[w][t], lines[p.top + w][t])
<1> TAKE w \in Row, t \in Column
<1>1. e.buffer[w][t] = IF w = v /\ t = u THEN cell ELSE d.buffer[w][t]
  BY DEF CharAt
<1>2. p.top + w \in Line
  BY PlaceOnRoll
<1>3. lines[p.top + w][t] = IF p.top + w = p.top + v /\ t = u THEN cell
                            ELSE p.lines[p.top + w][t]
  BY <1>2 DEF WrittenAt
<1>4. p.top + w = p.top + v <=> w = v
  <2>1. w \in Int /\ v \in Int /\ p.top \in Int
    BY RollIs, PageIs
  <2> QED
    BY <2>1
<1>5. Same(d.buffer[w][t], p.lines[p.top + w][t])
  BY DEF Shows, Same
<1> QED
  BY <1>1, <1>3, <1>4, <1>5 DEF Same

\* A roll, part by part.
LEMMA MakesRoll ==
  ASSUME NEW p \in Roll, NEW lines, NEW cell, NEW m, NEW t, WrittenAt(lines, p, cell, m, t),
         NEW l \in Line, p.top <= l, l <= p.top + page_rows, NEW u \in Column, NEW f \in Format
  PROVE  [lines |-> lines, line |-> l, col |-> u, top |-> p.top, format |-> f] \in Roll
<1>1. p.top \in Line /\ p.top + page_rows - 1 <= LineBound
  BY RollIs
<1>2. /\ lines \in [Line -> [Column -> Cell]]
      /\ \A n1 \in Line, u1 \in Column : n1 > p.top + page_rows - 1 => Blank(lines[n1][u1])
  BY DEF WrittenAt
<1> QED
  BY <1>1, <1>2 DEF Roll

LEMMA PutIs ==
  ASSUME NEW p \in Roll, NEW ch
  PROVE  Put(p, ch) = [lines |-> [p.lines EXCEPT ![p.line][p.col] = VGAChar(ch, p.format)],
                       line |-> IF p.col = page_columns - 1 THEN p.line + 1 ELSE p.line,
                       col |-> IF p.col = page_columns - 1 THEN 0 ELSE p.col + 1,
                       top |-> p.top, format |-> p.format]
<1> DEFINE cell  == VGAChar(ch, p.format)
           lines == [p.lines EXCEPT ![p.line][p.col] = cell]
<1>1. PICK q : q = [p EXCEPT !.lines = lines]
  OBVIOUS
<1>2. p \in [lines : [Line -> [Column -> Cell]], line : Line, col : Column, top : Line,
             format : Format]
  BY DEF Roll
<1>3. Put(p, ch) = IF p.col = page_columns - 1
                   THEN [[q EXCEPT !.col = 0] EXCEPT !.line = q.line + 1]
                   ELSE [q EXCEPT !.col = q.col + 1]
  BY <1>1, <1>2 DEF Put
<1> HIDE DEF lines
<1>4. q = [lines |-> lines, line |-> p.line, col |-> p.col, top |-> p.top, format |-> p.format]
  BY <1>1, <1>2
<1>5. PICK r1 : r1 = [q EXCEPT !.col = 0]
  OBVIOUS
<1>6. r1 = [lines |-> lines, line |-> p.line, col |-> 0, top |-> p.top, format |-> p.format]
  BY <1>4, <1>5
<1>7. PICK r2 : r2 = [r1 EXCEPT !.line = q.line + 1]
  OBVIOUS
<1>8. r2 = [lines |-> lines, line |-> p.line + 1, col |-> 0, top |-> p.top, format |-> p.format]
  BY <1>4, <1>6, <1>7
<1>9. PICK r3 : r3 = [q EXCEPT !.col = q.col + 1]
  OBVIOUS
<1>10. r3 = [lines |-> lines, line |-> p.line, col |-> p.col + 1, top |-> p.top,
             format |-> p.format]
  BY <1>4, <1>9
<1>11. Put(p, ch) = IF p.col = page_columns - 1 THEN r2 ELSE r3
  BY <1>3, <1>5, <1>7, <1>9
<1> QED
  BY <1>8, <1>10, <1>11 DEF lines

\* After one round c shows the roll, one item on.
Shown(c, p, before) == c \in View /\ p \in Roll /\ OnPaper(c, p) /\ p.line <= before + 1

LEMMA PrintShown ==
  ASSUME NEW c \in View, c.y < page_rows, NEW p \in Roll, OnPaper(c, p), p.line < LineBound,
         NEW byte \in Letters
  PROVE  Shown(cwrite(c, byte), Put(p, byte), p.line)
<1> DEFINE cell == VGAChar(byte, c.format)
<1>1. byte \in Byte \cup {"SP"}
  BY DEF Byte
<1>2. PICK e : /\ CharAt(e, c.display, cell, c.x, c.y)
               /\ cwrite(c, byte)
                    = [display |-> e,
                       x |-> IF c.x + 1 = page_columns THEN 0 ELSE c.x + 1,
                       y |-> IF c.x + 1 = page_columns THEN c.y + 1 ELSE c.y,
                       format |-> c.format]
               /\ cwrite(c, byte) \in View
  BY <1>1, CursorMoves
<1>3. /\ c.x = p.col /\ c.y = p.line - p.top /\ c.format = p.format
      /\ Shows(c.display.buffer, p)
  BY DEF OnPaper
<1>4. /\ c.display \in Display /\ c.format \in Format /\ c.x \in Column /\ c.x \in Int
      /\ c.y \in Row /\ c.y \in Int
  <2>1. c.y \in 0 .. page_rows /\ c.x \in Column /\ c.display \in Display /\ c.format \in Format
    BY DEF View
  <2> QED
    BY <2>1, ColumnNumber, RowOf
<1>5. cell \in Cell
  BY <1>1, <1>4, CharIsCell
<1> HIDE DEF cell
<1>6. p.line \in Int /\ p.top \in Int /\ p.line = p.top + c.y /\ p.line <= p.top + page_rows - 1
  BY <1>3, <1>4, RollIs, PageIs
<1> DEFINE lines == [p.lines EXCEPT ![p.line][p.col] = cell]
           l == IF p.col = page_columns - 1 THEN p.line + 1 ELSE p.line
           u == IF p.col = page_columns - 1 THEN 0 ELSE p.col + 1
<1>7. WrittenAt(lines, p, cell, p.line, p.col)
  BY <1>3, <1>4, <1>5, <1>6, RollIs, RollWritten
<1>8. Put(p, byte) = [lines |-> lines, line |-> l, col |-> u, top |-> p.top, format |-> p.format]
  BY <1>3, PutIs DEF cell
<1> HIDE DEF lines
<1>9. \A w \in Row, t \in Column : Same(e.buffer[w][t], lines[p.top + w][t])
  BY <1>2, <1>3, <1>4, <1>6, <1>7, CellShown
<1>10. /\ l \in Line /\ p.top <= l /\ l <= p.top + page_rows /\ l <= p.line + 1
       /\ u \in Column
  <2>1. p.col \in Column /\ p.line \in Line /\ p.top <= p.line
    BY RollIs
  <2>2. p.line + 1 \in Line
    BY <2>1, NextLine
  <2>3. u \in Column
    BY <2>1, ColumnNumber, PageAssumption
  <2> QED
    BY <1>6, <2>1, <2>2, <2>3, PageAssumption
<1>11. u = (IF c.x + 1 = page_columns THEN 0 ELSE c.x + 1)
       /\ (IF c.x + 1 = page_columns THEN c.y + 1 ELSE c.y) = l - p.top
  BY <1>3, <1>4, <1>6, PageAssumption
<1> HIDE DEF l, u
<1>12. p.format \in Format
  BY RollIs
<1>13. Put(p, byte) \in Roll
  BY <1>7, <1>8, <1>10, <1>12, MakesRoll
<1>14. Shows(e.buffer, Put(p, byte))
  BY <1>8, <1>9 DEF Shows, Same
<1>15. OnPaper(cwrite(c, byte), Put(p, byte))
  BY <1>2, <1>3, <1>8, <1>11, <1>14 DEF OnPaper
<1> QED
  BY <1>2, <1>8, <1>10, <1>13, <1>15 DEF Shown

LEMMA UntouchedRoll ==
  ASSUME NEW p \in Roll, NEW l \in Line, p.top <= l, l <= p.top + page_rows, NEW u \in Column,
         NEW f \in Format
  PROVE  [lines |-> p.lines, line |-> l, col |-> u, top |-> p.top, format |-> f] \in Roll
BY RollIs DEF Roll

LEMMA RollParts ==
  ASSUME NEW p \in Roll
  PROVE  p \in [lines : [Line -> [Column -> Cell]], line : Line, col : Column, top : Line,
                format : Format]
BY DEF Roll

Down(c) == [c EXCEPT !.y = @ + 1, !.x = 0]

NextDown(p) == [p EXCEPT !.line = @ + 1, !.col = 0]

LEMMA NewlineShown ==
  ASSUME NEW c \in View, c.y < page_rows, NEW p \in Roll, OnPaper(c, p), p.line < LineBound
  PROVE  Shown(scroll_if_below(Down(c)), RollUp(NextDown(p)), p.line)
<1>1. PICK d1 : d1 = [c EXCEPT !.y = c.y + 1]
  OBVIOUS
<1>2. PICK d : d = [d1 EXCEPT !.x = 0]
  OBVIOUS
<1>3. /\ c.display \in Display /\ c.format \in Format /\ c.x \in Column /\ c.x \in Int
      /\ c.y \in 0 .. page_rows
  BY ColumnNumber DEF View
<1>4. d = [display |-> c.display, x |-> 0, y |-> c.y + 1, format |-> c.format]
  <2>1. c \in [display : Display, x : Int, y : Int, format : Format]
    BY ColumnNumber DEF View
  <2> QED
    BY <1>1, <1>2, <1>3, <2>1, YThenX
<1>5. d \in View
  <2>1. c.y + 1 \in 0 .. page_rows /\ 0 \in Column
    BY <1>3, PageIs
  <2> QED
    BY <1>3, <1>4, <2>1 DEF View
<1>6. PICK q1 : q1 = [p EXCEPT !.line = p.line + 1]
  OBVIOUS
<1>7. PICK q : q = [q1 EXCEPT !.col = 0]
  OBVIOUS
<1>8. q = [lines |-> p.lines, line |-> p.line + 1, col |-> 0, top |-> p.top, format |-> p.format]
  <2>1. q1 = [lines |-> p.lines, line |-> p.line + 1, col |-> p.col, top |-> p.top,
              format |-> p.format]
    BY <1>6, RollParts
  <2> QED
    BY <1>7, <2>1
<1>9. /\ c.x = p.col /\ c.y = p.line - p.top /\ c.format = p.format
      /\ Shows(c.display.buffer, p)
  BY DEF OnPaper
<1>10. p.line \in Int /\ p.top \in Int /\ p.line + 1 \in Line /\ 0 \in Column
  <2>1. p.line \in Line
    BY RollIs
  <2> QED
    BY <2>1, RollIs, LineIs, PageIs
<1>11. q \in Roll
  <2>1. p.top <= p.line + 1 /\ p.line + 1 <= p.top + page_rows /\ p.format \in Format
    BY <1>3, <1>9, <1>10, RollIs, PageIs
  <2> QED
    BY <1>8, <1>10, <2>1, UntouchedRoll
<1>12. OnPaper(d, q)
  <2>1. Shows(d.display.buffer, q)
    BY <1>4, <1>8, <1>9 DEF Shows
  <2>2. d.y = q.line - q.top
    BY <1>3, <1>4, <1>8, <1>9, <1>10
  <2> QED
    BY <1>4, <1>8, <1>9, <2>1, <2>2 DEF OnPaper
<1>13. /\ scroll_if_below(d) \in View /\ RollUp(q) \in Roll
       /\ OnPaper(scroll_if_below(d), RollUp(q)) /\ RollUp(q).line = q.line
  BY <1>5, <1>11, <1>12, ScrolledView, RolledUp
<1>14. RollUp(q).line <= p.line + 1
  BY <1>8, <1>10, <1>13
<1>15. Shown(scroll_if_below(d), RollUp(q), p.line)
  BY <1>13, <1>14 DEF Shown
<1> QED
  BY <1>1, <1>2, <1>6, <1>7, <1>15 DEF Down, NextDown

LEMMA ReturnShown ==
  ASSUME NEW c \in View, c.y < page_rows, NEW p \in Roll, OnPaper(c, p)
  PROVE  Shown([c EXCEPT !.x = 0], [p EXCEPT !.col = 0], p.line)
<1>1. PICK d : d = [c EXCEPT !.x = 0]
  OBVIOUS
<1>2. PICK q : q = [p EXCEPT !.col = 0]
  OBVIOUS
<1>3. d = [display |-> c.display, x |-> 0, y |-> c.y, format |-> c.format]
  BY <1>1 DEF View
<1>4. d \in View
  BY <1>3, PageIs DEF View
<1>5. q = [lines |-> p.lines, line |-> p.line, col |-> 0, top |-> p.top, format |-> p.format]
  BY <1>2, RollParts
<1>6. q \in Roll
  BY <1>5, RollIs, PageIs, UntouchedRoll
<1>7. OnPaper(d, q)
  BY <1>3, <1>5 DEF OnPaper, Shows
<1>8. q.line <= p.line + 1
  BY <1>5, RollIs
<1> QED
  BY <1>1, <1>2, <1>4, <1>6, <1>7, <1>8 DEF Shown

LEMMA ColourShown ==
  ASSUME NEW c \in View, c.y < page_rows, NEW p \in Roll, OnPaper(c, p), NEW f \in Format
  PROVE  Shown([c EXCEPT !.format = f], [p EXCEPT !.format = f], p.line)
<1>1. PICK d : d = [c EXCEPT !.format = f]
  OBVIOUS
<1>2. PICK q : q = [p EXCEPT !.format = f]
  OBVIOUS
<1>3. d = [display |-> c.display, x |-> c.x, y |-> c.y, format |-> f]
  BY <1>1 DEF View
<1>4. d \in View
  BY <1>3 DEF View
<1>5. q = [lines |-> p.lines, line |-> p.line, col |-> p.col, top |-> p.top, format |-> f]
  BY <1>2, RollParts
<1>6. q \in Roll
  BY <1>5, RollIs, UntouchedRoll
<1>7. OnPaper(d, q)
  BY <1>3, <1>5 DEF OnPaper, Shows
<1>8. q.line <= p.line + 1
  BY <1>5, RollIs
<1> QED
  BY <1>1, <1>2, <1>4, <1>6, <1>7, <1>8 DEF Shown

LEMMA BackspaceShown ==
  ASSUME NEW c \in View, c.y < page_rows, NEW p \in Roll, OnPaper(c, p),
         c.x > 0 \/ c.display.sync
  PROVE  Shown(backspace(c), Erase(p, Before(p)), p.line)
<1> DEFINE above == IF p.line = p.top THEN p.line ELSE p.line - 1
           row   == IF c.y = 0 THEN 0 ELSE c.y - 1
<1>1. /\ c.display \in Display /\ c.format \in Format /\ c.x \in Column /\ c.x \in Int
      /\ c.y \in 0 .. page_rows /\ c.y \in Row
  <2>1. c.y \in 0 .. page_rows /\ c.x \in Column /\ c.display \in Display /\ c.format \in Format
    BY DEF View
  <2> QED
    BY <2>1, ColumnNumber, RowOf
<1>2. /\ c.x = p.col /\ c.y = p.line - p.top /\ c.format = p.format
      /\ Shows(c.display.buffer, p)
  BY DEF OnPaper
<1>3. p.line \in Int /\ p.top \in Int /\ p.line = p.top + c.y
  BY <1>1, <1>2, RollIs
<1>4. row \in Row /\ above = p.top + row /\ above <= p.line /\ row \in Int
  BY <1>1, <1>3, PageIs
<1>5. PICK b \in View :
        /\ b = BackTo(c) /\ backspace(c) = inplace_cwrite(b, "SP") /\ b.y < page_rows
        /\ b.display = c.display /\ b.format = c.format
        /\ c.x > 0 => b.x = c.x - 1 /\ b.y = c.y
        /\ c.x = 0 => b.y = row /\ b.x = EndOf(c.display.screen[row])
  BY BackspaceIs
<1>6. PICK l, u : Before(p) = <<l, u>>
  BY DEF Before
<1> HIDE DEF row, above
<1>7. /\ l \in Line /\ u \in Column /\ u = b.x /\ l = p.top + b.y /\ b.y \in Row
      /\ l <= p.line
  <2>1. CASE c.x > 0
    <3>1. l = p.line /\ u = p.col - 1
      BY <1>2, <1>6, <2>1 DEF Before
    <3> QED
      BY <1>1, <1>2, <1>3, <1>5, <2>1, <3>1, ColumnNumber, RollIs
  <2>2. CASE ~(c.x > 0)
    <3>1. l = above /\ u = EndOf(p.lines[above])
      BY <1>2, <1>6, <2>2 DEF Before, above
    <3>2. above \in Line
      BY <1>4, PlaceOnRoll
    <3>3. p.lines[above] \in [Column -> Cell]
      BY <3>2, RollIs
    <3>4. c.display.screen = c.display.buffer /\ c.display.buffer[row] \in [Column -> Cell]
      BY <1>1, <1>4, <2>2 DEF Display, Picture
    <3>5. \A t \in Column : Blank(c.display.buffer[row][t]) <=> Blank(p.lines[above][t])
      BY <1>2, <1>4 DEF Shows
    <3>6. EndOf(c.display.buffer[row]) = EndOf(p.lines[above])
      BY <3>3, <3>4, <3>5, EndIsTheSame
    <3>7. EndOf(p.lines[above]) \in Column
      BY <3>3, EndIsColumn
    <3>8. c.x = 0
      BY <1>1, <2>2, ColumnNumber
    <3> QED
      BY <1>4, <1>5, <3>1, <3>2, <3>4, <3>6, <3>7, <3>8
  <2> QED
    BY <2>1, <2>2
<1> DEFINE cell  == VGAChar("SP", p.format)
           lines == [p.lines EXCEPT ![l][u] = cell]
<1>8. "SP" \in Byte \cup {"SP"}
  OBVIOUS
<1>9. PICK e : /\ CharAt(e, c.display, cell, u, b.y)
               /\ backspace(c) = [display |-> e, x |-> u, y |-> b.y, format |-> c.format]
               /\ backspace(c) \in View
  BY <1>2, <1>5, <1>7, <1>8, CharWritten
<1>10. cell \in Cell
  BY <1>1, <1>2, <1>8, CharIsCell
<1> HIDE DEF cell
<1>11. l <= p.top + page_rows - 1 /\ l \in Int /\ p.top <= l /\ page_rows \in Int
  <2>1. b.y \in Int /\ 0 <= b.y /\ b.y <= page_rows - 1 /\ page_rows \in Int
    BY <1>7, RowNumber
  <2> QED
    BY <1>3, <1>7, <2>1
<1>12. WrittenAt(lines, p, cell, l, u)
  BY <1>7, <1>10, <1>11, RollWritten
<1>13. Erase(p, Before(p))
         = [lines |-> lines, line |-> l, col |-> u, top |-> p.top, format |-> p.format]
  <2>1. PICK q1 : q1 = [p EXCEPT !.lines = lines]
    OBVIOUS
  <2>2. q1 = [lines |-> lines, line |-> p.line, col |-> p.col, top |-> p.top,
              format |-> p.format]
    BY <2>1, RollParts
  <2>3. PICK q2 : q2 = [q1 EXCEPT !.line = l]
    OBVIOUS
  <2>4. q2 = [lines |-> lines, line |-> l, col |-> p.col, top |-> p.top, format |-> p.format]
    BY <2>2, <2>3
  <2>5. Erase(p, <<l, u>>) = [q2 EXCEPT !.col = u]
    BY <2>1, <2>3, RollParts DEF Erase, cell
  <2> QED
    BY <1>6, <2>4, <2>5
<1> HIDE DEF lines
<1>14. \A w \in Row, t \in Column : Same(e.buffer[w][t], lines[p.top + w][t])
  BY <1>1, <1>2, <1>7, <1>9, <1>12, CellShown
<1>15. Erase(p, Before(p)) \in Roll
  <2>1. l <= p.top + page_rows
    BY <1>3, <1>11
  <2> QED
    BY <1>7, <1>11, <1>12, <1>13, <2>1, RollIs, MakesRoll
<1>16. Shows(e.buffer, Erase(p, Before(p)))
  BY <1>13, <1>14 DEF Shows, Same
<1>17. b.y = l - p.top
  <2>1. b.y \in Int
    BY <1>7, RowNumber
  <2> QED
    BY <1>3, <1>7, <2>1
<1>18. OnPaper(backspace(c), Erase(p, Before(p)))
  BY <1>2, <1>9, <1>13, <1>16, <1>17 DEF OnPaper
<1>19. Erase(p, Before(p)).line <= p.line + 1
  BY <1>3, <1>7, <1>11, <1>13
<1> QED
  BY <1>9, <1>15, <1>18, <1>19 DEF Shown

\* The bytes of an item, and the item they are of.
LEMMA BytesAre ==
  ASSUME NEW item \in Writable
  PROVE  /\ Bytes(item) \in Seq(Byte) /\ Len(Bytes(item)) \in {1, 4}
         /\ item[1] \in {"print", "newline", "return", "backspace", "colour"}
         /\ item[1] = "print" => item[2] \in Letters /\ Bytes(item) = <<item[2]>>
         /\ item[1] = "newline" => Bytes(item) = <<"NL">>
         /\ item[1] = "return" => Bytes(item) = <<"CR">>
         /\ item[1] = "backspace" => Bytes(item) = <<"BS">>
         /\ item[1] = "colour" =>
              /\ item[2] \in {default_format, "red"}
              /\ Bytes(item) = <<"ESC", "[", IF item[2] = "red" THEN "31" ELSE "0", "m">>
<1>1. CASE item \in {"print"} \X Letters
  <2>1. item[1] = "print" /\ item[2] \in Letters
    BY <1>1
  <2>2. Bytes(item) = <<item[2]>>
    BY <2>1 DEF Bytes
  <2> QED
    BY <2>1, <2>2 DEF Byte
<1>2. CASE item \in {"colour"} \X {default_format, "red"}
  <2>1. item[1] = "colour" /\ item[2] \in {default_format, "red"}
    BY <1>2
  <2>2. Bytes(item) = <<"ESC", "[", IF item[2] = "red" THEN "31" ELSE "0", "m">>
    BY <2>1 DEF Bytes
  <2> QED
    BY <2>1, <2>2 DEF Byte
<1>3. CASE item = <<"newline">>
  <2>1. item[1] = "newline"
    BY <1>3
  <2>2. Bytes(item) = <<"NL">>
    BY <2>1 DEF Bytes
  <2> QED
    BY <2>1, <2>2 DEF Byte
<1>4. CASE item = <<"return">>
  <2>1. item[1] = "return"
    BY <1>4
  <2>2. Bytes(item) = <<"CR">>
    BY <2>1 DEF Bytes
  <2> QED
    BY <2>1, <2>2 DEF Byte
<1>5. CASE item = <<"backspace">>
  <2>1. item[1] = "backspace"
    BY <1>5
  <2>2. Bytes(item) = <<"BS">>
    BY <2>1 DEF Bytes
  <2> QED
    BY <2>1, <2>2 DEF Byte
<1> QED
  BY <1>1, <1>2, <1>3, <1>4, <1>5 DEF Writable

LEMMA RoundShown ==
  ASSUME NEW c \in View, NEW p \in Roll, OnPaper(c, p), p.line < LineBound,
         NEW item \in Writable, item[1] # "colour",
         NEW d, d = scroll_if_below(c), NEW byte, byte = Bytes(item)[1],
         byte = "BS" /\ d.x = 0 => d.display.sync
  PROVE  Shown(Round(d, byte), Write(p, item), p.line)
<1>1. PICK q : q = RollUp(p)
  OBVIOUS
<1>2. /\ d \in View /\ d.y < page_rows /\ q \in Roll /\ OnPaper(d, q) /\ q.line = p.line
  BY <1>1, ScrolledView, RolledUp
<1>3. q.line < LineBound
  BY <1>2
<1>4. CASE item[1] = "print"
  <2>1. item[2] \in Letters /\ byte = item[2]
    BY <1>4, BytesAre
  <2>2. byte \notin {"NL", "CR", "BS"}
    BY <2>1, ConsoleAssumption
  <2>3. Round(d, byte) = cwrite(d, byte)
    BY <2>2 DEF Round
  <2>4. Write(p, item) = Put(q, item[2])
    BY <1>1, <1>4 DEF Write
  <2> QED
    BY <1>2, <1>3, <2>1, <2>3, <2>4, PrintShown
<1>5. CASE item[1] = "newline"
  <2>1. byte = "NL"
    BY <1>5, BytesAre
  <2>2. Round(d, byte) = scroll_if_below(Down(d))
    BY <2>1 DEF Round, Down
  <2>3. Write(p, item) = RollUp(NextDown(q))
    BY <1>1, <1>5 DEF Write, NextDown
  <2>4. Shown(scroll_if_below(Down(d)), RollUp(NextDown(q)), q.line)
    BY <1>2, <1>3, NewlineShown
  <2> QED
    BY <1>2, <2>2, <2>3, <2>4
<1>6. CASE item[1] = "return"
  <2>1. byte = "CR"
    BY <1>6, BytesAre
  <2>2. Round(d, byte) = [d EXCEPT !.x = 0]
    BY <2>1 DEF Round
  <2>3. Write(p, item) = [q EXCEPT !.col = 0]
    BY <1>1, <1>6 DEF Write
  <2>4. Shown([d EXCEPT !.x = 0], [q EXCEPT !.col = 0], q.line)
    BY <1>2, ReturnShown
  <2> QED
    BY <1>2, <2>2, <2>3, <2>4
<1>7. CASE item[1] = "backspace"
  <2>1. byte = "BS"
    BY <1>7, BytesAre
  <2>2. Round(d, byte) = backspace(d)
    BY <2>1 DEF Round
  <2>3. Write(p, item) = Erase(q, Before(q))
    BY <1>1, <1>7 DEF Write
  <2>4. d.x > 0 \/ d.display.sync
    <3>1. d.x \in Column
      BY <1>2 DEF View
    <3> QED
      BY <2>1, <3>1, ColumnNumber
  <2> QED
    BY <1>2, <2>2, <2>3, <2>4, BackspaceShown
<1> QED
  BY <1>4, <1>5, <1>6, <1>7, BytesAre

LEMMA EscapeShown ==
  ASSUME NEW c \in View, NEW p \in Roll, OnPaper(c, p),
         NEW item \in Writable, item[1] = "colour", NEW d, d = scroll_if_below(c)
  PROVE  Shown([d EXCEPT !.format = item[2]], Write(p, item), p.line)
<1>1. PICK q : q = RollUp(p)
  OBVIOUS
<1>2. /\ d \in View /\ d.y < page_rows /\ q \in Roll /\ OnPaper(d, q) /\ q.line = p.line
  BY <1>1, ScrolledView, RolledUp
<1>3. item[2] \in Format
  BY BytesAre, ConsoleAssumption
<1>4. Write(p, item) = [q EXCEPT !.format = item[2]]
  BY <1>1 DEF Write
<1>5. Shown([d EXCEPT !.format = item[2]], [q EXCEPT !.format = item[2]], q.line)
  BY <1>2, <1>3, ColourShown
<1> QED
  BY <1>2, <1>4, <1>5

-----------------------------------------------------------------------------
(***************************************************************************)
(* The items that wait in the buffer b from index from on and before       *)
(* index to: item j is behind at[j - 1], and sheets[j] is the roll when it *)
(* has been written.                                                       *)
(***************************************************************************)
Queued(b, from, to, n, items, at, sheets) ==
  /\ n \in Nat
  /\ items \in [1 .. n -> Writable]
  /\ at \in [0 .. n -> Nat] /\ at[0] = from /\ at[n] = to
  /\ \A j \in 1 .. n :
       /\ at[j] = at[j - 1] + Len(Bytes(items[j]))
       /\ \A l \in 1 .. Len(Bytes(items[j])) : b[at[j - 1] + l - 1] = Bytes(items[j])[l]
       /\ sheets[j] = Write(sheets[j - 1], items[j])

\* Every item that is left needs at least one byte.
Rising(at, n, to) == \A j \in 0 .. n : at[j] + (n - j) <= to

LEMMA ItemsHaveBytes ==
  ASSUME NEW b, NEW from, NEW to, NEW n, NEW items, NEW at, NEW sheets,
         Queued(b, from, to, n, items, at, sheets)
  PROVE  Rising(at, n, to)
<1>0. n \in Nat /\ at \in [0 .. n -> Nat] /\ at[n] = to
  BY DEF Queued
<1>1. \A j \in 1 .. n : at[j - 1] + 1 <= at[j]
  <2> TAKE j \in 1 .. n
  <2>1. items[j] \in Writable /\ at[j] = at[j - 1] + Len(Bytes(items[j]))
    BY DEF Queued
  <2>2. PICK len : len = Len(Bytes(items[j]))
    OBVIOUS
  <2>3. len \in {1, 4}
    BY <2>1, <2>2, BytesAre
  <2>4. at[j] = at[j - 1] + len
    BY <2>1, <2>2
  <2>5. j - 1 \in 0 .. n
    BY <1>0
  <2>6. at[j - 1] \in Nat
    BY <1>0, <2>5
  <2> QED
    BY <2>3, <2>4, <2>6
<1> DEFINE T == {i \in Nat : i <= n => at[n - i] + i <= to}
<1>2. 0 \in T
  BY <1>0
<1>3. ASSUME NEW i \in T PROVE i + 1 \in T
  <2>1. CASE i + 1 <= n
    <3>1. n - i \in 1 .. n /\ (n - i) - 1 = n - (i + 1) /\ n - (i + 1) \in 0 .. n /\ n - i \in 0 .. n
      BY <1>0, <2>1
    <3>2. at[n - (i + 1)] + 1 <= at[n - i]
      BY <1>1, <3>1
    <3>3. at[n - i] + i <= to
      BY <1>0, <2>1
    <3>4. at[n - (i + 1)] \in Nat /\ at[n - i] \in Nat /\ to \in Nat
      BY <1>0, <3>1
    <3>5. at[n - (i + 1)] + (i + 1) <= to
      BY <3>2, <3>3, <3>4
    <3> QED
      BY <3>5
  <2>2. CASE ~(i + 1 <= n)
    BY <2>2
  <2> QED
    BY <2>1, <2>2
<1>4. T = Nat
  <2>1. T \in SUBSET Nat
    OBVIOUS
  <2> HIDE DEF T
  <2> QED
    BY <1>2, <1>3, <2>1, AllNumbers
<1>5. ASSUME NEW j \in 0 .. n PROVE at[j] + (n - j) <= to
  <2>1. n - j \in Nat /\ n - j <= n /\ n - (n - j) = j
    BY <1>0
  <2>2. n - j \in T
    BY <1>4, <2>1
  <2>3. at[n - (n - j)] + (n - j) <= to
    BY <2>1, <2>2
  <2> QED
    BY <2>1, <2>3
<1> QED
  BY <1>5 DEF Rising

LEMMA NothingQueued ==
  ASSUME NEW b, NEW from \in Nat, NEW items, NEW sheets
  PROVE  Queued(b, from, from, 0, [j \in 1 .. 0 |-> items], [j \in 0 .. 0 |-> from], sheets)
<1>1. \A j \in 1 .. 0 : FALSE
  OBVIOUS
<1> QED
  BY <1>1 DEF Queued

\* The first item is taken.
LEMMA QueuedTail ==
  ASSUME NEW b, NEW from, NEW to, NEW n, NEW items, NEW at, NEW sheets,
         Queued(b, from, to, n, items, at, sheets), n # 0
  PROVE  Queued(b, at[1], to, n - 1, [j \in 1 .. n - 1 |-> items[j + 1]],
                [j \in 0 .. n - 1 |-> at[j + 1]], [j \in 0 .. n - 1 |-> sheets[j + 1]])
<1> DEFINE items2  == [j \in 1 .. n - 1 |-> items[j + 1]]
           at2     == [j \in 0 .. n - 1 |-> at[j + 1]]
           sheets2 == [j \in 0 .. n - 1 |-> sheets[j + 1]]
<1>1. /\ n \in Nat /\ items \in [1 .. n -> Writable] /\ at \in [0 .. n -> Nat] /\ at[n] = to
      /\ \A j \in 1 .. n :
           /\ at[j] = at[j - 1] + Len(Bytes(items[j]))
           /\ \A l \in 1 .. Len(Bytes(items[j])) : b[at[j - 1] + l - 1] = Bytes(items[j])[l]
           /\ sheets[j] = Write(sheets[j - 1], items[j])
  BY DEF Queued
<1>2. n - 1 \in Nat
  BY <1>1
<1>3. items2 \in [1 .. n - 1 -> Writable] /\ at2 \in [0 .. n - 1 -> Nat]
  BY <1>1, <1>2
<1>4. at2[0] = at[1] /\ at2[n - 1] = to
  BY <1>1, <1>2
<1>5. ASSUME NEW j \in 1 .. n - 1
      PROVE  /\ at2[j] = at2[j - 1] + Len(Bytes(items2[j]))
             /\ \A l \in 1 .. Len(Bytes(items2[j])) : b[at2[j - 1] + l - 1] = Bytes(items2[j])[l]
             /\ sheets2[j] = Write(sheets2[j - 1], items2[j])
  <2>1. j + 1 \in 1 .. n /\ (j + 1) - 1 = j /\ j - 1 \in 0 .. n - 1 /\ j \in 0 .. n - 1
        /\ (j - 1) + 1 = j
    BY <1>1
  <2>2. /\ at2[j] = at[j + 1] /\ at2[j - 1] = at[j] /\ items2[j] = items[j + 1]
        /\ sheets2[j] = sheets[j + 1] /\ sheets2[j - 1] = sheets[j]
    BY <2>1
  <2>3. /\ at[j + 1] = at[j] + Len(Bytes(items[j + 1]))
        /\ \A l \in 1 .. Len(Bytes(items[j + 1])) :
             b[at[j] + l - 1] = Bytes(items[j + 1])[l]
        /\ sheets[j + 1] = Write(sheets[j], items[j + 1])
    BY <1>1, <2>1
  <2> HIDE DEF items2, at2, sheets2
  <2> QED
    BY <2>2, <2>3
<1> HIDE DEF items2, at2, sheets2
<1>6. Queued(b, at[1], to, n - 1, items2, at2, sheets2)
  BY <1>2, <1>3, <1>4, <1>5 DEF Queued
<1> QED
  BY <1>6 DEF items2, at2, sheets2

\* Nothing behind the items is part of the queue.
LEMMA QueuedElsewhere ==
  ASSUME NEW b, NEW from, NEW to, NEW n, NEW items, NEW at, NEW sheets,
         Queued(b, from, to, n, items, at, sheets),
         NEW b2, \A i \in Nat : i < to => b2[i] = b[i]
  PROVE  Queued(b2, from, to, n, items, at, sheets)
<1>1. ASSUME NEW j \in 1 .. n, NEW l \in 1 .. Len(Bytes(items[j]))
      PROVE  b2[at[j - 1] + l - 1] = Bytes(items[j])[l]
  <2>1. /\ n \in Nat /\ items[j] \in Writable /\ at[j - 1] \in Nat /\ at[j] \in Nat /\ to \in Nat
        /\ at[j] = at[j - 1] + Len(Bytes(items[j]))
        /\ b[at[j - 1] + l - 1] = Bytes(items[j])[l]
    <3>1. /\ n \in Nat /\ items \in [1 .. n -> Writable] /\ at \in [0 .. n -> Nat] /\ at[n] = to
          /\ at[j] = at[j - 1] + Len(Bytes(items[j]))
          /\ b[at[j - 1] + l - 1] = Bytes(items[j])[l]
      BY DEF Queued
    <3>2. j - 1 \in 0 .. n /\ j \in 0 .. n /\ n \in 0 .. n
      BY <3>1
    <3> QED
      BY <3>1, <3>2
  <2>2. Len(Bytes(items[j])) \in {1, 4}
    BY <2>1, BytesAre
  <2>3. at[j] + (n - j) <= to
    <3>1. Rising(at, n, to)
      BY ItemsHaveBytes
    <3>2. j \in 0 .. n
      BY <2>1
    <3> QED
      BY <3>1, <3>2 DEF Rising
  <2>4. at[j - 1] + l - 1 \in Nat /\ at[j - 1] + l - 1 < to
    <3>1. PICK len : len = Len(Bytes(items[j]))
      OBVIOUS
    <3>2. len \in {1, 4} /\ l \in 1 .. len /\ at[j] = at[j - 1] + len
      BY <2>1, <2>2, <3>1
    <3>3. at[j] <= to
      BY <2>1, <2>3
    <3>4. l \in Nat /\ 1 <= l /\ l <= len /\ len \in Nat
      BY <3>2
    <3>5. at[j - 1] + l <= to
      BY <2>1, <3>2, <3>3, <3>4
    <3>6. at[j - 1] \in Nat /\ to \in Nat
      BY <2>1
    <3>7. \A h, i, e \in Nat : 1 <= i /\ h + i <= e => h + i - 1 \in Nat /\ h + i - 1 < e
      OBVIOUS
    <3> QED
      BY <3>4, <3>5, <3>6, <3>7
  <2> QED
    BY <2>1, <2>4
<1> QED
  BY <1>1 DEF Queued

\* One more item behind the others.
LEMMA QueuedOne ==
  ASSUME NEW b, NEW from, NEW to, NEW n, NEW items, NEW at, NEW sheets,
         Queued(b, from, to, n, items, at, sheets),
         NEW item \in Writable,
         \A l \in 1 .. Len(Bytes(item)) : b[to + l - 1] = Bytes(item)[l]
  PROVE  \E items2, at2, sheets2 :
           /\ Queued(b, from, to + Len(Bytes(item)), n + 1, items2, at2, sheets2)
           /\ sheets2[0] = sheets[0] /\ sheets2[n + 1] = Write(sheets[n], item)
<1> DEFINE items2  == [j \in 1 .. n + 1 |-> IF j = n + 1 THEN item ELSE items[j]]
           at2     == [j \in 0 .. n + 1 |-> IF j = n + 1 THEN to + Len(Bytes(item)) ELSE at[j]]
           sheets2 == [j \in 0 .. n + 1 |-> IF j = n + 1 THEN Write(sheets[n], item) ELSE sheets[j]]
<1>1. /\ n \in Nat /\ items \in [1 .. n -> Writable]
      /\ at \in [0 .. n -> Nat] /\ at[0] = from /\ at[n] = to
      /\ \A j \in 1 .. n :
           /\ at[j] = at[j - 1] + Len(Bytes(items[j]))
           /\ \A l \in 1 .. Len(Bytes(items[j])) : b[at[j - 1] + l - 1] = Bytes(items[j])[l]
           /\ sheets[j] = Write(sheets[j - 1], items[j])
  BY DEF Queued
<1>2. Len(Bytes(item)) \in {1, 4} /\ to \in Nat
  BY <1>1, BytesAre
<1>3. items2 \in [1 .. n + 1 -> Writable] /\ at2 \in [0 .. n + 1 -> Nat]
  <2>1. \A j \in 1 .. n + 1 : j = n + 1 \/ j \in 1 .. n
    BY <1>1
  <2>2. \A j \in 0 .. n + 1 : j = n + 1 \/ j \in 0 .. n
    BY <1>1
  <2>3. to + Len(Bytes(item)) \in Nat
    BY <1>2
  <2> QED
    BY <1>1, <2>1, <2>2, <2>3
<1>4. at2[0] = from /\ at2[n + 1] = to + Len(Bytes(item)) /\ n + 1 \in Nat
  BY <1>1
<1>5. sheets2[0] = sheets[0] /\ sheets2[n + 1] = Write(sheets[n], item)
  BY <1>1
<1>6. ASSUME NEW j \in 1 .. n + 1
      PROVE  /\ at2[j] = at2[j - 1] + Len(Bytes(items2[j]))
             /\ \A l \in 1 .. Len(Bytes(items2[j])) : b[at2[j - 1] + l - 1] = Bytes(items2[j])[l]
             /\ sheets2[j] = Write(sheets2[j - 1], items2[j])
  <2>1. CASE j = n + 1
    <3>1. j - 1 = n /\ n \in 0 .. n + 1 /\ n # n + 1
      BY <1>1, <2>1
    <3>2. /\ at2[j] = to + Len(Bytes(item)) /\ at2[j - 1] = to /\ items2[j] = item
          /\ sheets2[j] = Write(sheets[n], item) /\ sheets2[j - 1] = sheets[n]
      BY <1>1, <2>1, <3>1
    <3> HIDE DEF items2, at2, sheets2
    <3> QED
      BY <3>2
  <2>2. CASE j # n + 1
    <3>1. j \in 1 .. n /\ j - 1 \in 0 .. n + 1 /\ j \in 0 .. n + 1 /\ j - 1 # n + 1
      BY <1>1, <2>2
    <3>2. /\ at2[j] = at[j] /\ at2[j - 1] = at[j - 1] /\ items2[j] = items[j]
          /\ sheets2[j] = sheets[j] /\ sheets2[j - 1] = sheets[j - 1]
      BY <2>2, <3>1
    <3> HIDE DEF items2, at2, sheets2
    <3> QED
      BY <1>1, <3>1, <3>2, SMTT(30)
  <2> QED
    BY <2>1, <2>2
<1> HIDE DEF items2, at2, sheets2
<1>7. Queued(b, from, to + Len(Bytes(item)), n + 1, items2, at2, sheets2)
  BY <1>3, <1>4, <1>6 DEF Queued
<1> QED
  BY <1>5, <1>7

-----------------------------------------------------------------------------
(***************************************************************************)
(* A text: what it does to the roll, and the bytes it is written with.     *)
(***************************************************************************)
Series(f, p, text) ==
  f[0] = p /\ \A j \in 1 .. Len(text) : f[j] = Write(f[j - 1], text[j])

LEMMA WrittenOneByOne ==
  ASSUME NEW p, NEW text \in Seq(Writable)
  PROVE  \E f : Series(f, p, text) /\ WriteAll(p, text) = f[Len(text)]
<1> DEFINE Steps(f, m) == f = [j \in 0 .. m |-> IF j = 0 THEN p ELSE Write(f[j - 1], text[j])]
           T == {m \in Nat : \E f : Steps(f, m)}
<1>0. Len(text) \in Nat
  OBVIOUS
<1>1. 0 \in T
  <2> DEFINE f == [j \in 0 .. 0 |-> p]
  <2>1. \A j \in 0 .. 0 : j = 0
    OBVIOUS
  <2>2. Steps(f, 0)
    BY <2>1
  <2> QED
    BY <2>2
<1>2. ASSUME NEW m \in T PROVE m + 1 \in T
  <2>1. PICK f : Steps(f, m)
    OBVIOUS
  <2>2. m \in Nat
    OBVIOUS
  <2> DEFINE g == [j \in 0 .. m + 1 |-> IF j = m + 1 THEN Write(f[m], text[m + 1]) ELSE f[j]]
  <2>3. ASSUME NEW j \in 0 .. m + 1
        PROVE  g[j] = IF j = 0 THEN p ELSE Write(g[j - 1], text[j])
    <3>1. CASE j = m + 1
      <4>1. j # 0 /\ j - 1 = m /\ m \in 0 .. m + 1 /\ m # m + 1
        BY <2>2, <3>1
      <4>2. g[j] = Write(f[m], text[j]) /\ g[m] = f[m]
        BY <3>1, <4>1
      <4> HIDE DEF g
      <4> QED
        BY <4>1, <4>2
    <3>2. CASE j # m + 1 /\ j # 0
      <4>1. j \in 0 .. m /\ j - 1 \in 0 .. m + 1 /\ j - 1 # m + 1
        BY <2>2, <3>2
      <4>2. g[j] = f[j] /\ g[j - 1] = f[j - 1]
        BY <3>2, <4>1
      <4>3. f[j] = Write(f[j - 1], text[j])
        <5> HIDE DEF g
        <5> QED
          BY <2>1, <3>2, <4>1
      <4> HIDE DEF g
      <4> QED
        BY <3>2, <4>2, <4>3
    <3>3. CASE j = 0
      <4>1. j \in 0 .. m /\ j # m + 1
        BY <2>2, <3>3
      <4>2. g[j] = f[j]
        BY <4>1
      <4>3. f[j] = p
        BY <2>1, <3>3, <4>1
      <4> QED
        BY <3>3, <4>2, <4>3
    <3> QED
      BY <3>1, <3>2, <3>3
  <2>4. g = [j \in 0 .. m + 1 |-> g[j]]
    OBVIOUS
  <2> HIDE DEF g
  <2>5. Steps(g, m + 1)
    BY <2>3, <2>4
  <2> HIDE DEF Steps
  <2> QED
    BY <2>2, <2>5
<1>3. T = Nat
  <2>1. T \in SUBSET Nat
    OBVIOUS
  <2> HIDE DEF T
  <2> QED
    BY <1>1, <1>2, <2>1, AllNumbers
<1> DEFINE after == CHOOSE f : Steps(f, Len(text))
<1>4. Steps(after, Len(text))
  BY <1>0, <1>3
<1>5. WriteAll(p, text) = after[Len(text)]
  BY DEF WriteAll
<1>6. after = [j \in 0 .. Len(text) |-> IF j = 0 THEN p ELSE Write(after[j - 1], text[j])]
  BY <1>4
<1> HIDE DEF after
<1>7. Series(after, p, text)
  BY <1>0, <1>6 DEF Series
<1> QED
  BY <1>5, <1>7

Spelled(flat, text) ==
  flat[0] = <<>> /\ \A j \in 1 .. Len(text) : flat[j] = flat[j - 1] \o Bytes(text[j])

LEMMA SpelledOneByOne ==
  ASSUME NEW text \in Seq(Writable)
  PROVE  \E flat : /\ Spelled(flat, text)
                   /\ FlattenSeq([k1 \in DOMAIN text |-> Bytes(text[k1])]) = flat[Len(text)]
<1> DEFINE seqs == [k1 \in DOMAIN text |-> Bytes(text[k1])]
           Steps(f, m) == f = [j \in 1 .. m |-> IF j = 1 THEN seqs[j] ELSE f[j - 1] \o seqs[j]]
           T == {m \in Nat : \E f : Steps(f, m)}
<1>0. Len(text) \in Nat /\ DOMAIN text = 1 .. Len(text)
  OBVIOUS
<1>s. seqs \in Seq(Seq(Byte)) /\ Len(seqs) = Len(text)
      /\ \A j \in 1 .. Len(text) : seqs[j] = Bytes(text[j]) /\ seqs[j] \in Seq(Byte)
  <2>1. \A j \in 1 .. Len(text) : seqs[j] = Bytes(text[j]) /\ Bytes(text[j]) \in Seq(Byte)
    BY <1>0, BytesAre
  <2>2. seqs = [k1 \in 1 .. Len(text) |-> Bytes(text[k1])]
    BY <1>0
  <2> QED
    BY <1>0, <2>1, <2>2
<1> HIDE DEF seqs
<1>1. 0 \in T
  <2> DEFINE f == [j \in 1 .. 0 |-> <<>>]
  <2>1. \A j \in 1 .. 0 : FALSE
    OBVIOUS
  <2>2. Steps(f, 0)
    BY <2>1
  <2> QED
    BY <2>2
<1>2. ASSUME NEW m \in T PROVE m + 1 \in T
  <2>1. PICK f : Steps(f, m)
    OBVIOUS
  <2>2. m \in Nat
    OBVIOUS
  <2> DEFINE last == IF m = 0 THEN seqs[1] ELSE f[m] \o seqs[m + 1]
             g == [j \in 1 .. m + 1 |-> IF j = m + 1 THEN last ELSE f[j]]
  <2>3. ASSUME NEW j \in 1 .. m + 1
        PROVE  g[j] = IF j = 1 THEN seqs[j] ELSE g[j - 1] \o seqs[j]
    <3>1. CASE j = m + 1 /\ m # 0
      <4>1. j # 1 /\ j - 1 = m /\ m \in 1 .. m + 1 /\ m # m + 1
        BY <2>2, <3>1
      <4>2. g[j] = f[m] \o seqs[j] /\ g[m] = f[m]
        BY <3>1, <4>1
      <4> HIDE DEF g
      <4> QED
        BY <4>1, <4>2
    <3>2. CASE j # m + 1 /\ j # 1
      <4>1. j \in 1 .. m /\ j - 1 \in 1 .. m + 1 /\ j - 1 # m + 1
        BY <2>2, <3>2
      <4>2. g[j] = f[j] /\ g[j - 1] = f[j - 1]
        BY <3>2, <4>1
      <4>3. f[j] = f[j - 1] \o seqs[j]
        <5> HIDE DEF g
        <5> QED
          BY <2>1, <3>2, <4>1
      <4> HIDE DEF g
      <4> QED
        BY <3>2, <4>2, <4>3
    <3>3. CASE j = 1 /\ j # m + 1
      <4>1. j \in 1 .. m
        BY <2>2, <3>3
      <4>2. g[j] = f[j]
        BY <3>3
      <4>3. f[j] = seqs[j]
        BY <2>1, <3>3, <4>1
      <4> QED
        BY <3>3, <4>2, <4>3
    <3>4. CASE j = m + 1 /\ m = 0
      <4>1. j = 1
        BY <2>2, <3>4
      <4>2. g[j] = seqs[1]
        BY <3>4
      <4> HIDE DEF g
      <4> QED
        BY <4>1, <4>2
    <3> QED
      BY <3>1, <3>2, <3>3, <3>4
  <2>4. g = [j \in 1 .. m + 1 |-> g[j]]
    OBVIOUS
  <2> HIDE DEF g
  <2>5. Steps(g, m + 1)
    BY <2>3, <2>4
  <2> HIDE DEF Steps
  <2> QED
    BY <2>2, <2>5
<1>3. T = Nat
  <2> HIDE DEF Steps
  <2>1. T \in SUBSET Nat
    OBVIOUS
  <2> HIDE DEF T
  <2> QED
    BY <1>1, <1>2, <2>1, AllNumbers
<1> DEFINE flatten == CHOOSE f : Steps(f, Len(seqs))
           flat == [j \in 0 .. Len(text) |-> IF j = 0 THEN <<>> ELSE flatten[j]]
<1>4. flatten = [j \in 1 .. Len(text) |-> IF j = 1 THEN seqs[j] ELSE flatten[j - 1] \o seqs[j]]
  <2>1. Len(seqs) \in T /\ Len(seqs) = Len(text)
    BY <1>0, <1>3, <1>s
  <2>2. Steps(flatten, Len(seqs))
    <3> HIDE DEF Steps
    <3> QED
      BY <2>1
  <2>3. Steps(flatten, Len(text))
    <3> HIDE DEF Steps, flatten
    <3> QED
      BY <2>1, <2>2
  <2> HIDE DEF flatten
  <2> QED
    BY <2>3
<1>5. FlattenSeq(seqs) = IF Len(seqs) = 0 THEN seqs ELSE flatten[Len(seqs)]
  BY DEF FlattenSeq
<1> HIDE DEF flatten
<1>6. flat[0] = <<>>
  BY <1>0
<1>7. ASSUME NEW j \in 1 .. Len(text) PROVE flat[j] = flat[j - 1] \o Bytes(text[j])
  <2>1. seqs[j] = Bytes(text[j]) /\ seqs[j] \in Seq(Byte)
    BY <1>s
  <2>2. CASE j = 1
    <3>1. flatten[j] = seqs[j]
      BY <1>4, <2>2
    <3>2. flat[j] = flatten[j] /\ j - 1 = 0
      BY <1>0, <2>2
    <3>3. <<>> \o seqs[j] = seqs[j]
      BY <2>1
    <3> HIDE DEF flat
    <3> QED
      BY <1>6, <2>1, <3>1, <3>2, <3>3
  <2>3. CASE j # 1
    <3>1. j \in 0 .. Len(text) /\ j - 1 \in 0 .. Len(text) /\ j # 0 /\ j - 1 # 0
      BY <1>0, <2>3
    <3>2. flat[j] = flatten[j] /\ flat[j - 1] = flatten[j - 1]
      BY <3>1
    <3>3. flatten[j] = flatten[j - 1] \o seqs[j]
      BY <1>4, <2>3
    <3> HIDE DEF flat
    <3> QED
      BY <2>1, <3>2, <3>3
  <2> QED
    BY <2>2, <2>3
<1>8. FlattenSeq(seqs) = flat[Len(text)]
  <2>1. CASE Len(text) = 0
    <3>1. seqs = <<>>
      BY <1>s, <2>1
    <3> HIDE DEF flat
    <3> QED
      BY <1>5, <1>6, <1>s, <2>1, <3>1
  <2>2. CASE Len(text) # 0
    <3>1. flat[Len(text)] = flatten[Len(text)]
      BY <1>0, <2>2
    <3> HIDE DEF flat
    <3> QED
      BY <1>5, <1>s, <2>2, <3>1
  <2> QED
    BY <2>1, <2>2
<1> HIDE DEF flat
<1>9. Spelled(flat, text)
  BY <1>6, <1>7 DEF Spelled
<1> QED
  BY <1>8, <1>9 DEF seqs

\* How many bytes the first j items have, and that they come first.
Prefix(flat, text, j) ==
  /\ flat[j] \in Seq(Byte) /\ Len(flat[j]) <= Len(flat[Len(text)])
  /\ \A l \in 1 .. Len(flat[j]) : flat[Len(text)][l] = flat[j][l]

LEMMA PrefixesAre ==
  ASSUME NEW text \in Seq(Writable), NEW flat, Spelled(flat, text), NEW j \in 0 .. Len(text)
  PROVE  Prefix(flat, text, j)
<1>0. /\ Len(text) \in Nat /\ flat[0] = <<>>
      /\ \A i \in 1 .. Len(text) : flat[i] = flat[i - 1] \o Bytes(text[i])
  <2>1. Len(text) \in Nat
    OBVIOUS
  <2> QED
    BY <2>1, Zenon DEF Spelled
<1>1. \A i \in 1 .. Len(text) : text[i] \in Writable /\ Bytes(text[i]) \in Seq(Byte)
  BY BytesAre
<1> DEFINE T == {i \in Nat : i <= Len(text) => flat[i] \in Seq(Byte)}
<1>2. T = Nat
  <2>1. 0 \in T
    <3>1. flat[0] = <<>>
      BY <1>0, Zenon
    <3>2. <<>> \in Seq(Byte)
      OBVIOUS
    <3>3. flat[0] \in Seq(Byte)
      BY <3>1, <3>2, Zenon
    <3> QED
      BY <3>3
  <2>2. ASSUME NEW i \in T PROVE i + 1 \in T
    <3>1. CASE i + 1 <= Len(text)
      <4>1. i + 1 \in 1 .. Len(text) /\ (i + 1) - 1 = i /\ flat[i] \in Seq(Byte)
        BY <1>0, <3>1
      <4>2. flat[i + 1] = flat[i] \o Bytes(text[i + 1])
        BY <1>0, <4>1
      <4>3. Bytes(text[i + 1]) \in Seq(Byte)
        BY <1>1, <4>1
      <4>4. flat[i + 1] \in Seq(Byte)
        BY <4>1, <4>2, <4>3
      <4> QED
        BY <4>4
    <3>2. CASE ~(i + 1 <= Len(text))
      BY <3>2
    <3> QED
      BY <3>1, <3>2
  <2>3. T \in SUBSET Nat
    OBVIOUS
  <2> HIDE DEF T
  <2> QED
    BY <2>1, <2>2, <2>3, AllNumbers
<1>3. \A i \in 0 .. Len(text) : flat[i] \in Seq(Byte)
  BY <1>0, <1>2
<1> HIDE DEF T
<1> DEFINE Same2(i) == /\ Len(flat[Len(text) - i]) <= Len(flat[Len(text)])
                       /\ \A l \in 1 .. Len(flat[Len(text) - i]) :
                            flat[Len(text)][l] = flat[Len(text) - i][l]
           U == {i \in Nat : i <= Len(text) => Same2(i)}
<1>4. U = Nat
  <2>1. 0 \in U
    BY <1>0
  <2>2. ASSUME NEW i \in U PROVE i + 1 \in U
    <3>1. CASE i + 1 <= Len(text)
      <4> DEFINE e == Len(text) - i
      <4>1. e \in 1 .. Len(text) /\ e - 1 = Len(text) - (i + 1) /\ e - 1 \in 0 .. Len(text)
            /\ e \in 0 .. Len(text) /\ Same2(i)
        BY <1>0, <3>1
      <4>2. /\ flat[e] = flat[e - 1] \o Bytes(text[e])
            /\ flat[e - 1] \in Seq(Byte) /\ Bytes(text[e]) \in Seq(Byte)
        BY <1>0, <1>1, <1>3, <4>1
      <4>3. ASSUME NEW l \in 1 .. Len(flat[e - 1])
            PROVE  flat[Len(text)][l] = flat[e - 1][l]
        <5> HIDE DEF e
        <5>1. l \in 1 .. Len(flat[e]) /\ flat[e][l] = flat[e - 1][l]
          <6>1. PICK s1 \in Seq(Byte), s2 \in Seq(Byte) :
                  s1 = flat[e - 1] /\ s2 = Bytes(text[e]) /\ flat[e] = s1 \o s2
            BY <4>2
          <6>2. l \in 1 .. Len(s1)
            BY <6>1
          <6>3. l \in 1 .. Len(s1 \o s2) /\ (s1 \o s2)[l] = s1[l]
            BY <6>2
          <6> QED
            BY <6>1, <6>3
        <5>2. flat[Len(text)][l] = flat[e][l]
          BY <4>1, <5>1 DEF e
        <5> QED
          BY <5>1, <5>2
      <4>4. Len(flat[e - 1]) <= Len(flat[Len(text)])
        <5>1. PICK s1 \in Seq(Byte), s2 \in Seq(Byte) :
                s1 = flat[e - 1] /\ s2 = Bytes(text[e]) /\ flat[e] = s1 \o s2
          BY <4>2
        <5>2. Len(s1) <= Len(s1 \o s2) /\ Len(s1) \in Nat /\ Len(s1 \o s2) \in Nat
          OBVIOUS
        <5>3. Len(flat[e]) <= Len(flat[Len(text)])
          BY <4>1
        <5>4. Len(flat[Len(text)]) \in Nat
          BY <1>0, <1>3
        <5>5. \A k1, k2, k3 \in Nat : k1 <= k2 /\ k2 <= k3 => k1 <= k3
          OBVIOUS
        <5> HIDE DEF e
        <5>6. Len(s1) <= Len(s1 \o s2) /\ Len(s1 \o s2) <= Len(flat[Len(text)])
          BY <5>1, <5>2, <5>3
        <5>7. Len(s1) <= Len(flat[Len(text)])
          BY <5>2, <5>4, <5>5, <5>6
        <5> QED
          BY <5>1, <5>7
      <4>5. Same2(i + 1)
        BY <4>1, <4>3, <4>4
      <4> HIDE DEF Same2
      <4> QED
        BY <4>5
    <3>2. CASE ~(i + 1 <= Len(text))
      BY <3>2
    <3> QED
      BY <3>1, <3>2
  <2>3. U \in SUBSET Nat
    OBVIOUS
  <2> HIDE DEF U
  <2> QED
    BY <2>1, <2>2, <2>3, AllNumbers
<1>5. /\ Len(flat[j]) <= Len(flat[Len(text)])
      /\ \A l \in 1 .. Len(flat[j]) : flat[Len(text)][l] = flat[j][l]
  <2>1. Len(text) - j \in Nat /\ Len(text) - j <= Len(text) /\ Len(text) - (Len(text) - j) = j
    BY <1>0
  <2>2. Same2(Len(text) - j)
    BY <1>4, <2>1
  <2> QED
    BY <2>1, <2>2
<1> QED
  BY <1>3, <1>5 DEF Prefix

-----------------------------------------------------------------------------
(***************************************************************************)
(* The promise the console is keeping: c, when it has written what is in b *)
(* between from and to, and then the byte in wait, will show p.  Every     *)
(* item that is left fills at most one more line.                          *)
(***************************************************************************)
KeptBy(c, b, from, to, wait, p, count, n, items, at, sheets) ==
  /\ Queued(b, from, to, n, items, at, sheets)
  /\ sheets[0] \in Roll /\ OnPaper(c, sheets[0])
  /\ sheets[0].line + n + (IF wait = Nothing THEN 0 ELSE 1) <= count
  /\ IF wait = Nothing THEN p = sheets[n]
     ELSE \E item \in Writable : Bytes(item) = <<wait[1]>> /\ p = Write(sheets[n], item)

Kept(c, b, from, to, wait, p, count) ==
  \E n, items, at, sheets : KeptBy(c, b, from, to, wait, p, count, n, items, at, sheets)

LEMMA KeptHow ==
  ASSUME NEW c, NEW b, NEW from, NEW to, NEW wait, NEW p, NEW count,
         Kept(c, b, from, to, wait, p, count)
  PROVE  \E n, items, at, sheets : KeptBy(c, b, from, to, wait, p, count, n, items, at, sheets)
BY Zenon DEF Kept

LEMMA KeptThen ==
  ASSUME NEW c, NEW b, NEW from, NEW to, NEW wait, NEW p, NEW count,
         NEW n, NEW items, NEW at, NEW sheets,
         KeptBy(c, b, from, to, wait, p, count, n, items, at, sheets)
  PROVE  Kept(c, b, from, to, wait, p, count)
BY Zenon DEF Kept

LEMMA KeptAtFirst ==
  ASSUME NEW c, NEW p \in Roll, OnPaper(c, p), NEW count \in Nat, p.line <= count,
         NEW b, NEW from \in Nat
  PROVE  Kept(c, b, from, from, Nothing, p, count)
<1> DEFINE items  == [j \in 1 .. 0 |-> p]
           at     == [j \in 0 .. 0 |-> from]
           sheets == [j \in 0 .. 0 |-> p]
<1>1. Queued(b, from, from, 0, items, at, sheets)
  BY NothingQueued
<1>2. sheets[0] = p
  OBVIOUS
<1>3. p.line + 0 + 0 <= count
  BY RollIs
<1> HIDE DEF items, at, sheets
<1>4. KeptBy(c, b, from, from, Nothing, p, count, 0, items, at, sheets)
  BY <1>1, <1>2, <1>3 DEF KeptBy
<1> QED
  BY <1>4, KeptThen

LEMMA KeptAndOneWaits ==
  ASSUME NEW c, NEW b, NEW from, NEW to, NEW p, NEW count \in Nat,
         Kept(c, b, from, to, Nothing, p, count),
         NEW item \in Writable, NEW byte, Bytes(item) = <<byte>>, NEW then_flush
  PROVE  Kept(c, b, from, to, <<byte, then_flush>>, Write(p, item), count + 1)
<1>1. PICK n, items, at, sheets :
        KeptBy(c, b, from, to, Nothing, p, count, n, items, at, sheets)
  BY KeptHow
<1>2. /\ Queued(b, from, to, n, items, at, sheets)
      /\ sheets[0] \in Roll /\ OnPaper(c, sheets[0])
      /\ sheets[0].line + n + 0 <= count
      /\ p = sheets[n]
  BY <1>1 DEF KeptBy
<1>3. n \in Nat /\ sheets[0].line \in Int
  BY <1>2, RollIs DEF Queued
<1>4. PICK wait : wait = <<byte, then_flush>>
  OBVIOUS
<1>5. wait # Nothing /\ wait[1] = byte
  BY <1>4 DEF Nothing
<1>6. sheets[0].line + n + 1 <= count + 1
  BY <1>2, <1>3
<1>7. KeptBy(c, b, from, to, wait, Write(p, item), count + 1, n, items, at, sheets)
  BY <1>2, <1>5, <1>6 DEF KeptBy
<1> QED
  BY <1>4, <1>7, KeptThen

LEMMA KeptLonger ==
  ASSUME NEW c, NEW b, NEW from, NEW to, NEW p, NEW count \in Nat,
         Kept(c, b, from, to, Nothing, p, count),
         NEW b2, \A i \in Nat : i < to => b2[i] = b[i],
         NEW item \in Writable,
         \A l \in 1 .. Len(Bytes(item)) : b2[to + l - 1] = Bytes(item)[l]
  PROVE  Kept(c, b2, from, to + Len(Bytes(item)), Nothing, Write(p, item), count + 1)
<1>1. PICK n, items, at, sheets :
        KeptBy(c, b, from, to, Nothing, p, count, n, items, at, sheets)
  BY KeptHow
<1>2. /\ Queued(b, from, to, n, items, at, sheets)
      /\ sheets[0] \in Roll /\ OnPaper(c, sheets[0])
      /\ sheets[0].line + n + 0 <= count
      /\ p = sheets[n]
  BY <1>1 DEF KeptBy
<1>3. n \in Nat /\ sheets[0].line \in Int
  BY <1>2, RollIs DEF Queued
<1>4. Queued(b2, from, to, n, items, at, sheets)
  BY <1>2, QueuedElsewhere
<1>5. PICK items2, at2, sheets2 :
        /\ Queued(b2, from, to + Len(Bytes(item)), n + 1, items2, at2, sheets2)
        /\ sheets2[0] = sheets[0] /\ sheets2[n + 1] = Write(sheets[n], item)
  BY <1>4, QueuedOne
<1>6. sheets2[0].line + (n + 1) + 0 <= count + 1
  BY <1>2, <1>3, <1>5
<1>7. KeptBy(c, b2, from, to + Len(Bytes(item)), Nothing, Write(p, item), count + 1,
             n + 1, items2, at2, sheets2)
  BY <1>2, <1>5, <1>6 DEF KeptBy
<1> QED
  BY <1>7, KeptThen

\* A whole text behind what is there.
LEMMA KeptWithText ==
  ASSUME NEW c, NEW b, NEW from, NEW to \in Nat, NEW p, NEW count \in Nat,
         Kept(c, b, from, to, Nothing, p, count),
         NEW b2, \A i \in Nat : i < to => b2[i] = b[i],
         NEW text \in Seq(Writable), NEW bytes,
         bytes = FlattenSeq([k1 \in DOMAIN text |-> Bytes(text[k1])]),
         \A l \in 1 .. Len(bytes) : b2[to + l - 1] = bytes[l]
  PROVE  /\ bytes \in Seq(Byte)
         /\ Kept(c, b2, from, to + Len(bytes), Nothing, WriteAll(p, text), count + Len(text))
<1>0. Len(text) \in Nat /\ 0 \in 0 .. Len(text) /\ Len(text) \in 0 .. Len(text)
  OBVIOUS
<1>1. PICK f : Series(f, p, text) /\ WriteAll(p, text) = f[Len(text)]
  BY WrittenOneByOne
<1>2. PICK flat : Spelled(flat, text) /\ bytes = flat[Len(text)]
  BY SpelledOneByOne
<1>3. \A j \in 0 .. Len(text) : Prefix(flat, text, j)
  BY <1>2, PrefixesAre
<1>4. flat[0] = <<>> /\ f[0] = p
  BY <1>1, <1>2, Zenon DEF Spelled, Series
<1> DEFINE Now(j) == Kept(c, b2, from, to + Len(flat[j]), Nothing, f[j], count + j)
           T == {j \in Nat : j <= Len(text) => Now(j)}
<1>5. 0 \in T
  <2>1. PICK n, items, at, sheets :
          KeptBy(c, b, from, to, Nothing, p, count, n, items, at, sheets)
    BY KeptHow
  <2>2. Queued(b, from, to, n, items, at, sheets)
    BY <2>1 DEF KeptBy
  <2>3. Queued(b2, from, to, n, items, at, sheets)
    BY <2>2, QueuedElsewhere
  <2>4. KeptBy(c, b2, from, to, Nothing, p, count, n, items, at, sheets)
    BY <2>1, <2>3, Zenon DEF KeptBy
  <2>5. Kept(c, b2, from, to, Nothing, p, count)
    BY <2>4, KeptThen
  <2>6. to + Len(<<>>) = to /\ count + 0 = count
    OBVIOUS
  <2>7. Now(0)
    BY <1>4, <2>5, <2>6
  <2> HIDE DEF Now
  <2> QED
    BY <2>7
<1>6. ASSUME NEW j \in T PROVE j + 1 \in T
  <2>1. CASE j + 1 <= Len(text)
    <3>1. j + 1 \in 1 .. Len(text) /\ (j + 1) - 1 = j /\ j \in 0 .. Len(text)
          /\ j + 1 \in 0 .. Len(text) /\ j \in Nat
      BY <1>0, <2>1
    <3>2. Now(j)
      BY <1>0, <2>1
    <3>3. flat[j + 1] = flat[j] \o Bytes(text[j + 1]) /\ f[j + 1] = Write(f[j], text[j + 1])
      <4>1. flat[j + 1] = flat[(j + 1) - 1] \o Bytes(text[j + 1])
        BY <1>2, <3>1, Zenon DEF Spelled
      <4>2. f[j + 1] = Write(f[(j + 1) - 1], text[j + 1])
        BY <1>1, <3>1, Zenon DEF Series
      <4> QED
        BY <3>1, <4>1, <4>2
    <3>4. PICK item \in Writable : item = text[j + 1]
      BY <3>1
    <3>5. Bytes(item) \in Seq(Byte)
      BY BytesAre
    <3>6. PICK s1 \in Seq(Byte), s2 \in Seq(Byte) :
            s1 = flat[j] /\ s2 = Bytes(item) /\ flat[j + 1] = s1 \o s2
      <4>1. flat[j] \in Seq(Byte)
        BY <1>3, <3>1 DEF Prefix
      <4> QED
        BY <3>3, <3>4, <3>5, <4>1
    <3>7. ASSUME NEW l \in 1 .. Len(Bytes(item))
          PROVE  b2[(to + Len(flat[j])) + l - 1] = Bytes(item)[l]
      <4>0. l \in 1 .. Len(s2)
        BY <3>6
      <4>1. /\ Len(s1) + l \in 1 .. Len(s1 \o s2) /\ (s1 \o s2)[Len(s1) + l] = s2[l]
            /\ (to + Len(s1)) + l - 1 = to + (Len(s1) + l) - 1
        <5>1. Len(s1) \in Nat /\ Len(s2) \in Nat /\ Len(s1 \o s2) = Len(s1) + Len(s2)
          OBVIOUS
        <5>2. Len(s1) + l \in 1 .. Len(s1 \o s2)
          BY <4>0, <5>1
        <5>3. (s1 \o s2)[Len(s1) + l] = s2[l]
          BY <4>0, <5>2
        <5>4. (to + Len(s1)) + l - 1 = to + (Len(s1) + l) - 1
          BY <4>0, <5>1
        <5> QED
          BY <5>2, <5>3, <5>4
      <4>2. flat[Len(text)][Len(s1) + l] = s2[l] /\ Len(s1) + l \in 1 .. Len(flat[j + 1])
        <5>1. \A i \in 1 .. Len(flat[j + 1]) : flat[Len(text)][i] = flat[j + 1][i]
          BY <1>3, <3>1 DEF Prefix
        <5> QED
          BY <3>6, <4>1, <5>1
      <4>3. Len(s1) + l \in 1 .. Len(bytes)
        <5>1. Len(flat[j + 1]) <= Len(bytes) /\ bytes \in Seq(Byte) /\ flat[j + 1] \in Seq(Byte)
          BY <1>0, <1>2, <1>3, <3>1 DEF Prefix
        <5> QED
          BY <4>2, <5>1
      <4>4. b2[to + (Len(s1) + l) - 1] = bytes[Len(s1) + l]
        BY <4>3
      <4> QED
        BY <1>2, <3>6, <4>1, <4>2, <4>4
    <3>8. PICK from2, to2, p2, count2 :
            from2 = from /\ to2 = to + Len(flat[j]) /\ p2 = f[j] /\ count2 = count + j
      OBVIOUS
    <3>9. Kept(c, b2, from, to2 + Len(Bytes(item)), Nothing, Write(p2, item), count2 + 1)
      <4>1. count2 \in Nat /\ Kept(c, b2, from, to2, Nothing, p2, count2)
        <5>1. count2 \in Nat
          BY <3>1, <3>8
        <5>2. Kept(c, b2, from, to2, Nothing, p2, count2)
          BY <3>2, <3>8, Zenon
        <5> QED
          BY <5>1, <5>2
      <4>2. \A l \in 1 .. Len(Bytes(item)) : b2[to2 + l - 1] = Bytes(item)[l]
        BY <3>7, <3>8
      <4>3. \A i \in Nat : i < to2 => b2[i] = b2[i]
        OBVIOUS
      <4> QED
        BY <4>1, <4>2, <4>3, KeptLonger
    <3>10. to2 + Len(Bytes(item)) = to + Len(flat[j + 1]) /\ count2 + 1 = count + (j + 1)
      <4>1. Len(s1 \o s2) = Len(s1) + Len(s2) /\ Len(s1) \in Nat /\ Len(s2) \in Nat
        OBVIOUS
      <4> QED
        BY <3>1, <3>6, <3>8, <4>1
    <3>11. Now(j + 1)
      BY <3>3, <3>4, <3>8, <3>9, <3>10
    <3> HIDE DEF Now
    <3> QED
      BY <3>1, <3>11
  <2>2. CASE ~(j + 1 <= Len(text))
    BY <2>2
  <2> QED
    BY <2>1, <2>2
<1>7. T = Nat
  <2> HIDE DEF Now
  <2>1. T \in SUBSET Nat
    OBVIOUS
  <2> HIDE DEF T
  <2> QED
    BY <1>5, <1>6, <2>1, AllNumbers
<1>8. Now(Len(text))
  <2> HIDE DEF Now
  <2> QED
    BY <1>0, <1>7
<1>9. bytes \in Seq(Byte)
  BY <1>0, <1>2, <1>3 DEF Prefix
<1> QED
  BY <1>1, <1>2, <1>8, <1>9

\* The first of the items that are left.
LEMMA FirstOfQueue ==
  ASSUME NEW b, NEW from \in Nat, NEW to \in Nat, NEW n, NEW items, NEW at, NEW sheets,
         Queued(b, from, to, n, items, at, sheets), from < to
  PROVE  /\ n \in Nat /\ n # 0 /\ items[1] \in Writable
         /\ at[1] = from + Len(Bytes(items[1]))
         /\ \A l \in 1 .. Len(Bytes(items[1])) : b[from + l - 1] = Bytes(items[1])[l]
         /\ sheets[1] = Write(sheets[0], items[1])
<1>1. /\ n \in Nat /\ items \in [1 .. n -> Writable] /\ at[0] = from /\ at[n] = to
      /\ \A j \in 1 .. n :
           /\ at[j] = at[j - 1] + Len(Bytes(items[j]))
           /\ \A l \in 1 .. Len(Bytes(items[j])) : b[at[j - 1] + l - 1] = Bytes(items[j])[l]
           /\ sheets[j] = Write(sheets[j - 1], items[j])
  BY DEF Queued
<1>2. n # 0
  BY <1>1
<1>3. 1 \in 1 .. n /\ 1 - 1 = 0
  BY <1>1, <1>2
<1>4. /\ at[1] = at[1 - 1] + Len(Bytes(items[1]))
      /\ \A l \in 1 .. Len(Bytes(items[1])) : b[at[1 - 1] + l - 1] = Bytes(items[1])[l]
      /\ sheets[1] = Write(sheets[1 - 1], items[1])
  BY <1>1, <1>3, Zenon
<1>5. items[1] \in Writable
  BY <1>1, <1>3
<1> QED
  BY <1>1, <1>2, <1>3, <1>4, <1>5

\* One item less to write.
LEMMA KeptByTail ==
  ASSUME NEW c, NEW b, NEW from, NEW to, NEW wait, NEW p, NEW count \in Int,
         NEW n, NEW items, NEW at, NEW sheets,
         KeptBy(c, b, from, to, wait, p, count, n, items, at, sheets), n # 0,
         sheets[0] \in Roll, NEW d, Shown(d, sheets[1], sheets[0].line)
  PROVE  Kept(d, b, at[1], to, wait, p, count)
<1>1. /\ Queued(b, from, to, n, items, at, sheets)
      /\ sheets[0].line + n + (IF wait = Nothing THEN 0 ELSE 1) <= count
      /\ IF wait = Nothing THEN p = sheets[n]
         ELSE \E item \in Writable : Bytes(item) = <<wait[1]>> /\ p = Write(sheets[n], item)
  BY DEF KeptBy
<1>2. n \in Nat
  BY <1>1 DEF Queued
<1>3. PICK items2, at2, sheets2 :
        /\ items2 = [j \in 1 .. n - 1 |-> items[j + 1]]
        /\ at2 = [j \in 0 .. n - 1 |-> at[j + 1]]
        /\ sheets2 = [j \in 0 .. n - 1 |-> sheets[j + 1]]
  OBVIOUS
<1>4. Queued(b, at[1], to, n - 1, items2, at2, sheets2)
  BY <1>1, <1>3, QueuedTail
<1>5. sheets2[0] = sheets[1] /\ sheets2[n - 1] = sheets[n]
  <2>1. 0 \in 0 .. n - 1 /\ n - 1 \in 0 .. n - 1 /\ (n - 1) + 1 = n /\ 0 + 1 = 1
    BY <1>2
  <2> QED
    BY <1>3, <2>1
<1>6. /\ sheets[1] \in Roll /\ OnPaper(d, sheets[1]) /\ sheets[1].line <= sheets[0].line + 1
  BY DEF Shown
<1>7. sheets2[0].line + (n - 1) + (IF wait = Nothing THEN 0 ELSE 1) <= count
  <2>1. sheets[0].line \in Int /\ sheets[1].line \in Int
    BY <1>6, RollIs
  <2>2. PICK more \in {0, 1} : more = IF wait = Nothing THEN 0 ELSE 1
    OBVIOUS
  <2>3. sheets[0].line + n + more <= count
    BY <1>1, <2>2
  <2>4. sheets[1].line + (n - 1) + more <= count
    BY <1>2, <1>6, <2>1, <2>2, <2>3
  <2> QED
    BY <1>5, <2>2, <2>4
<1>8. KeptBy(d, b, at[1], to, wait, p, count, n - 1, items2, at2, sheets2)
  BY <1>1, <1>4, <1>5, <1>6, <1>7 DEF KeptBy
<1> QED
  BY <1>8, KeptThen

\* One round of the loop, for a byte but ESC.
LEMMA KeptByRound ==
  ASSUME NEW c \in View, NEW b, NEW from \in Nat, NEW to \in Nat, NEW wait, NEW p,
         NEW count \in Int, count <= LineBound,
         Kept(c, b, from, to, wait, p, count), from < to, b[from] # "ESC",
         NEW d, d = scroll_if_below(c), b[from] = "BS" /\ d.x = 0 => d.display.sync
  PROVE  Kept(Round(d, b[from]), b, from + 1, to, wait, p, count)
<1>1. PICK n, items, at, sheets :
        KeptBy(c, b, from, to, wait, p, count, n, items, at, sheets)
  BY KeptHow
<1>2. /\ Queued(b, from, to, n, items, at, sheets)
      /\ sheets[0] \in Roll /\ OnPaper(c, sheets[0])
      /\ sheets[0].line + n + (IF wait = Nothing THEN 0 ELSE 1) <= count
  BY <1>1 DEF KeptBy
<1>3. /\ n \in Nat /\ n # 0 /\ items[1] \in Writable
      /\ at[1] = from + Len(Bytes(items[1]))
      /\ \A l \in 1 .. Len(Bytes(items[1])) : b[from + l - 1] = Bytes(items[1])[l]
      /\ sheets[1] = Write(sheets[0], items[1])
  BY <1>2, FirstOfQueue
<1>4. b[from] = Bytes(items[1])[1]
  <2>1. 1 \in 1 .. Len(Bytes(items[1]))
    <3>1. Len(Bytes(items[1])) \in {1, 4}
      BY <1>3, BytesAre
    <3>2. \A m \in {1, 4} : 1 \in 1 .. m
      OBVIOUS
    <3> QED
      BY <3>1, <3>2, Zenon
  <2>2. from + 1 - 1 = from
    OBVIOUS
  <2> QED
    BY <1>3, <2>1, <2>2
<1>5. items[1][1] # "colour"
  BY <1>3, <1>4, BytesAre
<1>6. Len(Bytes(items[1])) = 1
  BY <1>3, <1>5, BytesAre
<1>7. sheets[0].line < LineBound
  <2>1. sheets[0].line \in Int /\ LineBound \in Int
    BY <1>2, RollIs, PaperAssumption
  <2> QED
    BY <1>2, <1>3, <2>1
<1>8. PICK byte : byte = b[from]
  OBVIOUS
<1>9. Shown(Round(d, byte), sheets[1], sheets[0].line)
  <2>1. Shown(Round(d, byte), Write(sheets[0], items[1]), sheets[0].line)
    BY <1>2, <1>3, <1>4, <1>5, <1>7, <1>8, RoundShown
  <2> QED
    BY <1>3, <2>1
<1>10. Kept(Round(d, byte), b, at[1], to, wait, p, count)
  BY <1>1, <1>2, <1>3, <1>9, KeptByTail
<1> QED
  BY <1>3, <1>6, <1>8, <1>10

\* One round of the loop, for an ESC.
LEMMA KeptByEscape ==
  ASSUME NEW c \in View, NEW b, NEW from \in Nat, NEW to \in Nat, NEW wait, NEW p,
         NEW count \in Int, Kept(c, b, from, to, wait, p, count), from < to, b[from] = "ESC",
         NEW d, d = scroll_if_below(c)
  PROVE  /\ b[from + 1] = "[" /\ b[from + 2] \in Code /\ b[from + 3] = "m"
         /\ Kept([d EXCEPT !.format = process_graphic_escape_sequence(b[from + 2])],
                 b, from + 4, to, wait, p, count)
<1>1. PICK n, items, at, sheets :
        KeptBy(c, b, from, to, wait, p, count, n, items, at, sheets)
  BY KeptHow
<1>2. /\ Queued(b, from, to, n, items, at, sheets)
      /\ sheets[0] \in Roll /\ OnPaper(c, sheets[0])
  BY <1>1 DEF KeptBy
<1>3. /\ n \in Nat /\ n # 0 /\ items[1] \in Writable
      /\ at[1] = from + Len(Bytes(items[1]))
      /\ \A l \in 1 .. Len(Bytes(items[1])) : b[from + l - 1] = Bytes(items[1])[l]
      /\ sheets[1] = Write(sheets[0], items[1])
  BY <1>2, FirstOfQueue
<1>4. b[from] = Bytes(items[1])[1]
  <2>1. 1 \in 1 .. Len(Bytes(items[1]))
    <3>1. Len(Bytes(items[1])) \in {1, 4}
      BY <1>3, BytesAre
    <3>2. \A m \in {1, 4} : 1 \in 1 .. m
      OBVIOUS
    <3> QED
      BY <3>1, <3>2, Zenon
  <2>2. from + 1 - 1 = from
    OBVIOUS
  <2> QED
    BY <1>3, <2>1, <2>2
<1>5. items[1][1] = "colour"
  <2>1. \A ch \in Letters : ch # "ESC"
    BY ConsoleAssumption
  <2> QED
    BY <1>3, <1>4, <2>1, BytesAre
<1>6. PICK code : code = IF items[1][2] = "red" THEN "31" ELSE "0"
  OBVIOUS
<1>7. Bytes(items[1]) = <<"ESC", "[", code, "m">>
  BY <1>3, <1>5, <1>6, BytesAre
<1>8. Len(Bytes(items[1])) = 4
  BY <1>7
<1>9. b[from + 1] = "[" /\ b[from + 2] = code /\ b[from + 3] = "m"
  <2>1. \A l \in 1 .. 4 : b[from + l - 1] = Bytes(items[1])[l]
    BY <1>3, <1>8
  <2>2. 2 \in 1 .. 4 /\ 3 \in 1 .. 4 /\ 4 \in 1 .. 4
    OBVIOUS
  <2>3. from + 2 - 1 = from + 1 /\ from + 3 - 1 = from + 2 /\ from + 4 - 1 = from + 3
    OBVIOUS
  <2>4. /\ b[from + 2 - 1] = Bytes(items[1])[2] /\ b[from + 3 - 1] = Bytes(items[1])[3]
        /\ b[from + 4 - 1] = Bytes(items[1])[4]
    BY <2>1, <2>2, Zenon
  <2> QED
    BY <1>7, <2>3, <2>4
<1>10. code \in Code /\ process_graphic_escape_sequence(code) = items[1][2]
  <2>1. items[1][2] \in {default_format, "red"}
    BY <1>3, <1>5, BytesAre
  <2> QED
    BY <1>6, <2>1 DEF Code, process_graphic_escape_sequence, default_format
<1>11. PICK e : e = [d EXCEPT !.format = items[1][2]]
  OBVIOUS
<1>12. Shown(e, sheets[1], sheets[0].line)
  <2>1. Shown([d EXCEPT !.format = items[1][2]], Write(sheets[0], items[1]), sheets[0].line)
    BY <1>2, <1>3, <1>5, EscapeShown
  <2> QED
    BY <1>3, <1>11, <2>1
<1>13. Kept(e, b, at[1], to, wait, p, count)
  BY <1>1, <1>2, <1>3, <1>12, KeptByTail
<1> QED
  BY <1>3, <1>8, <1>9, <1>10, <1>11, <1>13

\* When the buffer is written, only what waits in cputc is left.
LEMMA KeptToTheEnd ==
  ASSUME NEW c, NEW b, NEW from \in Nat, NEW to \in Nat, NEW wait, NEW p,
         NEW count \in Int, Kept(c, b, from, to, wait, p, count), to <= from
  PROVE  \E sheet \in Roll :
           /\ OnPaper(c, sheet)
           /\ sheet.line + (IF wait = Nothing THEN 0 ELSE 1) <= count
           /\ IF wait = Nothing THEN p = sheet
              ELSE \E item \in Writable : Bytes(item) = <<wait[1]>> /\ p = Write(sheet, item)
<1>1. PICK n, items, at, sheets :
        KeptBy(c, b, from, to, wait, p, count, n, items, at, sheets)
  BY KeptHow
<1>2. /\ Queued(b, from, to, n, items, at, sheets)
      /\ sheets[0] \in Roll /\ OnPaper(c, sheets[0])
      /\ sheets[0].line + n + (IF wait = Nothing THEN 0 ELSE 1) <= count
      /\ IF wait = Nothing THEN p = sheets[n]
         ELSE \E item \in Writable : Bytes(item) = <<wait[1]>> /\ p = Write(sheets[n], item)
  BY <1>1 DEF KeptBy
<1>3. n = 0
  <2>1. n \in Nat /\ at[0] = from
    BY <1>2 DEF Queued
  <2>2. Rising(at, n, to)
    BY <1>2, ItemsHaveBytes
  <2>3. at[0] + (n - 0) <= to
    <3>1. 0 \in 0 .. n
      BY <2>1
    <3> QED
      BY <2>2, <3>1 DEF Rising
  <2> QED
    BY <2>1, <2>3
<1>4. sheets[0].line + (IF wait = Nothing THEN 0 ELSE 1) <= count
  <2>1. sheets[0].line \in Int
    BY <1>2, RollIs
  <2>2. PICK more \in {0, 1} : more = IF wait = Nothing THEN 0 ELSE 1
    OBVIOUS
  <2>3. sheets[0].line + more <= count
    BY <1>2, <1>3, <2>1, <2>2
  <2> QED
    BY <2>2, <2>3
<1> QED
  BY <1>2, <1>3, <1>4

-----------------------------------------------------------------------------
(***************************************************************************)
(* The invariant: the types, a screen that is up to date whenever no one   *)
(* writes, and the promise, unless it is lost.                             *)
(***************************************************************************)
Place == IF pos = Idle THEN 0 ELSE pos

ConsoleTypes ==
  /\ here \in View
  /\ buffer \in [0 .. buffer_size - 1 -> Byte] /\ buffer_pos \in 0 .. buffer_size
  /\ pos = Idle \/ pos \in Nat
  /\ waiting = Nothing \/ waiting \in Byte \X BOOLEAN
  /\ pos = Idle => waiting = Nothing /\ display.sync
  /\ written \in 0 .. WriteBound /\ lost \in BOOLEAN

KeepsPromise == lost \/ Kept(here, buffer, Place, buffer_pos, waiting, paper, written)

ConsoleInv == ConsoleTypes /\ KeepsPromise

LEMMA BoundsAre ==
  /\ buffer_size \in Nat /\ buffer_size >= 1
  /\ WriteBound \in Nat /\ WriteBound <= LineBound
  /\ default_format \in Format /\ "red" \in Format
BY ConsoleAssumption, PaperAssumption

LEMMA ViewParts ==
  ASSUME NEW c \in View
  PROVE  /\ c.display \in Display /\ c.x \in Column /\ c.y \in 0 .. page_rows
         /\ c.format \in Format
         /\ c = [display |-> c.display, x |-> c.x, y |-> c.y, format |-> c.format]
BY DEF View

\* A page of blanks, and an empty sheet.
LEMMA BlankSheet ==
  ASSUME NEW f \in Format, NEW d \in Display, NEW c,
         c = [display |-> d, x |-> 0, y |-> 0, format |-> f],
         \A v \in Row, u \in Column : d.buffer[v][u] = VGAChar("SP", f)
  PROVE  c \in View /\ Sheet(f) \in Roll /\ OnPaper(c, Sheet(f)) /\ Sheet(f).line = 0
<1>1. PICK cell \in Cell : cell = VGAChar("SP", f) /\ Blank(cell)
  BY CharIsCell DEF Blank
<1>2. PICK lines \in [Line -> [Column -> Cell]] : lines = [l \in Line |-> [u \in Column |-> cell]]
  OBVIOUS
<1>3. Sheet(f) = [lines |-> lines, line |-> 0, col |-> 0, top |-> 0, format |-> f]
  BY <1>1, <1>2 DEF Sheet
<1>4. 0 \in Line /\ 0 \in Column /\ 0 \in 0 .. page_rows /\ page_rows - 1 <= LineBound
  BY PaperAssumption, PageAssumption DEF Line, Column
<1>5. c \in View
  BY <1>4 DEF View
<1>6. Sheet(f) \in Roll
  <2>1. \A l \in Line, u \in Column : Blank(lines[l][u])
    BY <1>1, <1>2
  <2>2. 0 <= 0 + page_rows /\ 0 + page_rows - 1 <= LineBound
    BY <1>4, PageAssumption
  <2> QED
    BY <1>3, <1>4, <2>1, <2>2 DEF Roll
<1>7. Shows(d.buffer, Sheet(f))
  <2>1. ASSUME NEW v \in Row, NEW u \in Column PROVE d.buffer[v][u] = Sheet(f).lines[Sheet(f).top + v][u]
    <3>1. v \in Line /\ 0 + v = v
      BY PaperAssumption, PageAssumption DEF Row, Line
    <3>2. lines[v][u] = cell
      BY <1>2, <3>1
    <3> QED
      BY <1>1, <1>3, <3>1, <3>2
  <2> QED
    BY <2>1 DEF Shows
<1>8. OnPaper(c, Sheet(f))
  BY <1>3, <1>7 DEF OnPaper
<1> QED
  BY <1>3, <1>5, <1>6, <1>8

LEMMA ConsoleStarts ==
  ASSUME Init
  PROVE  ConsoleInv
<1>1. PICK cell \in Cell : cell = VGAChar("SP", default_format)
  BY BoundsAre, CharIsCell
<1>2. PICK page \in Picture : page = Filled(cell)
  BY DEF Picture, Filled
<1>3. PICK d : d = [buffer |-> page, screen |-> page, sync |-> TRUE]
  OBVIOUS
<1>4. d \in Display
  BY <1>3 DEF Display
<1>5. PICK c : c = [display |-> d, x |-> 0, y |-> 0, format |-> default_format]
  OBVIOUS
<1>6. \A v \in Row, u \in Column : d.buffer[v][u] = VGAChar("SP", default_format)
  BY <1>1, <1>2, <1>3 DEF Filled
<1>7. /\ c \in View /\ Sheet(default_format) \in Roll /\ OnPaper(c, Sheet(default_format))
      /\ Sheet(default_format).line = 0
  BY <1>4, <1>5, <1>6, BoundsAre, BlankSheet
<1>8. here = c /\ display.sync
  BY <1>1, <1>2, <1>3, <1>5 DEF Init, here
<1>9. ConsoleTypes
  <2>1. buffer \in [0 .. buffer_size - 1 -> Byte]
    BY DEF Init, Byte
  <2>2. buffer_pos \in 0 .. buffer_size /\ written \in 0 .. WriteBound
    BY BoundsAre DEF Init
  <2> QED
    BY <1>7, <1>8, <2>1, <2>2 DEF Init, ConsoleTypes
<1>10. PICK b, p : b = buffer /\ p = paper
  OBVIOUS
<1>11. p = Sheet(default_format) /\ buffer_pos = 0 /\ written = 0 /\ waiting = Nothing /\ pos = Idle
  BY <1>10 DEF Init
<1>12. Kept(c, b, 0, 0, Nothing, p, 0)
  BY <1>7, <1>11, KeptAtFirst
<1>13. Place = 0
  BY <1>11 DEF Place
<1>14. KeepsPromise
  BY <1>8, <1>10, <1>11, <1>12, <1>13 DEF KeepsPromise
<1> QED
  BY <1>9, <1>14 DEF ConsoleInv

LEMMA OneIsWritten ==
  ASSUME NEW p, NEW item \in Writable
  PROVE  WriteAll(p, <<item>>) = Write(p, item)
<1>0. <<item>> \in Seq(Writable)
  OBVIOUS
<1>1. PICK text \in Seq(Writable) : text = <<item>>
  BY <1>0, Zenon
<1>2. Len(text) = 1 /\ text[1] = item /\ 1 \in 1 .. Len(text) /\ 1 - 1 = 0
  BY <1>1
<1>3. PICK f : Series(f, p, text) /\ WriteAll(p, text) = f[Len(text)]
  BY WrittenOneByOne
<1>4. f[0] = p /\ f[1] = Write(f[1 - 1], text[1])
  BY <1>2, <1>3, Zenon DEF Series
<1> QED
  BY <1>1, <1>2, <1>3, <1>4

\* One byte is written, behind the others or into the queue's place in cputc.
LEMMA CputcKeeps ==
  ASSUME ConsoleInv, NEW item \in Writable, NEW byte \in Byte, Bytes(item) = <<byte>>,
         NEW then_flush \in BOOLEAN, Cputc(byte, then_flush), Note(<<item>>)
  PROVE  ConsoleInv'
<1>1. /\ here \in View
      /\ buffer \in [0 .. buffer_size - 1 -> Byte] /\ buffer_pos \in 0 .. buffer_size
      /\ pos = Idle /\ waiting = Nothing /\ display.sync
      /\ written \in 0 .. WriteBound /\ lost \in BOOLEAN
  BY DEF ConsoleInv, ConsoleTypes, Cputc
<1>2. PICK c, b, to, p, count, b2, to2 :
        /\ c = here /\ b = buffer /\ to = buffer_pos /\ p = paper /\ count = written
        /\ b2 = buffer' /\ to2 = buffer_pos'
  OBVIOUS
<1>3. here' = here /\ display' = display /\ lost' = lost
  BY DEF Cputc, cursor, here
<1>4. /\ count + 1 <= WriteBound /\ written' = count + 1 /\ paper' = Write(p, item)
  <2>1. Len(<<item>>) = 1
    OBVIOUS
  <2>2. WriteAll(p, <<item>>) = Write(p, item)
    BY OneIsWritten
  <2> QED
    BY <1>2, <2>1, <2>2 DEF Note
<1>5. count \in Nat /\ to \in Nat /\ count + 1 \in 0 .. WriteBound
  BY <1>1, <1>2, <1>4, BoundsAre
<1>6. Place = 0
  BY <1>1 DEF Place
<1>7. lost \/ Kept(c, b, 0, to, Nothing, p, count)
  BY <1>1, <1>2, <1>6 DEF ConsoleInv, KeepsPromise
<1>8. CASE buffer_pos >= buffer_size
  <2>1. pos' = 0 /\ waiting' = <<byte, then_flush>> /\ b2 = b /\ to2 = to
    BY <1>2, <1>8 DEF Cputc, pending
  <2>2. Place' = 0 /\ pos' \in Nat /\ pos' # Idle
    BY <2>1 DEF Place, Idle
  <2>3. waiting' \in Byte \X BOOLEAN
    BY <2>1
  <2>4. ConsoleTypes'
    BY <1>1, <1>2, <1>3, <1>4, <1>5, <2>1, <2>2, <2>3 DEF ConsoleTypes
  <2>5. lost \/ Kept(c, b, 0, to, <<byte, then_flush>>, Write(p, item), count + 1)
    BY <1>5, <1>7, KeptAndOneWaits
  <2>6. KeepsPromise'
    BY <1>2, <1>3, <1>4, <2>1, <2>2, <2>5 DEF KeepsPromise
  <2> QED
    BY <2>4, <2>6 DEF ConsoleInv
<1>9. CASE ~(buffer_pos >= buffer_size)
  <2>1. /\ b2 = [b EXCEPT ![to] = byte] /\ to2 = to + 1
        /\ pos' = (IF then_flush THEN 0 ELSE Idle) /\ waiting' = Nothing
    BY <1>1, <1>2, <1>9 DEF Cputc
  <2>2. Place' = 0 /\ (pos' = Idle \/ pos' \in Nat)
    BY <2>1 DEF Place
  <2>3. to \in 0 .. buffer_size - 1 /\ to2 \in 0 .. buffer_size
    BY <1>1, <1>2, <1>9, <2>1, BoundsAre
  <2>4. b2 \in [0 .. buffer_size - 1 -> Byte] /\ b2[to] = byte
    BY <1>1, <1>2, <2>1, <2>3
  <2>5. ConsoleTypes'
    BY <1>1, <1>2, <1>3, <1>4, <1>5, <2>1, <2>2, <2>3, <2>4 DEF ConsoleTypes
  <2>6. \A i \in Nat : i < to => b2[i] = b[i]
    <3> TAKE i \in Nat
    <3> HAVE i < to
    <3>1. i \in 0 .. buffer_size - 1 /\ i # to
      BY <2>3, BoundsAre
    <3> QED
      BY <1>1, <1>2, <2>1, <3>1
  <2>7. PICK len : len = Len(Bytes(item))
    OBVIOUS
  <2>8. len = 1
    BY <2>7
  <2>9. \A l \in 1 .. Len(Bytes(item)) : b2[to + l - 1] = Bytes(item)[l]
    <3>1. ASSUME NEW l \in 1 .. Len(Bytes(item)) PROVE b2[to + l - 1] = Bytes(item)[l]
      <4>1. l = 1
        BY <2>7, <2>8
      <4>2. to + l - 1 = to
        BY <1>5, <4>1
      <4> QED
        BY <2>4, <4>1, <4>2
    <3> QED
      BY <3>1
  <2>10. lost \/ Kept(c, b2, 0, to + Len(Bytes(item)), Nothing, Write(p, item), count + 1)
    BY <1>5, <1>7, <2>6, <2>9, KeptLonger
  <2>11. KeepsPromise'
    <3>1. to + Len(Bytes(item)) = to2
      BY <2>1, <2>7, <2>8
    <3> QED
      BY <1>2, <1>3, <1>4, <2>1, <2>2, <2>10, <3>1 DEF KeepsPromise
  <2> QED
    BY <2>5, <2>11 DEF ConsoleInv
<1> QED
  BY <1>8, <1>9

LEMMA KeysKeep ==
  ASSUME ConsoleInv, cputs \/ send_make_key
  PROVE  ConsoleInv'
<1>1. ASSUME NEW ch \in Letters, Cputc(ch, FALSE), Note(<<<<"print", ch>>>>)
      PROVE  ConsoleInv'
  <2>1. PICK item : item = <<"print", ch>>
    OBVIOUS
  <2>2. item \in Writable /\ Bytes(item) = <<ch>> /\ ch \in Byte
    BY <2>1 DEF Writable, Bytes, Byte
  <2>3. FALSE \in BOOLEAN /\ Note(<<item>>)
    BY <1>1, <2>1
  <2> QED
    BY <1>1, <2>2, <2>3, CputcKeeps
<1>2. ASSUME NEW item \in {<<"print", ch>> : ch \in Letters} \cup {<<"newline">>, <<"backspace">>},
             Cputc(Bytes(item)[1], TRUE), Note(<<item>>)
      PROVE  ConsoleInv'
  <2>1. item \in Writable
    BY DEF Writable
  <2>2. PICK byte \in Byte : Bytes(item) = <<byte>>
    <3>1. CASE item = <<"newline">> \/ item = <<"backspace">>
      BY <3>1 DEF Bytes, Byte
    <3>2. CASE item \in {<<"print", ch>> : ch \in Letters}
      BY <3>2 DEF Bytes, Byte
    <3> QED
      BY <3>1, <3>2
  <2>3. Bytes(item)[1] = byte /\ TRUE \in BOOLEAN
    BY <2>2
  <2>4. Cputc(byte, TRUE)
    BY <1>2, <2>3
  <2> QED
    BY <1>2, <2>1, <2>2, <2>3, <2>4, CputcKeeps
<1> QED
  BY <1>1, <1>2 DEF cputs, send_make_key

\* A text is written, if it fits.
LEMMA TextKeeps ==
  ASSUME ConsoleInv, vcprintf
  PROVE  ConsoleInv'
<1>1. /\ here \in View
      /\ buffer \in [0 .. buffer_size - 1 -> Byte] /\ buffer_pos \in 0 .. buffer_size
      /\ pos = Idle /\ waiting = Nothing /\ display.sync
      /\ written \in 0 .. WriteBound /\ lost \in BOOLEAN
  BY DEF ConsoleInv, ConsoleTypes, vcprintf
<1>2. PICK c, b, to, p, count, b2, to2 :
        /\ c = here /\ b = buffer /\ to = buffer_pos /\ p = paper /\ count = written
        /\ b2 = buffer' /\ to2 = buffer_pos'
  OBVIOUS
<1>3. PICK text \in Texts :
        LET bytes == FlattenSeq([k1 \in DOMAIN text |-> Bytes(text[k1])])
            size  == buffer_size - buffer_pos
        IN  /\ buffer' = vsnprintf(bytes, size)
            /\ buffer_pos' = buffer_pos + IF Len(bytes) < size THEN Len(bytes) ELSE size
            /\ lost' = (lost \/ Len(bytes) >= size)
            /\ Note(text)
  BY DEF vcprintf
<1>4. PICK bytes, size : /\ bytes = FlattenSeq([k1 \in DOMAIN text |-> Bytes(text[k1])])
                         /\ size = buffer_size - to
  OBVIOUS
<1>5. /\ buffer' = vsnprintf(bytes, size)
      /\ to2 = to + (IF Len(bytes) < size THEN Len(bytes) ELSE size)
      /\ lost' = (lost \/ Len(bytes) >= size)
      /\ Note(text)
  BY <1>2, <1>3, <1>4
<1>6. text \in Seq(Writable) /\ Len(text) \in Nat
  BY ConsoleAssumption
<1>7. bytes \in Seq(Byte)
  <2>1. PICK flat : Spelled(flat, text) /\ bytes = flat[Len(text)]
    BY <1>4, <1>6, SpelledOneByOne
  <2>2. Len(text) \in 0 .. Len(text)
    BY <1>6
  <2> QED
    BY <1>6, <2>1, <2>2, PrefixesAre DEF Prefix
<1>8. PICK len \in Nat : len = Len(bytes)
  BY <1>7
<1>9. /\ here' = here /\ display' = display /\ waiting' = Nothing /\ pos' = 0
      /\ Place = 0 /\ Place' = 0 /\ pos' \in Nat /\ pos' # Idle
  BY <1>1 DEF vcprintf, cursor, here, Place, Idle
<1>10. /\ written' = count + Len(text) /\ count + Len(text) <= WriteBound
       /\ paper' = WriteAll(p, text)
  BY <1>2, <1>5 DEF Note
<1>11. /\ count \in Nat /\ to \in Nat /\ count + Len(text) \in 0 .. WriteBound
       /\ size \in 0 .. buffer_size /\ to + size = buffer_size /\ to <= buffer_size
  BY <1>1, <1>2, <1>4, <1>6, <1>10, BoundsAre
<1>12. b2 = [j \in 0 .. buffer_size - 1 |->
               IF j < to \/ size = 0 THEN b[j]
               ELSE IF j - to + 1 <= Len(bytes) /\ j - to + 1 < size THEN bytes[j - to + 1]
               ELSE IF j - to + 1 = Len(bytes) + 1 \/ j - to + 1 = size THEN "NUL"
               ELSE b[j]]
  <2>1. DOMAIN buffer = 0 .. buffer_size - 1
    BY <1>1
  <2> QED
    BY <1>2, <1>5, <2>1 DEF vsnprintf
<1>13. b2 \in [0 .. buffer_size - 1 -> Byte]
  <2>1. ASSUME NEW j \in 0 .. buffer_size - 1 PROVE b2[j] \in Byte
    <3>1. b[j] \in Byte /\ "NUL" \in Byte
      BY <1>1, <1>2 DEF Byte
    <3>2. ~(j < to) /\ j - to + 1 <= Len(bytes) => bytes[j - to + 1] \in Byte
      <4>1. ~(j < to) /\ j - to + 1 <= len => j - to + 1 \in 1 .. len
        BY <1>8, <1>11, BoundsAre
      <4> QED
        BY <1>7, <1>8, <4>1
    <3> QED
      BY <1>12, <3>1, <3>2
  <2> QED
    BY <1>12, <2>1
<1>14. to2 \in 0 .. buffer_size
  <2>1. to2 = to + (IF len < size THEN len ELSE size)
    BY <1>5, <1>8
  <2> QED
    BY <1>8, <1>11, <2>1, BoundsAre
<1>15. ConsoleTypes'
  BY <1>1, <1>2, <1>5, <1>9, <1>10, <1>11, <1>13, <1>14 DEF ConsoleTypes
<1>16. ASSUME ~lost' PROVE Kept(c, b2, 0, to2, Nothing, WriteAll(p, text), count + Len(text))
  <2>1. ~lost /\ len < size /\ to2 = to + Len(bytes)
    <3>1. ~lost /\ ~(Len(bytes) >= size)
      BY <1>5, <1>16
    <3>2. len < size
      BY <1>8, <1>11, <3>1
    <3> QED
      BY <1>5, <1>8, <3>1, <3>2
  <2>2. Kept(c, b, 0, to, Nothing, p, count)
    BY <1>1, <1>2, <1>9, <2>1 DEF ConsoleInv, KeepsPromise
  <2>3. \A i \in Nat : i < to => b2[i] = b[i]
    <3> TAKE i \in Nat
    <3> HAVE i < to
    <3>1. i \in 0 .. buffer_size - 1
      BY <1>11, BoundsAre
    <3> QED
      BY <1>12, <3>1
  <2>4. \A l \in 1 .. Len(bytes) : b2[to + l - 1] = bytes[l]
    <3>1. ASSUME NEW l \in 1 .. Len(bytes) PROVE b2[to + l - 1] = bytes[l]
      <4>1. l \in 1 .. len
        BY <1>8
      <4>2. PICK j \in Int : j = to + l - 1
        BY <1>11, <4>1
      <4>3. j \in 0 .. buffer_size - 1 /\ ~(j < to) /\ j - to + 1 = l /\ l <= len /\ l < size
        BY <1>8, <1>11, <2>1, <4>1, <4>2, BoundsAre
      <4>4. b2[j] = bytes[l]
        <5>1. ~(j < to \/ size = 0) /\ j - to + 1 <= Len(bytes) /\ j - to + 1 < size
          BY <1>8, <1>11, <4>3
        <5>2. b2[j] = bytes[j - to + 1]
          BY <1>12, <4>3, <5>1
        <5> QED
          BY <4>3, <5>2
      <4> QED
        BY <4>2, <4>4
    <3> QED
      BY <3>1
  <2>5. Kept(c, b2, 0, to + Len(bytes), Nothing, WriteAll(p, text), count + Len(text))
    BY <1>4, <1>6, <1>11, <2>2, <2>3, <2>4, KeptWithText
  <2> QED
    BY <2>1, <2>5
<1>17. KeepsPromise'
  BY <1>2, <1>9, <1>10, <1>16 DEF KeepsPromise
<1> QED
  BY <1>15, <1>17 DEF ConsoleInv

LEMMA ClearKeeps ==
  ASSUME ConsoleInv, clear_console
  PROVE  ConsoleInv'
<1>1. /\ here \in View
      /\ buffer \in [0 .. buffer_size - 1 -> Byte] /\ buffer_pos = 0
      /\ pos = Idle /\ waiting = Nothing
      /\ written \in 0 .. WriteBound
  BY DEF ConsoleInv, ConsoleTypes, clear_console
<1>2. PICK d0, f : d0 = display /\ f = format
  OBVIOUS
<1>3. d0 \in Display /\ f \in Format
  BY <1>1, <1>2 DEF View, here
<1>4. PICK cell \in Cell : cell = VGAChar("SP", f)
  BY <1>3, CharIsCell
<1>5. PICK e : e = vga_fill(d0, Row, cell)
  OBVIOUS
<1>6. e \in Display /\ \A v \in Row, u \in Column : e.buffer[v][u] = cell
  <2>1. FilledFrom(e, d0, Row, cell)
    BY <1>3, <1>5, FilledUp
  <2> QED
    BY <2>1 DEF FilledFrom
<1>7. PICK d : d = vga_flush(e)
  OBVIOUS
<1>8. d \in Display /\ d.sync /\ \A v \in Row, u \in Column : d.buffer[v][u] = cell
  BY <1>6, <1>7, Flushed
<1>9. PICK c : c = [display |-> d, x |-> 0, y |-> 0, format |-> f]
  OBVIOUS
<1>10. /\ c \in View /\ Sheet(f) \in Roll /\ OnPaper(c, Sheet(f)) /\ Sheet(f).line = 0
  BY <1>3, <1>4, <1>8, <1>9, BlankSheet
<1>11. /\ display' = d /\ here' = c /\ paper' = Sheet(f) /\ written' = written + 1
       /\ written < WriteBound /\ buffer' = buffer /\ buffer_pos' = 0
       /\ pos' = Idle /\ waiting' = Nothing /\ lost' = FALSE
  BY <1>1, <1>2, <1>4, <1>5, <1>7, <1>9 DEF clear_console, pending, here
<1>12. written' \in 0 .. WriteBound /\ written' \in Nat
  BY <1>1, <1>11, BoundsAre
<1>13. ConsoleTypes'
  <2>1. 0 \in 0 .. buffer_size
    BY BoundsAre
  <2>2. display'.sync
    BY <1>8, <1>11
  <2>3. buffer' \in [0 .. buffer_size - 1 -> Byte] /\ here' \in View
    BY <1>1, <1>10, <1>11
  <2> QED
    BY <1>11, <1>12, <2>1, <2>2, <2>3 DEF ConsoleTypes
<1>14. PICK b, count : b = buffer' /\ count = written'
  OBVIOUS
<1>15. Kept(c, b, 0, 0, Nothing, Sheet(f), count)
  BY <1>10, <1>12, <1>14, KeptAtFirst
<1>16. Place' = 0
  BY <1>11 DEF Place
<1>17. KeepsPromise'
  BY <1>11, <1>14, <1>15, <1>16 DEF KeepsPromise
<1> QED
  BY <1>13, <1>17 DEF ConsoleInv

LEMMA EndKeeps ==
  ASSUME ConsoleInv, cflush_end
  PROVE  ConsoleInv'
<1>1. /\ here \in View
      /\ buffer \in [0 .. buffer_size - 1 -> Byte] /\ buffer_pos \in 0 .. buffer_size
      /\ pos \in Nat /\ pos >= buffer_pos
      /\ waiting = Nothing \/ waiting \in Byte \X BOOLEAN
      /\ written \in 0 .. WriteBound /\ lost \in BOOLEAN
  BY DEF ConsoleInv, ConsoleTypes, cflush_end
<1>2. PICK c, d, d0, b, from, to, wait, p, count, b2 :
        /\ c = here /\ d0 = display /\ d = vga_flush(d0) /\ b = buffer /\ from = pos
        /\ to = buffer_pos /\ wait = waiting /\ p = paper /\ count = written /\ b2 = buffer'
  OBVIOUS
<1>3. PICK c2 : c2 = [c EXCEPT !.display = d]
  OBVIOUS
<1>4. d0 = c.display /\ d0 \in Display /\ d \in Display /\ d.sync /\ d.buffer = d0.buffer
  <2>1. d0 = c.display /\ d0 \in Display
    BY <1>1, <1>2 DEF View, here
  <2> QED
    BY <1>2, <2>1, Flushed
<1>5. c2 \in View /\ here' = c2 /\ display' = d
  <2>1. c2 = [display |-> d, x |-> x, y |-> y, format |-> format]
    BY <1>2, <1>3 DEF here
  <2>2. display' = d /\ x' = x /\ y' = y /\ format' = format
    BY <1>2 DEF cflush_end, cursor
  <2>3. c2 \in View
    BY <1>1, <1>2, <1>3, <1>4 DEF View
  <2> QED
    BY <2>1, <2>2, <2>3 DEF here
<1>6. \A sheet : OnPaper(c, sheet) => OnPaper(c2, sheet)
  <2>1. /\ c2.x = c.x /\ c2.y = c.y /\ c2.format = c.format
        /\ c2.display.buffer = c.display.buffer
    BY <1>1, <1>2, <1>3, <1>4 DEF View
  <2> QED
    BY <2>1, Zenon DEF OnPaper
<1>7. /\ lost' = lost /\ paper' = p /\ written' = count /\ waiting' = Nothing
      /\ count \in Nat /\ from \in Nat /\ to \in Nat /\ to <= from
  BY <1>1, <1>2, BoundsAre DEF cflush_end, history
<1>8. ASSUME ~lost
      PROVE  \E sheet \in Roll :
               /\ OnPaper(c2, sheet)
               /\ sheet.line + (IF wait = Nothing THEN 0 ELSE 1) <= count
               /\ IF wait = Nothing THEN p = sheet
                  ELSE \E item \in Writable : Bytes(item) = <<wait[1]>> /\ p = Write(sheet, item)
  <2>1. Place = pos
    BY <1>1 DEF Place, Idle
  <2>2. Kept(c, b, from, to, wait, p, count)
    BY <1>2, <1>8, <2>1 DEF ConsoleInv, KeepsPromise
  <2>3. PICK sheet \in Roll :
               /\ OnPaper(c, sheet)
               /\ sheet.line + (IF wait = Nothing THEN 0 ELSE 1) <= count
               /\ IF wait = Nothing THEN p = sheet
                  ELSE \E item \in Writable : Bytes(item) = <<wait[1]>> /\ p = Write(sheet, item)
    BY <1>7, <2>2, KeptToTheEnd
  <2> QED
    BY <1>6, <2>3
<1>9. CASE waiting = Nothing
  <2>1. pos' = Idle /\ buffer_pos' = 0 /\ buffer' = buffer
    BY <1>9 DEF cflush_end
  <2>2. ConsoleTypes'
    <3>1. 0 \in 0 .. buffer_size
      BY BoundsAre
    <3> QED
      BY <1>1, <1>2, <1>4, <1>5, <1>7, <2>1, <3>1 DEF ConsoleTypes
  <2>3. Place' = 0
    BY <2>1 DEF Place
  <2>4. ASSUME ~lost PROVE Kept(c2, b, 0, 0, Nothing, p, count)
    <3>1. p \in Roll /\ OnPaper(c2, p) /\ p.line + 0 <= count
      BY <1>2, <1>8, <1>9, <2>4
    <3>2. p.line <= count
      BY <3>1, RollIs
    <3> QED
      BY <1>7, <3>1, <3>2, KeptAtFirst
  <2>5. KeepsPromise'
    BY <1>2, <1>5, <1>7, <2>1, <2>3, <2>4 DEF KeepsPromise
  <2> QED
    BY <2>2, <2>5 DEF ConsoleInv
<1>10. CASE waiting # Nothing
  <2>1. /\ b2 = [b EXCEPT ![0] = wait[1]] /\ buffer_pos' = 1
        /\ pos' = IF waiting[2] THEN 0 ELSE Idle
    BY <1>2, <1>10 DEF cflush_end
  <2>2. wait[1] \in Byte
    BY <1>1, <1>2, <1>10
  <2>3. Place' = 0 /\ (pos' = Idle \/ pos' \in Nat)
    BY <2>1 DEF Place
  <2>4. 0 \in 0 .. buffer_size - 1 /\ 1 \in 0 .. buffer_size
    BY BoundsAre
  <2>5. b2 \in [0 .. buffer_size - 1 -> Byte] /\ b2[0] = wait[1]
    BY <1>1, <1>2, <2>1, <2>2, <2>4
  <2>6. ConsoleTypes'
    BY <1>1, <1>2, <1>4, <1>5, <1>7, <2>1, <2>3, <2>4, <2>5 DEF ConsoleTypes
  <2>7. ASSUME ~lost PROVE Kept(c2, b2, 0, 1, Nothing, p, count)
    <3>1. PICK sheet \in Roll :
            /\ OnPaper(c2, sheet) /\ sheet.line + 1 <= count
            /\ \E item \in Writable : Bytes(item) = <<wait[1]>> /\ p = Write(sheet, item)
      BY <1>2, <1>8, <1>10, <2>7
    <3>2. PICK item \in Writable : Bytes(item) = <<wait[1]>> /\ p = Write(sheet, item)
      BY <3>1
    <3>3. PICK before \in Nat : before = count - 1 /\ sheet.line <= before
      <4>1. sheet.line \in Int /\ 0 <= sheet.line
        BY RollIs, LineNumber
      <4> QED
        BY <1>7, <3>1, <4>1
    <3>4. Kept(c2, b2, 0, 0, Nothing, sheet, before)
      BY <3>1, <3>3, KeptAtFirst
    <3>5. PICK len : len = Len(Bytes(item))
      OBVIOUS
    <3>6. len = 1
      BY <3>2, <3>5
    <3>7. ASSUME NEW l \in 1 .. Len(Bytes(item)) PROVE b2[0 + l - 1] = Bytes(item)[l]
      <4>1. l = 1 /\ 0 + l - 1 = 0
        BY <3>5, <3>6
      <4>2. Bytes(item)[1] = wait[1]
        BY <3>2
      <4> QED
        BY <2>5, <4>1, <4>2
    <3>8. \A i \in Nat : i < 0 => b2[i] = b2[i]
      OBVIOUS
    <3>9. Kept(c2, b2, 0, 0 + Len(Bytes(item)), Nothing, Write(sheet, item), before + 1)
      BY <3>4, <3>7, <3>8, KeptLonger
    <3>10. 0 + Len(Bytes(item)) = 1 /\ before + 1 = count
      BY <1>7, <3>3, <3>5, <3>6
    <3> QED
      BY <3>2, <3>9, <3>10
  <2>8. KeepsPromise'
    BY <1>2, <1>5, <1>7, <2>1, <2>3, <2>7 DEF KeepsPromise
  <2> QED
    BY <2>6, <2>8 DEF ConsoleInv
<1> QED
  BY <1>9, <1>10

LEMMA RoundKeeps ==
  ASSUME ConsoleInv, cflush_round
  PROVE  ConsoleInv'
<1>1. /\ here \in View
      /\ buffer \in [0 .. buffer_size - 1 -> Byte] /\ buffer_pos \in 0 .. buffer_size
      /\ pos \in Nat /\ pos < buffer_pos
      /\ waiting = Nothing \/ waiting \in Byte \X BOOLEAN
      /\ written \in 0 .. WriteBound /\ lost \in BOOLEAN
  BY DEF ConsoleInv, ConsoleTypes, cflush_round
<1>2. PICK c, d, b, from, to, wait, p, count :
        /\ c = here /\ d = scroll_if_below(c) /\ b = buffer /\ from = pos
        /\ to = buffer_pos /\ wait = waiting /\ p = paper /\ count = written
  OBVIOUS
<1>3. d \in View /\ d.y < page_rows /\ d.format = format
  <2>1. c.format = format
    BY <1>2 DEF here
  <2> QED
    BY <1>1, <1>2, <2>1, ScrolledView
<1>4. /\ buffer' = b /\ buffer_pos' = to /\ waiting' = wait /\ paper' = p /\ written' = count
      /\ count \in Int /\ count <= LineBound /\ from \in Nat /\ to \in Nat /\ from < to
      /\ b[from] \in Byte
  <2>1. from \in 0 .. buffer_size - 1
    BY <1>1, <1>2, BoundsAre
  <2>2. count \in Int /\ count <= LineBound
    BY <1>1, <1>2, BoundsAre, PaperAssumption
  <2>3. buffer' = b /\ buffer_pos' = to /\ waiting' = wait /\ paper' = p /\ written' = count
    BY <1>2 DEF cflush_round, pending, history
  <2> QED
    BY <1>1, <1>2, <2>1, <2>2, <2>3
<1>5. Place = from
  BY <1>1, <1>2 DEF Place, Idle
<1>6. lost \/ Kept(c, b, from, to, wait, p, count)
  BY <1>2, <1>5 DEF ConsoleInv, KeepsPromise
<1>7. \A e : e \in View /\ Show(e) => here' = e
  BY ViewParts DEF Show, here
<1>8. \A e, after : /\ e \in View /\ Show(e) /\ pos' = after /\ after \in Nat /\ lost' \in BOOLEAN
                    /\ lost' \/ Kept(e, b, after, to, wait, p, count)
                    => ConsoleInv'
  <2> TAKE e, after
  <2> HAVE /\ e \in View /\ Show(e) /\ pos' = after /\ after \in Nat /\ lost' \in BOOLEAN
           /\ lost' \/ Kept(e, b, after, to, wait, p, count)
  <2>1. here' = e
    BY <1>7
  <2>2. pos' # Idle /\ Place' = after
    BY DEF Place, Idle
  <2>3. ConsoleTypes'
    BY <1>1, <1>2, <1>4, <2>1, <2>2 DEF ConsoleTypes
  <2>4. KeepsPromise'
    BY <1>4, <2>1, <2>2 DEF KeepsPromise
  <2> QED
    BY <2>3, <2>4 DEF ConsoleInv
<1>9. CASE buffer[pos] = "ESC"
  <2>1. PICK f, after : f = process_escape_sequence(pos, format)[2]
                        /\ after = process_escape_sequence(pos, format)[1]
    OBVIOUS
  <2>2. PICK e : e = [d EXCEPT !.format = f]
    OBVIOUS
  <2>3. Show(e) /\ pos' = after /\ lost' = lost
    BY <1>2, <1>9, <2>1, <2>2 DEF cflush_round
  <2>4. f \in Format /\ after \in Nat
    <3>1. format \in Format
      BY <1>3 DEF View
    <3>2. \A code : process_graphic_escape_sequence(code) \in Format
      BY BoundsAre DEF process_graphic_escape_sequence
    <3>3. pos + 1 \in Nat /\ pos + 2 \in Nat /\ pos + 4 \in Nat
      BY <1>1
    <3> QED
      BY <2>1, <3>1, <3>2, <3>3 DEF process_escape_sequence
  <2>5. e \in View
    BY <1>3, <2>2, <2>4 DEF View
  <2>6. ASSUME ~lost PROVE Kept(e, b, after, to, wait, p, count)
    <3>1. /\ b[from + 1] = "[" /\ b[from + 2] \in Code /\ b[from + 3] = "m"
          /\ Kept([d EXCEPT !.format = process_graphic_escape_sequence(b[from + 2])],
                  b, from + 4, to, wait, p, count)
      <4>1. /\ c \in View /\ from \in Nat /\ to \in Nat /\ count \in Int /\ from < to
            /\ b[from] = "ESC" /\ d = scroll_if_below(c)
        BY <1>1, <1>2, <1>4, <1>9
      <4>2. Kept(c, b, from, to, wait, p, count)
        BY <1>6, <2>6
      <4> QED
        BY <4>1, <4>2, KeptByEscape, Zenon
    <3>2. f = process_graphic_escape_sequence(b[from + 2]) /\ after = from + 4
      BY <1>2, <2>1, <3>1 DEF process_escape_sequence
    <3> QED
      BY <2>2, <3>1, <3>2
  <2> QED
    BY <1>1, <1>8, <2>3, <2>4, <2>5, <2>6
<1>10. CASE buffer[pos] # "ESC"
  <2>1. PICK e, byte : byte = b[from] /\ e = Round(d, byte)
    OBVIOUS
  <2>2. /\ Show(e) /\ pos' = from + 1
        /\ lost' = (lost \/ (byte = "BS" /\ d.x = 0 /\ ~d.display.sync))
    BY <1>2, <1>10, <2>1 DEF cflush_round
  <2>3. e \in View /\ from + 1 \in Nat /\ lost' \in BOOLEAN
    <3>1. e \in View
      BY <1>3, <1>4, <2>1, RoundView
    <3>2. lost' \in BOOLEAN
      BY <1>1, <2>2, Zenon
    <3> QED
      BY <1>4, <3>1, <3>2
  <2>4. ASSUME ~lost' PROVE Kept(e, b, from + 1, to, wait, p, count)
    <3>1. ~lost /\ (b[from] = "BS" /\ d.x = 0 => d.display.sync)
      BY <2>1, <2>2, <2>4
    <3>2. b[from] # "ESC" /\ Kept(c, b, from, to, wait, p, count)
      BY <1>2, <1>6, <1>10, <3>1
    <3>3. Kept(Round(d, b[from]), b, from + 1, to, wait, p, count)
      BY <1>1, <1>2, <1>4, <3>1, <3>2, KeptByRound
    <3> QED
      BY <2>1, <3>3
  <2> QED
    BY <1>8, <2>2, <2>3, <2>4
<1> QED
  BY <1>9, <1>10

LEMMA StutterKeeps ==
  ASSUME ConsoleInv, UNCHANGED vars
  PROVE  ConsoleInv'
BY DEF ConsoleInv, ConsoleTypes, KeepsPromise, Place, here, vars, pending, cursor, history

\* The types of the console and its promise hold throughout (console.c).
THEOREM ConsoleInvariant == Spec => []ConsoleInv
<1>1. Init => ConsoleInv
  BY ConsoleStarts
<1>2. ConsoleInv /\ [Next]_vars => ConsoleInv'
  BY KeysKeep, TextKeeps, ClearKeeps, RoundKeeps, EndKeeps, StutterKeeps DEF Next, rest
<1> QED
  BY <1>1, <1>2, PTL DEF Spec

\* When nothing waits, the screen shows what was written, in place and
\* colour, and the cursor is where the next character belongs.
THEOREM ScreenAlwaysShowsText == Spec => []ScreenShowsText
<1>1. ConsoleInv => ScreenShowsText
  <2> SUFFICES ASSUME ConsoleInv, pos = Idle, buffer_pos = 0, ~lost
               PROVE  /\ Shows(display.screen, paper)
                      /\ x = paper.col /\ y = paper.line - paper.top
                      /\ format = paper.format
    BY DEF ScreenShowsText
  <2>1. here \in View /\ waiting = Nothing /\ display.sync /\ Place = 0
    BY DEF ConsoleInv, ConsoleTypes, Place
  <2>2. PICK c, b, p, count, d : c = here /\ b = buffer /\ p = paper /\ count = written /\ d = display
    OBVIOUS
  <2>3. Kept(c, b, 0, 0, Nothing, p, count)
    BY <2>1, <2>2 DEF ConsoleInv, KeepsPromise
  <2>4. OnPaper(c, p)
    <3>1. PICK wait : wait = Nothing
      OBVIOUS
    <3>2. Kept(c, b, 0, 0, wait, p, count) /\ count \in Int
      BY <2>2, <2>3, <3>1, BoundsAre DEF ConsoleInv, ConsoleTypes
    <3>3. PICK sheet \in Roll :
            /\ OnPaper(c, sheet)
            /\ sheet.line + (IF wait = Nothing THEN 0 ELSE 1) <= count
            /\ IF wait = Nothing THEN p = sheet
               ELSE \E item \in Writable : Bytes(item) = <<wait[1]>> /\ p = Write(sheet, item)
      BY <3>2, KeptToTheEnd
    <3> QED
      BY <3>1, <3>3
  <2>5. c.display = d /\ c.x = x /\ c.y = y /\ c.format = format
    BY <2>2 DEF here
  <2>6. d.screen = d.buffer
    BY <2>1, <2>2, <2>5 DEF View, Display
  <2> QED
    BY <2>2, <2>4, <2>5, <2>6 DEF OnPaper
<1> QED
  BY <1>1, ConsoleInvariant, PTL

=============================================================================

--------------------------- MODULE Memory_proofs ---------------------------
(***************************************************************************)
(* Proofs about what hands out and fills memory below the page space: the  *)
(* immortal allocator, for every arena and every set of requests that      *)
(* ArenaAssumption admits; memmove, for every size of memory, every pair   *)
(* of regions and every contents; and the boot loader, for an image of     *)
(* every size and a disk of every geometry the loop can meet.              *)
(***************************************************************************)
EXTENDS ImmortalAllocator, MemoryMove, BootLoader, TLAPS

-----------------------------------------------------------------------------
(***************************************************************************)
(* The immortal allocator.                                                 *)
(***************************************************************************)


Calls == [step : {"out", "look", "carve", "popfd", "memzero", "panicked"},
          size : Nat, alignment : Nat \ {0}, zeroed : BOOLEAN, cur : Nat, eflags : BOOLEAN]

Types ==
  /\ current \in ARENA_START .. ARENA_END
  /\ {interrupts_on, started} \subseteq BOOLEAN
  /\ running \in Caller
  /\ call \in [Caller -> Calls]
  /\ blocks \subseteq [start : Nat, size : Nat \ {0}]
  /\ DOMAIN promised \subseteq blocks

\* A call is in progress between its cli and its popfd, or has panicked there.
Critical(c) == call[c].step \in {"look", "carve", "popfd", "panicked"}

(***************************************************************************)
(* Who can be where: a caller between its cli and its popfd is the one     *)
(* that runs, with interrupts off; the handler runs while it is in a call; *)
(* and a call restores the flag its caller may have.                       *)
(***************************************************************************)
OneAtATime ==
  /\ InterruptsStayOff
  /\ running = "handler" => started
  /\ \A c \in Caller : Critical(c) => running = c /\ ~interrupts_on
  /\ call["handler"].step # "out" => running = "handler"
  /\ \A c \in Caller :
       Critical(c) /\ call[c].eflags => started /\ c = "kernel"

\* The request of a call is one of Requests, without the exceptions made for zero.
Asked(c) ==
  \E r \in Requests :
    /\ call[c].size = r.size /\ r.size # 0
    /\ call[c].alignment = IF r.alignment = 0 THEN 1 ELSE r.alignment

\* What a call has read is what is there when it writes.
ReadIsFresh(c) ==
  call[c].step = "carve" =>
    /\ call[c].cur >= current
    /\ call[c].cur + call[c].size <= ARENA_END
    /\ call[c].cur % call[c].alignment = 0

\* The block of a call that has carved it and not handed it to its caller yet.
Carved(c) == call[c].step \in {"popfd", "memzero"}
Mine(c)   == Block(call[c].cur, call[c].size)

(***************************************************************************)
(* The blocks lie one behind the other up to current.                      *)
(***************************************************************************)
Stacked ==
  /\ \A b \in blocks : ARENA_START <= b.start /\ b.start + b.size <= current
  /\ current # ARENA_START => \E b \in blocks : b.start + b.size = current
  /\ \A a, b \in blocks :
       a # b => a.start + a.size <= b.start \/ b.start + b.size <= a.start

OwnersApart ==
  /\ \A c \in Caller : Carved(c) => Mine(c) \in blocks \ DOMAIN promised
  /\ Carved("kernel") /\ Carved("handler") => Mine("kernel") # Mine("handler")

ImmortalInv ==
  /\ Types
  /\ OneAtATime
  /\ \A c \in Caller : call[c].step # "out" => Asked(c)
  /\ \A c \in Caller : ReadIsFresh(c)
  /\ Stacked
  /\ OwnersApart
  /\ ContentsKept

-----------------------------------------------------------------------------
(***************************************************************************)
(* Rounding up gives the least multiple that is not below.                 *)
(***************************************************************************)
LEMMA RoundUpIsLeast ==
  ASSUME NEW address \in Nat, NEW alignment \in Nat \ {0}
  PROVE  LET up == RoundUp(address, alignment)
         IN  /\ up \in Nat
             /\ address <= up /\ up < address + alignment
             /\ up % alignment = 0
             /\ \A a \in Nat : address <= a /\ a % alignment = 0 => up <= a
<1> DEFINE q == (address + (alignment - 1)) \div alignment
<1>1. /\ q \in Nat
      /\ q * alignment <= address + (alignment - 1)
      /\ address + (alignment - 1) < q * alignment + alignment
  BY SMT
<1>2. q * alignment \in Nat /\ (q * alignment) % alignment = 0
  BY <1>1, SMT
<1>3. ASSUME NEW a \in Nat, address <= a, a % alignment = 0
      PROVE  q * alignment <= a
  <2> DEFINE p == a \div alignment
  <2>1. p \in Nat /\ a = p * alignment
    BY <1>3, SMT
  <2>2. p < q => p * alignment + alignment <= q * alignment
    BY <1>1, <2>1, SMT
  <2>3. q <= p => q * alignment <= p * alignment
    BY <1>1, <2>1, SMT
  <2> HIDE DEF p, q
  <2> QED
    BY <1>1, <1>2, <1>3, <2>1, <2>2, <2>3
<1> HIDE DEF q
<1>4. RoundUp(address, alignment) = q * alignment
  BY DEF RoundUp, q
<1> QED
  BY <1>1, <1>2, <1>3, <1>4

(***************************************************************************)
(* What the comparison of malloc_immortal decides: the unsigned difference *)
(* does not wrap where it is looked at.                                    *)
(***************************************************************************)
LEMMA FitsIsRoom ==
  ASSUME NEW cur \in Nat, NEW size \in Nat \ {0}
  PROVE  Fits(cur, size) <=> cur + size <= ARENA_END
<1>1. cur < ARENA_END => (ARENA_END - cur) % ADDRESS_SPACE = ARENA_END - cur
  BY ArenaAssumption, SMT
<1> QED
  BY <1>1, ArenaAssumption DEF Fits

-----------------------------------------------------------------------------

LEMMA InitInv == ImmortalInit => ImmortalInv
<1> SUFFICES ASSUME ImmortalInit PROVE ImmortalInv
  OBVIOUS
<1>1. NoCall \in Calls /\ \A c \in Caller : call[c] = NoCall
  BY ArenaAssumption DEF ImmortalInit, NoCall, Calls, Caller
<1>2. blocks = {} /\ DOMAIN promised = {} /\ current = ARENA_START
  BY DEF ImmortalInit
<1>3. Types
  <2>1. call \in [Caller -> Calls] /\ running \in Caller
    BY <1>1 DEF ImmortalInit, Caller
  <2>2. current \in ARENA_START .. ARENA_END
    BY <1>2, ArenaAssumption
  <2> QED
    BY <1>2, <2>1, <2>2 DEF ImmortalInit, Types
<1>4. \A c \in Caller : call[c].step = "out"
  BY <1>1 DEF NoCall
<1>5. OneAtATime
  BY <1>4 DEF ImmortalInit, OneAtATime, InterruptsStayOff, Critical, Caller
<1>6. \A c \in Caller : ReadIsFresh(c) /\ ~Carved(c)
  BY <1>4 DEF ReadIsFresh, Carved
<1>7. Stacked /\ ContentsKept
  BY <1>2 DEF Stacked, ContentsKept
<1>8. OwnersApart
  BY <1>6 DEF OwnersApart, Caller
<1> QED
  BY <1>3, <1>4, <1>5, <1>6, <1>7, <1>8 DEF ImmortalInv

(***************************************************************************)
(* Every step of a call, of the processor and of an owner keeps the        *)
(* invariant.                                                              *)
(***************************************************************************)
LEMMA NextInv == ImmortalInv /\ [ImmortalNext]_immortal_vars => ImmortalInv'
<1> SUFFICES ASSUME ImmortalInv, [ImmortalNext]_immortal_vars PROVE ImmortalInv'
  OBVIOUS
<1> USE DEF ImmortalInv
<1>1. ASSUME NEW c \in Caller, pushfd_cli(c) PROVE ImmortalInv'
  <2>1. PICK r \in Requests :
          /\ r.size # 0
          /\ call' = [call EXCEPT ![c] =
               [step |-> "look", size |-> r.size, zeroed |-> r.zeroed,
                alignment |-> IF r.alignment = 0 THEN 1 ELSE r.alignment,
                cur |-> ARENA_START, eflags |-> interrupts_on]]
    BY <1>1 DEF pushfd_cli, Begin
  <2>2. /\ At(c, "out") /\ interrupts_on' = FALSE
        /\ UNCHANGED <<current, running, started, blocks, dirty, promised>>
    BY <1>1 DEF pushfd_cli, Begin
  <2>3. /\ call'[c] \in Calls
        /\ call'[c].step = "look" /\ call'[c].eflags = interrupts_on
        /\ \A d \in Caller \ {c} : call'[d] = call[d]
    BY <2>1, ArenaAssumption DEF Types, Calls
  <2>4. Types'
    BY <2>1, <2>2, <2>3 DEF Types
  <2>5. OneAtATime'
    BY <2>2, <2>3 DEF OneAtATime, InterruptsStayOff, Critical, At, Types, Caller, Calls
  <2>6. \A d \in Caller : (call[d].step # "out" => Asked(d))'
    BY <2>1, <2>3 DEF Asked, Types, Caller
  <2>7. \A d \in Caller : ReadIsFresh(d)'
    BY <2>2, <2>3 DEF ReadIsFresh
  <2>8. Stacked' /\ ContentsKept'
    BY <2>2 DEF Stacked, ContentsKept
  <2>9. OwnersApart'
    BY <2>2, <2>3 DEF OwnersApart, Carved, Mine, Caller
  <2> QED
    BY <2>4, <2>5, <2>6, <2>7, <2>8, <2>9
<1>2. ASSUME NEW c \in Caller, look(c) PROVE ImmortalInv'
  <2> DEFINE cur == RoundUp(current, call[c].alignment)
  <2>1. /\ At(c, "look")
        /\ Fits(cur, call[c].size)
        /\ call' = [call EXCEPT ![c].cur = cur, ![c].step = "carve"]
        /\ UNCHANGED <<current, interrupts_on, running, started, blocks, dirty, promised>>
    BY <1>2 DEF look
  <2>2. call[c] \in Calls /\ call[c].size # 0 /\ Asked(c) /\ current \in Nat
    BY <2>1, ArenaAssumption DEF At, Types, Asked
  <2>3. cur \in Nat /\ current <= cur /\ cur % call[c].alignment = 0
    BY <2>2, RoundUpIsLeast DEF Calls
  <2>4. cur + call[c].size <= ARENA_END
    BY <2>1, <2>2, <2>3, FitsIsRoom DEF Calls
  <2> HIDE DEF cur
  <2>5. /\ call'[c] = [call[c] EXCEPT !.cur = cur, !.step = "carve"]
        /\ \A d \in Caller \ {c} : call'[d] = call[d]
    BY <2>1 DEF Types
  <2>6. /\ call'[c] \in Calls
        /\ call'[c].step = "carve" /\ call'[c].cur = cur
        /\ call'[c].size = call[c].size /\ call'[c].alignment = call[c].alignment
        /\ call'[c].eflags = call[c].eflags
    BY <2>2, <2>3, <2>5 DEF Calls
  <2>7. Types'
    BY <2>1, <2>5, <2>6 DEF Types
  <2>8. OneAtATime'
    <3>1. Critical(c) /\ running = c
      BY <2>1 DEF Critical, At
    <3>2. \A d \in Caller \ {c} : Critical(d)' = Critical(d) /\ call'[d] = call[d]
      BY <2>5 DEF Critical
    <3> QED
      BY <3>1, <3>2, <2>1, <2>6 DEF OneAtATime, InterruptsStayOff, Caller
  <2>9. \A d \in Caller : (call[d].step # "out" => Asked(d))'
    <3>1. Asked(c)'
      BY <2>2, <2>6 DEF Asked
    <3>2. \A d \in Caller \ {c} : Asked(d)' <=> Asked(d)
      BY <2>5 DEF Asked
    <3> QED
      BY <3>1, <3>2, <2>5
  <2>10. \A d \in Caller : ReadIsFresh(d)'
    <3>1. ReadIsFresh(c)'
      BY <2>1, <2>3, <2>4, <2>6 DEF ReadIsFresh
    <3> QED
      BY <3>1, <2>1, <2>5 DEF ReadIsFresh
  <2>11. Stacked' /\ ContentsKept'
    BY <2>1 DEF Stacked, ContentsKept
  <2>12. OwnersApart'
    BY <2>1, <2>5, <2>6 DEF OwnersApart, Carved, Mine, Caller
  <2> QED
    BY <2>7, <2>8, <2>9, <2>10, <2>11, <2>12
<1>3. ASSUME NEW c \in Caller, no_memory(c) PROVE ImmortalInv'
  <2>1. /\ At(c, "look")
        /\ call' = [call EXCEPT ![c].step = "panicked"]
        /\ interrupts_on' = FALSE
        /\ UNCHANGED <<current, running, started, blocks, dirty, promised>>
    BY <1>3 DEF no_memory
  <2>2. /\ call'[c] = [call[c] EXCEPT !.step = "panicked"]
        /\ \A d \in Caller \ {c} : call'[d] = call[d]
    BY <2>1 DEF Types
  <2>3. /\ call'[c] \in Calls
        /\ call'[c].step = "panicked"
        /\ call'[c].size = call[c].size /\ call'[c].alignment = call[c].alignment
        /\ call'[c].eflags = call[c].eflags
    BY <2>2 DEF Calls, Types
  <2>4. Types'
    BY <2>1, <2>2, <2>3 DEF Types
  <2>5. OneAtATime'
    BY <2>1, <2>2, <2>3 DEF OneAtATime, InterruptsStayOff, Critical, At, Types, Caller, Calls
  <2>6. \A d \in Caller : (call[d].step # "out" => Asked(d))'
    BY <2>1, <2>2, <2>3 DEF Asked, At
  <2>7. \A d \in Caller : ReadIsFresh(d)'
    BY <2>1, <2>2, <2>3 DEF ReadIsFresh
  <2>8. Stacked' /\ ContentsKept'
    BY <2>1 DEF Stacked, ContentsKept
  <2>9. OwnersApart'
    BY <2>1, <2>2, <2>3 DEF OwnersApart, Carved, Mine, Caller
  <2> QED
    BY <2>4, <2>5, <2>6, <2>7, <2>8, <2>9
<1>4. ASSUME NEW c \in Caller, carve(c) PROVE ImmortalInv'
  <2>1. /\ At(c, "carve")
        /\ current' = call[c].cur + call[c].size
        /\ blocks' = blocks \cup {Mine(c)}
        /\ call' = [call EXCEPT ![c].step = "popfd"]
        /\ UNCHANGED <<interrupts_on, running, started, dirty, promised>>
    BY <1>4 DEF carve, Mine
  <2>2. /\ call'[c] = [call[c] EXCEPT !.step = "popfd"]
        /\ \A d \in Caller \ {c} : call'[d] = call[d]
    BY <2>1 DEF Types
  <2>3. /\ call'[c] \in Calls
        /\ call'[c].step = "popfd"
        /\ call'[c].size = call[c].size /\ call'[c].alignment = call[c].alignment
        /\ call'[c].eflags = call[c].eflags /\ call'[c].cur = call[c].cur
    BY <2>2 DEF Calls, Types
  <2>4. /\ call[c].cur \in Nat /\ call[c].size \in Nat \ {0} /\ Asked(c)
        /\ call[c].cur >= current
        /\ call[c].cur + call[c].size <= ARENA_END
    BY <2>1 DEF Types, Calls, Asked, ReadIsFresh, At
  <2>5. /\ current \in Nat /\ current >= ARENA_START /\ current' > current
        /\ current' \in ARENA_START .. ARENA_END
    BY <2>1, <2>4, ArenaAssumption DEF Types
  <2>6. /\ Mine(c) \in [start : Nat, size : Nat \ {0}]
        /\ Mine(c).start = call[c].cur /\ Mine(c).size = call[c].size
    BY <2>4 DEF Mine, Block
  <2>7. \A b \in blocks : b.start \in Nat /\ b.size \in Nat \ {0} /\ b.start + b.size <= current
    BY DEF Types, Stacked
  <2>8. Mine(c) \notin blocks
    BY <2>4, <2>5, <2>6, <2>7
  <2>9. Types'
    BY <2>1, <2>2, <2>3, <2>5, <2>6 DEF Types
  <2>10. OneAtATime'
    BY <2>1, <2>2, <2>3 DEF OneAtATime, InterruptsStayOff, Critical, At, Types, Caller, Calls
  <2>11. \A d \in Caller : (call[d].step # "out" => Asked(d))'
    BY <2>1, <2>2, <2>3, <2>4 DEF Asked, At
  <2>12. \A d \in Caller : ReadIsFresh(d)'
    BY <2>1, <2>2, <2>3 DEF ReadIsFresh, OneAtATime, Critical, At
  <2>13. Stacked'
    <3>1. \A b \in blocks' : ARENA_START <= b.start /\ b.start + b.size <= current'
      BY <2>1, <2>4, <2>5, <2>6, <2>7, ArenaAssumption DEF Stacked
    <3>2. \E b \in blocks' : b.start + b.size = current'
      BY <2>1, <2>6
    <3>3. \A a, b \in blocks' :
            a # b => a.start + a.size <= b.start \/ b.start + b.size <= a.start
      BY <2>1, <2>4, <2>5, <2>6, <2>7 DEF Stacked
    <3> QED
      BY <3>1, <3>2, <3>3 DEF Stacked
  <2>14. ContentsKept'
    BY <2>1 DEF ContentsKept
  <2>15. OwnersApart'
    <3>1. /\ Mine(c)' = Mine(c) /\ \A d \in Caller \ {c} : Mine(d)' = Mine(d)
          /\ \A d \in Caller \ {c} : Carved(d)' = Carved(d)
      BY <2>2, <2>3 DEF Mine, Carved
    <3>2. Mine(c) \in blocks' \ DOMAIN promised'
      BY <2>1, <2>8 DEF Types
    <3> QED
      BY <3>1, <3>2, <2>1, <2>8 DEF OwnersApart, Caller
  <2> QED
    BY <2>9, <2>10, <2>11, <2>12, <2>13, <2>14, <2>15
\* A block is handed to its caller, at the end of either function.
<1>5. ASSUME NEW c \in Caller, NEW content \in {"nothing", "zeros"},
             Carved(c), running = c, Hand(c, content),
             interrupts_on' \in BOOLEAN, interrupts_on' => started /\ c = "kernel",
             UNCHANGED <<current, running, started, blocks>>,
             content = "zeros" => BytesOf(Mine(c)) \cap dirty' = {},
             \A b \in DOMAIN promised : BytesOf(b) \cap dirty' = BytesOf(b) \cap dirty
      PROVE  ImmortalInv'
  <2>1. /\ call'[c] = NoCall
        /\ \A d \in Caller \ {c} : call'[d] = call[d]
        /\ call' \in [Caller -> Calls]
    BY <1>5, ArenaAssumption DEF Hand, Types, NoCall, Calls
  <2>2. call'[c].step = "out"
    BY <2>1 DEF NoCall
  <2>3. /\ promised' = [b \in DOMAIN promised \cup {Mine(c)} |->
                          IF b \in DOMAIN promised THEN promised[b] ELSE content]
        /\ Mine(c) \in blocks \ DOMAIN promised
    BY <1>5 DEF Hand, Mine, OwnersApart
  <2>4. Types'
    BY <1>5, <2>1, <2>3 DEF Types
  <2>5. OneAtATime'
    <3>1. \A d \in Caller : ~Critical(d)'
      BY <1>5, <2>1, <2>2 DEF OneAtATime, Critical, Carved
    <3> QED
      BY <3>1, <1>5, <2>1, <2>2 DEF OneAtATime, InterruptsStayOff, Caller
  <2>6. \A d \in Caller : (call[d].step # "out" => Asked(d))'
    BY <2>1, <2>2 DEF Asked
  <2>7. \A d \in Caller : ReadIsFresh(d)'
    BY <1>5, <2>1, <2>2 DEF ReadIsFresh
  <2>8. Stacked'
    BY <1>5 DEF Stacked
  <2>9. OwnersApart'
    <3>1. \A d \in Caller \ {c} : Carved(d)' = Carved(d) /\ Mine(d)' = Mine(d)
      BY <2>1 DEF Carved, Mine
    <3>2. ~Carved(c)'
      BY <2>2 DEF Carved
    <3> QED
      BY <3>1, <3>2, <1>5, <2>3 DEF OwnersApart, Caller
  <2>10. ContentsKept'
    BY <1>5, <2>3 DEF ContentsKept
  <2> QED
    BY <2>4, <2>5, <2>6, <2>7, <2>8, <2>9, <2>10
<1>6. ASSUME NEW c \in Caller, popfd(c) PROVE ImmortalInv'
  <2>1. /\ At(c, "popfd")
        /\ interrupts_on' = call[c].eflags
        /\ UNCHANGED <<current, running, started, blocks, dirty>>
    BY <1>6 DEF popfd, End
  <2>2. CASE ~call[c].zeroed /\ Hand(c, "nothing")
    <3>1. /\ running = c /\ Carved(c)
          /\ interrupts_on' => started /\ c = "kernel"
          /\ interrupts_on' \in BOOLEAN
      BY <2>1 DEF OneAtATime, Critical, Carved, At, Types, Calls
    <3> QED
      BY <3>1, <2>1, <2>2, <1>5
  <2>3. CASE call' = [call EXCEPT ![c].step = "memzero"] /\ UNCHANGED promised
    <3>1. /\ call'[c] = [call[c] EXCEPT !.step = "memzero"]
          /\ \A d \in Caller \ {c} : call'[d] = call[d]
      BY <2>3 DEF Types
    <3>2. /\ call'[c] \in Calls
          /\ call'[c].step = "memzero"
          /\ call'[c].size = call[c].size /\ call'[c].alignment = call[c].alignment
          /\ call'[c].eflags = call[c].eflags /\ call'[c].cur = call[c].cur
      BY <3>1 DEF Calls, Types
    <3>3. Types'
      BY <2>1, <2>3, <3>1, <3>2 DEF Types, Calls
    <3>4. OneAtATime'
      <4>1. \A d \in Caller : ~Critical(d)'
        BY <2>1, <3>1, <3>2 DEF OneAtATime, Critical, At
      <4>2. interrupts_on' => started /\ c = "kernel"
        BY <2>1 DEF OneAtATime, Critical, At
      <4>3. running = "handler" => started
        BY DEF OneAtATime
      <4>4. call'["handler"].step # "out" => running = "handler"
        BY <2>1, <3>1 DEF OneAtATime, At, Caller
      <4> QED
        BY <4>1, <4>2, <4>3, <4>4, <2>1 DEF OneAtATime, InterruptsStayOff, At, Caller
    <3>5. \A d \in Caller : (call[d].step # "out" => Asked(d))'
      <4>1. Asked(c)
        BY <2>1 DEF At
      <4>2. Asked(c)'
        BY <4>1, <3>2 DEF Asked
      <4>3. \A d \in Caller \ {c} : Asked(d)' <=> Asked(d)
        BY <3>1 DEF Asked
      <4> QED
        BY <4>2, <4>3, <3>1
    <3>6. \A d \in Caller : ReadIsFresh(d)'
      BY <2>1, <3>1, <3>2 DEF ReadIsFresh
    <3>7. Stacked' /\ ContentsKept'
      BY <2>1, <2>3 DEF Stacked, ContentsKept
    <3>8. OwnersApart'
      BY <2>1, <2>3, <3>1, <3>2 DEF OwnersApart, Carved, Mine, Caller, At
    <3> QED
      BY <3>3, <3>4, <3>5, <3>6, <3>7, <3>8
  <2> QED
    BY <2>2, <2>3, <1>6 DEF popfd, End
<1>7. ASSUME NEW c \in Caller, memzero(c) PROVE ImmortalInv'
  <2>1. /\ At(c, "memzero")
        /\ dirty' = dirty \ BytesOf(Mine(c))
        /\ Hand(c, "zeros")
        /\ UNCHANGED <<current, interrupts_on, running, started, blocks>>
    BY <1>7 DEF memzero, Clear, Mine
  <2>2. running = c /\ Carved(c)
    BY <2>1 DEF At, Carved
  <2>3. ASSUME NEW b \in DOMAIN promised
        PROVE  BytesOf(b) \cap BytesOf(Mine(c)) = {}
    <3>1. b \in blocks /\ Mine(c) \in blocks /\ b # Mine(c)
      BY <2>2 DEF Types, OwnersApart
    <3> QED
      BY <3>1 DEF Stacked, BytesOf, Types
  <2>4. \A b \in DOMAIN promised : BytesOf(b) \cap dirty' = BytesOf(b) \cap dirty
    BY <2>1, <2>3
  <2>5. interrupts_on' \in BOOLEAN /\ (interrupts_on' => started /\ c = "kernel")
    BY <2>1, <2>2 DEF OneAtATime, InterruptsStayOff, Types
  <2>6. BytesOf(Mine(c)) \cap dirty' = {}
    BY <2>1
  <2> QED
    BY <2>1, <2>2, <2>4, <2>5, <2>6, <1>5
\* The steps that leave the calls and their blocks alone.
<1>8. CASE sti \/ interrupt \/ iret
  <2>1. UNCHANGED <<current, call, blocks, dirty, promised>>
    BY <1>8 DEF sti, interrupt, iret
  <2>2. Types'
    BY <1>8, <2>1 DEF sti, interrupt, iret, Types, Caller
  <2>3. OneAtATime'
    BY <1>8 DEF sti, interrupt, iret, OneAtATime, InterruptsStayOff, Critical, At, Caller
  <2>4. \A d \in Caller : (call[d].step # "out" => Asked(d))' /\ ReadIsFresh(d)'
    BY <2>1 DEF Asked, ReadIsFresh
  <2>5. Stacked' /\ ContentsKept' /\ OwnersApart'
    BY <2>1 DEF Stacked, ContentsKept, OwnersApart, Carved, Mine
  <2> QED
    BY <2>2, <2>3, <2>4, <2>5
<1>9. ASSUME NEW block \in DOMAIN promised, store(block) PROVE ImmortalInv'
  <2>1. /\ dirty' = dirty \cup BytesOf(block)
        /\ promised' = [promised EXCEPT ![block] = "stored"]
        /\ UNCHANGED <<current, interrupts_on, running, started, call, blocks>>
    BY <1>9 DEF store
  <2>2. DOMAIN promised' = DOMAIN promised
    BY <2>1
  <2>3. Types'
    BY <2>1, <2>2 DEF Types
  <2>4. OneAtATime'
    BY <2>1 DEF OneAtATime, InterruptsStayOff, Critical
  <2>5. \A d \in Caller : (call[d].step # "out" => Asked(d))' /\ ReadIsFresh(d)'
    BY <2>1 DEF Asked, ReadIsFresh
  <2>6. Stacked' /\ OwnersApart'
    BY <2>1, <2>2 DEF Stacked, OwnersApart, Carved, Mine
  <2>7. ContentsKept'
    <3>1. ASSUME NEW b \in DOMAIN promised, b # block
          PROVE  BytesOf(b) \cap BytesOf(block) = {} /\ promised'[b] = promised[b]
      BY <3>1, <2>1 DEF Types, Stacked, BytesOf
    <3>2. promised'[block] = "stored"
      BY <2>1
    <3> QED
      BY <3>1, <3>2, <2>1, <2>2 DEF ContentsKept
  <2> QED
    BY <2>3, <2>4, <2>5, <2>6, <2>7
<1>10. CASE UNCHANGED immortal_vars
  <2>1. Types' /\ OneAtATime'
    BY <1>10 DEF immortal_vars, Types, OneAtATime, InterruptsStayOff, Critical
  <2>2. \A d \in Caller : (call[d].step # "out" => Asked(d))' /\ ReadIsFresh(d)'
    BY <1>10 DEF immortal_vars, Asked, ReadIsFresh
  <2>3. Stacked' /\ ContentsKept' /\ OwnersApart'
    BY <1>10 DEF immortal_vars, Stacked, ContentsKept, OwnersApart, Carved, Mine
  <2> QED
    BY <2>1, <2>2, <2>3
<1> QED
  BY <1>1, <1>2, <1>3, <1>4, <1>6, <1>7, <1>8, <1>9, <1>10 DEF ImmortalNext, ImmortalStopped

LEMMA ImmortalInvAlways == ImmortalSpec => []ImmortalInv
BY InitInv, NextInv, PTL DEF ImmortalSpec

(***************************************************************************)
(* memmgnt.c 63-70: at no instruction of a call, of the kernel's code      *)
(* before its sti or of a handler are interrupts on.                       *)
(***************************************************************************)
THEOREM InterruptsOffInCalls == ImmortalSpec => []InterruptsStayOff
<1>1. ImmortalInv => InterruptsStayOff
  BY DEF ImmortalInv, OneAtATime
<1> QED
  BY <1>1, ImmortalInvAlways, PTL

(***************************************************************************)
(* memmgnt.c 57-82: the zeros calloc_immortal promised and the bytes an    *)
(* owner stored are still there, though calls of the kernel and of a       *)
(* handler interleave and clear what they take.                            *)
(***************************************************************************)
THEOREM BlocksKeepContents == ImmortalSpec => []ContentsKept
<1>1. ImmortalInv => ContentsKept
  BY DEF ImmortalInv
<1> QED
  BY <1>1, ImmortalInvAlways, PTL

-----------------------------------------------------------------------------

(***************************************************************************)
(* A block that begins behind all others begins at current or above.       *)
(***************************************************************************)
LEMMA BehindIsAbove ==
  ASSUME ImmortalInv, NEW start \in Address, NEW size \in Nat \ {0},
         Arena!Behind(start), Arena!Fits(Block(start, size))
  PROVE  current <= start /\ start + size <= ARENA_END
<1>1. start \in Nat /\ current \in Nat
  BY ArenaAssumption DEF Address, ImmortalInv, Types
<1>2. start + size <= ARENA_END
  <2>1. start + size - 1 \in start .. start + size - 1
    BY <1>1
  <2>2. start + size - 1 \in Address
    BY <2>1 DEF Arena!Fits, Arena!Bytes, Block
  <2> QED
    BY <1>1, <2>2, ArenaAssumption DEF Address
<1>3. CASE current = ARENA_START
  BY <1>2, <1>3, ArenaAssumption DEF Address
<1>4. CASE current # ARENA_START
  <2>1. PICK b \in blocks : b.start + b.size = current
    BY <1>4 DEF ImmortalInv, Stacked
  <2>2. b.start \in Nat /\ b.size \in Nat \ {0} /\ b.start < start
    BY <2>1 DEF ImmortalInv, Types, Arena!Behind
  <2>3. start < current => start \in Arena!Bytes(b) /\ start \in Arena!Bytes(Block(start, size))
    BY <1>1, <2>1, <2>2 DEF Arena!Bytes, Block
  <2> QED
    BY <1>1, <1>2, <2>1, <2>3 DEF Arena!Fits
<1> QED
  BY <1>2, <1>3, <1>4

(***************************************************************************)
(* Each step is one of DisjointBlocks, or changes neither the blocks nor   *)
(* the refusals: malloc_immortal allocates where it writes current, and    *)
(* refuses where it panics.                                                *)
(***************************************************************************)
LEMMA ArenaStep ==
  ImmortalInv /\ [ImmortalNext]_immortal_vars =>
    [Arena!Allocate \/ Arena!Refuse]_<<blocks, refused>>
<1> SUFFICES ASSUME ImmortalInv, [ImmortalNext]_immortal_vars
             PROVE  Arena!Allocate \/ Arena!Refuse \/ UNCHANGED <<blocks, refused>>
  OBVIOUS
<1> USE DEF ImmortalInv
\* A caller that runs has not panicked, and after a panic nobody runs on.
<1>1. ASSUME NEW c \in Caller, running = c, ~Panicked(c)
      PROVE  refused = {}
  BY <1>1 DEF refused, Panicked, OneAtATime, Critical
<1>2. ASSUME NEW c \in Caller, running = c, ~Panicked(c),
             \A d \in Caller \ {c} : call'[d] = call[d],
             ~Panicked(c)'
      PROVE  refused' = refused
  <2>1. \A d \in Caller : ~Panicked(d)
    BY <1>2 DEF Panicked, OneAtATime, Critical
  <2>2. \A d \in Caller : ~Panicked(d)'
    BY <1>2, <2>1 DEF Panicked
  <2> QED
    BY <2>1, <2>2 DEF refused
<1>3. ASSUME NEW c \in Caller,
             Asked(c)
      PROVE  /\ call[c].size \in {r.size : r \in Requests}
             /\ call[c].alignment \in ({r.alignment : r \in Requests} \ {0}) \cup {1}
  BY <1>3 DEF Asked
<1>4. ASSUME NEW c \in Caller, carve(c) PROVE Arena!Allocate
  <2>1. /\ At(c, "carve")
        /\ blocks' = blocks \cup {Mine(c)}
        /\ call' = [call EXCEPT ![c].step = "popfd"]
    BY <1>4 DEF carve, Mine
  <2>2. /\ call[c].cur \in Nat /\ call[c].size \in Nat
        /\ call[c].cur >= current
        /\ call[c].cur + call[c].size <= ARENA_END
        /\ call[c].cur % call[c].alignment = 0
    BY <2>1 DEF Types, Calls, At, ReadIsFresh
  <2>3. Asked(c) /\ call[c].size # 0
    BY <2>1 DEF At, Asked
  <2>4. call[c].cur \in Address /\ BytesOf(Mine(c)) \subseteq Address
    BY <2>2, <2>3, ArenaAssumption DEF Types, Address, BytesOf, Mine, Block
  <2>5. \A b \in blocks : BytesOf(Mine(c)) \cap BytesOf(b) = {}
    BY <2>2, ArenaAssumption DEF Types, Stacked, BytesOf, Mine, Block
  <2>6. Arena!Fits(Mine(c))
    BY <2>4, <2>5 DEF Arena!Fits, Arena!Bytes, BytesOf
  <2>7. refused' = refused
    <3>1. \A d \in Caller \ {c} : call'[d] = call[d]
      BY <2>1 DEF Types
    <3>2. call'[c].step = "popfd"
      BY <2>1 DEF Types, Calls
    <3> QED
      BY <3>1, <3>2, <2>1, <1>2 DEF At, Panicked
  <2> QED
    BY <1>3, <2>1, <2>2, <2>3, <2>4, <2>6, <2>7 DEF Arena!Allocate, Mine, Block
<1>5. ASSUME NEW c \in Caller, no_memory(c) PROVE Arena!Refuse
  <2>1. /\ At(c, "look")
        /\ ~Fits(RoundUp(current, call[c].alignment), call[c].size)
        /\ call' = [call EXCEPT ![c].step = "panicked"]
        /\ blocks' = blocks
    BY <1>5 DEF no_memory
  <2>2. /\ call[c].alignment \in Nat \ {0} /\ call[c].size \in Nat \ {0} /\ Asked(c)
        /\ current \in Nat
    BY <2>1, ArenaAssumption DEF Types, Calls, At, Asked
  <2>3. ASSUME NEW start \in Address, start % call[c].alignment = 0, Arena!Behind(start),
               Arena!Fits(Block(start, call[c].size))
        PROVE  FALSE
    <3>1. start \in Nat /\ current <= start /\ start + call[c].size <= ARENA_END
      BY <2>2, <2>3, BehindIsAbove, ArenaAssumption DEF Address
    <3>2. /\ RoundUp(current, call[c].alignment) \in Nat
          /\ RoundUp(current, call[c].alignment) <= start
      BY <3>1, <2>2, <2>3, RoundUpIsLeast
    <3>3. RoundUp(current, call[c].alignment) + call[c].size <= ARENA_END
      BY <3>1, <3>2, <2>2, ArenaAssumption
    <3> QED
      BY <3>2, <3>3, <2>1, <2>2, FitsIsRoom
  <2>4. refused' = refused \cup {[size |-> call[c].size, alignment |-> call[c].alignment]}
    <3>1. refused = {} /\ \A d \in Caller \ {c} : ~Panicked(d)
      BY <2>1, <1>1 DEF At, Panicked, OneAtATime, Critical
    <3>2. /\ call'[c] = [call[c] EXCEPT !.step = "panicked"]
          /\ \A d \in Caller \ {c} : call'[d] = call[d]
      BY <2>1 DEF Types
    <3>3. /\ Panicked(c)' /\ call'[c].size = call[c].size
          /\ call'[c].alignment = call[c].alignment
      BY <3>2 DEF Types, Calls, Panicked
    <3>4. {d \in Caller : Panicked(d)}' = {c}
      <4>1. \A d \in Caller \ {c} : ~Panicked(d)'
        BY <3>1, <3>2 DEF Panicked
      <4> QED
        BY <4>1, <3>3
    <3> QED
      BY <3>1, <3>3, <3>4 DEF refused
  <2> QED
    BY <1>3, <2>1, <2>2, <2>3, <2>4 DEF Arena!Refuse, Block
<1>6. ASSUME NEW c \in Caller, pushfd_cli(c) \/ look(c) \/ popfd(c) \/ memzero(c)
      PROVE  UNCHANGED <<blocks, refused>>
  <2>1. /\ running = c /\ ~Panicked(c) /\ blocks' = blocks
        /\ \A d \in Caller \ {c} : call'[d] = call[d]
    BY <1>6 DEF pushfd_cli, Begin, look, popfd, End, memzero, Clear, Hand, At, Panicked, Types
  <2>2. ~Panicked(c)'
    BY <1>6 DEF pushfd_cli, Begin, look, popfd, End, memzero, Clear, Hand, NoCall, Panicked,
                Types, Calls
  <2> QED
    BY <2>1, <2>2, <1>2
<1>7. CASE \/ sti \/ interrupt \/ iret
           \/ \E block \in DOMAIN promised : store(block)
           \/ UNCHANGED immortal_vars
  BY <1>7 DEF sti, interrupt, iret, store, immortal_vars, refused, Panicked
<1> QED
  BY <1>4, <1>5, <1>6, <1>7 DEF ImmortalNext, ImmortalStopped

(***************************************************************************)
(* memmgnt.c 57-76: malloc_immortal implements an allocator of disjoint,   *)
(* aligned blocks of the arena that refuses only what does not fit behind  *)
(* the others, for any arena, sizes and alignments, with the calls of a    *)
(* handler between those of the kernel.                                    *)
(***************************************************************************)
THEOREM ImmortalImplementsArena == ImmortalSpec => ImplementsArena
<1>1. ImmortalInit => Arena!Init
  <2> SUFFICES ASSUME ImmortalInit PROVE Arena!Init
    OBVIOUS
  <2>1. \A c \in Caller : ~Panicked(c)
    BY DEF ImmortalInit, NoCall, Panicked
  <2> QED
    BY <2>1 DEF ImmortalInit, Arena!Init, refused
<1> QED
  BY <1>1, ImmortalInvAlways, ArenaStep, PTL DEF ImmortalSpec, ImplementsArena, Arena!Spec


-----------------------------------------------------------------------------
(***************************************************************************)
(* memmove.                                                                *)
(***************************************************************************)

\* The destination from first to last has been copied, and nothing else touched.
Copied(first, last) ==
  \A a \in Location :
    bytes[a] = IF a \in first .. last THEN before[src + (a - dest)] ELSE before[a]

(***************************************************************************)
(* What the loops keep: the part copied so far, and that the byte read     *)
(* next is not in it.                                                      *)
(***************************************************************************)
MoveInv ==
  /\ MoveTypeOK
  /\ loop = "idle" => Copied(dest, dest + count - 1)
  /\ loop = "up"   => Copied(dest, dest + i - 1) /\ (dest <= src \/ src + count <= dest)
  /\ loop = "down" => Copied(dest + count - i, dest + count - 1) /\ src < dest

LEMMA MoveInitially == MoveInit => MoveInv
<1> SUFFICES ASSUME MoveInit PROVE MoveInv
  OBVIOUS
<1>1. MoveTypeOK
  BY MemoryAssumption DEF MoveInit, MoveTypeOK
<1>2. Copied(dest, dest + count - 1)
  BY MemoryAssumption DEF MoveInit, Copied, Location
<1> QED
  BY <1>1, <1>2 DEF MoveInv, MoveInit

\* Nothing is copied at the start of either loop.
LEMMA MemmoveKeeps ==
  ASSUME MoveInv, NEW d \in Location, NEW s \in Location, NEW n \in 0 .. MEMORY_SIZE,
         memmove(d, s, n)
  PROVE  MoveInv'
<1>1. MoveTypeOK'
  BY MemoryAssumption DEF MoveInv, MoveTypeOK, memmove, Location
<1>2. /\ bytes' = before' /\ i' = 0 /\ dest' \in Int /\ count' \in Int
      /\ dest' = d /\ src' = s /\ count' = n
  BY MemoryAssumption DEF memmove, Location
<1>3. Copied(dest, dest + i - 1)' /\ Copied(dest + count - i, dest + count - 1)'
  BY <1>2, MemoryAssumption DEF Copied, Location
<1>4. CASE Backwards(d, s, n)
  BY <1>1, <1>2, <1>3, <1>4, MemoryAssumption DEF MoveInv, memmove, Backwards, Location
<1>5. CASE ~Backwards(d, s, n)
  BY <1>1, <1>2, <1>3, <1>5, MemoryAssumption DEF MoveInv, memmove, Backwards, Location
<1> QED
  BY <1>4, <1>5

\* The byte read has not been written: it is before what was copied, or behind it.
LEMMA CopyDownKeeps == MoveInv /\ copy_down => MoveInv'
<1> SUFFICES ASSUME MoveInv, copy_down PROVE MoveInv'
  OBVIOUS
<1> DEFINE k == count - i - 1
<1>1. /\ loop = "down" /\ i < count /\ i' = i + 1
      /\ bytes' = [bytes EXCEPT ![dest + k] = bytes[src + k]]
      /\ loop' = "down" /\ dest' = dest /\ src' = src /\ count' = count /\ before' = before
  BY DEF copy_down, CopyByte
<1>2. /\ MoveTypeOK /\ src < dest
      /\ Copied(dest + count - i, dest + count - 1)
  BY <1>1 DEF MoveInv
<1>3. /\ dest \in Nat /\ src \in Nat /\ count \in Nat /\ i \in Nat
      /\ dest + k \in Location /\ src + k \in Location
      /\ bytes \in [Location -> Content]
  BY <1>1, <1>2, MemoryAssumption DEF MoveTypeOK, Location
<1>4. bytes[src + k] = before[src + k]
  <2>1. src + k \notin dest + count - i .. dest + count - 1
    BY <1>2, <1>3
  <2> QED
    BY <1>2, <1>3, <2>1 DEF Copied
<1>5. Copied(dest + count - i, dest + count - 1)'
  <2> SUFFICES ASSUME NEW a \in Location
               PROVE bytes'[a] = IF a \in dest + count - i' .. dest + count - 1
                                 THEN before[src + (a - dest)] ELSE before[a]
    BY <1>1 DEF Copied
  <2>1. a \in Int
    BY MemoryAssumption DEF Location
  <2>2. CASE a = dest + k
    <3>1. bytes'[a] = before[src + k]
      BY <1>1, <1>3, <1>4, <2>2
    <3>2. a \in dest + count - i' .. dest + count - 1 /\ src + (a - dest) = src + k
      BY <1>1, <1>3, <2>2
    <3> QED
      BY <3>1, <3>2
  <2>3. CASE a # dest + k
    <3>1. bytes'[a] = bytes[a]
      BY <1>1, <1>3, <2>3
    <3>2. a \in dest + count - i' .. dest + count - 1
            <=> a \in dest + count - i .. dest + count - 1
      BY <1>1, <1>3, <2>1, <2>3
    <3> QED
      BY <1>2, <3>1, <3>2 DEF Copied
  <2> QED
    BY <2>2, <2>3
<1>6. MoveTypeOK'
  <2>1. bytes' \in [Location -> Content]
    BY <1>1, <1>3
  <2> QED
    BY <1>1, <1>2, <1>3, <2>1 DEF MoveTypeOK
<1> QED
  BY <1>1, <1>2, <1>5, <1>6 DEF MoveInv

LEMMA CopyUpKeeps == MoveInv /\ copy_up => MoveInv'
<1> SUFFICES ASSUME MoveInv, copy_up PROVE MoveInv'
  OBVIOUS
<1>1. /\ loop = "up" /\ i < count /\ i' = i + 1
      /\ bytes' = [bytes EXCEPT ![dest + i] = bytes[src + i]]
      /\ loop' = "up" /\ dest' = dest /\ src' = src /\ count' = count /\ before' = before
  BY DEF copy_up, CopyByte
<1>2. /\ MoveTypeOK /\ (dest <= src \/ src + count <= dest)
      /\ Copied(dest, dest + i - 1)
  BY <1>1 DEF MoveInv
<1>3. /\ dest \in Nat /\ src \in Nat /\ count \in Nat /\ i \in Nat
      /\ dest + i \in Location /\ src + i \in Location
      /\ bytes \in [Location -> Content]
  BY <1>1, <1>2, MemoryAssumption DEF MoveTypeOK, Location
<1>4. bytes[src + i] = before[src + i]
  <2>1. src + i \notin dest .. dest + i - 1
    BY <1>1, <1>2, <1>3
  <2> QED
    BY <1>2, <1>3, <2>1 DEF Copied
<1>5. Copied(dest, dest + i - 1)'
  <2> SUFFICES ASSUME NEW a \in Location
               PROVE bytes'[a] = IF a \in dest .. dest + i' - 1
                                 THEN before[src + (a - dest)] ELSE before[a]
    BY <1>1 DEF Copied
  <2>1. a \in Int
    BY MemoryAssumption DEF Location
  <2>2. CASE a = dest + i
    <3>1. bytes'[a] = before[src + i]
      BY <1>1, <1>3, <1>4, <2>2
    <3>2. a \in dest .. dest + i' - 1 /\ src + (a - dest) = src + i
      BY <1>1, <1>3, <2>2
    <3> QED
      BY <3>1, <3>2
  <2>3. CASE a # dest + i
    <3>1. bytes'[a] = bytes[a]
      BY <1>1, <1>3, <2>3
    <3>2. a \in dest .. dest + i' - 1 <=> a \in dest .. dest + i - 1
      BY <1>1, <1>3, <2>1, <2>3
    <3> QED
      BY <1>2, <3>1, <3>2 DEF Copied
  <2> QED
    BY <2>2, <2>3
<1>6. MoveTypeOK'
  <2>1. bytes' \in [Location -> Content]
    BY <1>1, <1>3
  <2> QED
    BY <1>1, <1>2, <1>3, <2>1 DEF MoveTypeOK
<1> QED
  BY <1>1, <1>2, <1>5, <1>6 DEF MoveInv

LEMMA ReturnKeeps == MoveInv /\ return => MoveInv'
<1> SUFFICES ASSUME MoveInv, return PROVE MoveInv'
  OBVIOUS
<1>1. /\ loop \in {"up", "down"} /\ i = count /\ loop' = "idle"
      /\ UNCHANGED <<bytes, dest, src, count, i, before>>
  BY DEF return, MoveInv, MoveTypeOK
<1>2. Copied(dest, dest + count - 1)
  BY <1>1 DEF MoveInv, MoveTypeOK
<1>3. MoveTypeOK' /\ Copied(dest, dest + count - 1)'
  BY <1>1, <1>2 DEF MoveInv, MoveTypeOK, Copied
<1> QED
  BY <1>1, <1>3 DEF MoveInv

LEMMA MoveInvariant == MoveSpec => []MoveInv
<1>1. MoveInv /\ [MoveNext]_move_vars => MoveInv'
  <2> SUFFICES ASSUME MoveInv, [MoveNext]_move_vars PROVE MoveInv'
    OBVIOUS
  <2>1. CASE \E d, s \in Location, n \in 0 .. MEMORY_SIZE : memmove(d, s, n)
    BY <2>1, MemmoveKeeps
  <2>2. CASE UNCHANGED move_vars
    BY <2>2 DEF move_vars, MoveInv, MoveTypeOK, Copied
  <2> QED
    BY <2>1, <2>2, CopyDownKeeps, CopyUpKeeps, ReturnKeeps DEF MoveNext
<1> QED
  BY <1>1, MoveInitially, PTL DEF MoveSpec

(***************************************************************************)
(* memmove stays within its types and its regions within memory            *)
(* (memmgnt.c 11-22).                                                      *)
(***************************************************************************)
THEOREM MoveTypeCorrect == MoveSpec => []MoveTypeOK
<1>1. MoveInv => MoveTypeOK
  BY DEF MoveInv
<1> QED
  BY <1>1, MoveInvariant, PTL

(***************************************************************************)
(* Whatever the sizes, the overlap and the contents, memmove leaves the    *)
(* former source in the destination and every other byte as it was         *)
(* (memmgnt.c 11-22).                                                      *)
(***************************************************************************)
THEOREM MoveCopies == MoveSpec => []MoveIsCopy
<1>1. MoveInv => MoveIsCopy
  BY DEF MoveInv, MoveIsCopy, Copied
<1> QED
  BY <1>1, MoveInvariant, PTL

-----------------------------------------------------------------------------
(***************************************************************************)
(* The boot loader.                                                        *)
(***************************************************************************)

\* The number of a track, counted along the disk.
Track == 2 * ch + dh

(***************************************************************************)
(* Where the loop is.  On a disk with full tracks, the place in memory is  *)
(* the number of the sector that comes next; on one with shorter tracks    *)
(* the loop never leaves the first, for the read behind its last fails.    *)
(***************************************************************************)
InStep ==
  \/ DriveSectors = SECTORS_PER_TRACK_LIMIT /\ es = Track * DriveSectors + (cl - 1)
  \/ /\ DriveSectors < SECTORS_PER_TRACK_LIMIT
     /\ ch = 0 /\ dh = 0 /\ es = cl - 1
     /\ at = "advance" => cl <= DriveSectors

LoaderInv ==
  /\ LoaderTypeOK
  /\ \A place \in DOMAIN image : image[place] = place
  /\ DOMAIN image = 0 .. (IF at = "advance" THEN es ELSE es - 1)
  /\ at # "read_error" => InStep
  /\ at # "read_error" =>
       es + di = IF at = "count" THEN kernel_size_sectors + 1 ELSE kernel_size_sectors
  /\ at \in {"count", "read", "advance"} => di > 0
  /\ at = "video_settings" => di = 0

LEMMA LoaderInitially == LoaderInit => LoaderInv
BY DriveAssumption DEF LoaderInit, LoaderInv, LoaderTypeOK, InStep, Track

LEMMA CountKeeps == LoaderInv /\ count_sectors => LoaderInv'
BY DriveAssumption DEF LoaderInv, LoaderTypeOK, InStep, Track, count_sectors

LEMMA ReadKeeps == LoaderInv /\ read => LoaderInv'
<1> SUFFICES ASSUME LoaderInv, read PROVE LoaderInv'
  OBVIOUS
<1>1. /\ at = "read" /\ at' = "advance" /\ cl <= DriveSectors
      /\ UNCHANGED <<ch, dh, cl, es, di>>
      /\ image' = [place \in DOMAIN image \cup {es} |->
                     IF place = es THEN SectorNumber ELSE image[place]]
  BY DEF read, OnDisk
<1>2. /\ LoaderTypeOK /\ InStep /\ DOMAIN image = 0 .. es - 1
      /\ \A place \in DOMAIN image : image[place] = place
      /\ es + di = kernel_size_sectors
  BY <1>1 DEF LoaderInv
<1>3. es \in Nat
  BY <1>2 DEF LoaderTypeOK
<1>4. SectorNumber = es
  BY <1>2, DriveAssumption DEF SectorNumber, InStep, LoaderTypeOK, Track
<1>5. DOMAIN image' = 0 .. es' /\ \A place \in DOMAIN image' : image'[place] = place
  BY <1>1, <1>2, <1>3, <1>4
<1>6. LoaderTypeOK'
  BY <1>1, <1>2, <1>3, <1>5 DEF LoaderTypeOK
<1>7. InStep'
  BY <1>1, <1>2 DEF InStep, Track
<1> QED
  BY <1>1, <1>2, <1>5, <1>6, <1>7 DEF LoaderInv

LEMMA AdvanceKeeps == LoaderInv /\ advance => LoaderInv'
<1> SUFFICES ASSUME LoaderInv, advance PROVE LoaderInv'
  OBVIOUS
<1>1. /\ at = "advance" /\ at' = "count" /\ es' = es + 1
      /\ UNCHANGED <<di, image>>
  BY DEF advance
<1>2. /\ LoaderTypeOK /\ InStep /\ DOMAIN image = 0 .. es
      /\ \A place \in DOMAIN image : image[place] = place
      /\ es + di = kernel_size_sectors
  BY <1>1 DEF LoaderInv
<1>3. CASE TrackDone(cl + 1)
  <2>1. /\ cl' = 1 /\ dh' = 1 - dh
        /\ ch' = IF dh' = 0 THEN ch + 1 ELSE ch
        /\ cl = SECTORS_PER_TRACK_LIMIT
    BY <1>2, <1>3, DriveAssumption DEF advance, TrackDone, LoaderTypeOK
  <2>2. Track' = Track + 1 /\ Track \in Nat
    BY <1>2, <2>1 DEF Track, LoaderTypeOK
  <2>3. DriveSectors = SECTORS_PER_TRACK_LIMIT /\ es = Track * DriveSectors + (cl - 1)
    BY <1>1, <1>2, <2>1, DriveAssumption DEF InStep
  <2>4. (Track + 1) * DriveSectors = Track * DriveSectors + DriveSectors
    BY <2>2, DriveAssumption
  <2>5. InStep'
    BY <1>1, <2>1, <2>2, <2>3, <2>4, DriveAssumption DEF InStep
  <2>6. LoaderTypeOK'
    BY <1>1, <1>2, <2>1, DriveAssumption DEF LoaderTypeOK
  <2> QED
    BY <1>1, <1>2, <2>5, <2>6, DriveAssumption DEF LoaderInv, LoaderTypeOK
<1>4. CASE ~TrackDone(cl + 1)
  <2>1. cl' = cl + 1 /\ UNCHANGED <<dh, ch>> /\ cl < SECTORS_PER_TRACK_LIMIT
    BY <1>2, <1>4, DriveAssumption DEF advance, TrackDone, LoaderTypeOK
  <2>2. InStep'
    BY <1>1, <1>2, <2>1, DriveAssumption DEF InStep, Track, LoaderTypeOK
  <2>3. LoaderTypeOK'
    BY <1>1, <1>2, <2>1, DriveAssumption DEF LoaderTypeOK
  <2> QED
    BY <1>1, <1>2, <2>2, <2>3, DriveAssumption DEF LoaderInv, LoaderTypeOK
<1> QED
  BY <1>3, <1>4

LEMMA ReadErrorKeeps == LoaderInv /\ read_error => LoaderInv'
BY DEF LoaderInv, LoaderTypeOK, read_error

LEMMA LoaderInvariant == LoaderSpec => []LoaderInv
<1>1. LoaderInv /\ [LoaderNext]_loader_vars => LoaderInv'
  <2>1. LoaderInv /\ UNCHANGED loader_vars => LoaderInv'
    BY DEF loader_vars, LoaderInv, LoaderTypeOK, InStep, Track
  <2> QED
    BY <2>1, CountKeeps, ReadKeeps, AdvanceKeeps, ReadErrorKeeps
       DEF LoaderNext, LoaderStep, LoaderStopped
<1> QED
  BY <1>1, LoaderInitially, PTL DEF LoaderSpec

(***************************************************************************)
(* The registers of the loop stay within their types (boot.asm 33-85).     *)
(***************************************************************************)
THEOREM LoaderTypeCorrect == LoaderSpec => []LoaderTypeOK
<1>1. LoaderInv => LoaderTypeOK
  BY DEF LoaderInv
<1> QED
  BY <1>1, LoaderInvariant, PTL

(***************************************************************************)
(* An image of any size is in memory in order and without a gap, and all   *)
(* of it when the kernel is entered; a disk with shorter tracks than the   *)
(* loop believes ends in the error, not in a wrong image (boot.asm 33-85). *)
(***************************************************************************)
THEOREM LoadedInOrder == LoaderSpec => []ImageInOrder
<1>1. LoaderInv => ImageInOrder
  BY DriveAssumption DEF LoaderInv, ImageInOrder, LoaderTypeOK
<1> QED
  BY <1>1, LoaderInvariant, PTL

=============================================================================

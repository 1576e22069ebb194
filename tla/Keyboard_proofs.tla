--------------------------- MODULE Keyboard_proofs ---------------------------
(***************************************************************************)
(* Proofs about Keyboard, for every length of the queue, every threshold,  *)
(* and any number of keys pressed and of bytes the keyboard asks for       *)
(* again.                                                                  *)
(*                                                                         *)
(* Everything on its way from the keyboard is one stream of bytes: at most *)
(* one answer to a command, and behind it the bytes of the keys that were  *)
(* pressed.  The first part of the invariant says what the answer and the  *)
(* queue tell of each other, the second how the stream is laid out in      *)
(* keys, and how far the handler has come in it.                           *)
(***************************************************************************)
EXTENDS Keyboard, SequenceTheorems, TLAPS

Answers == {"ACK", "RSD"}
ScanBytes == {"F0", "E0", "E1", "1C", "12", "14", "75", "7C", "77"}

\* The stream of bytes on their way: the waiting byte, and what the keyboard has to send.
OnWay == (IF output = Empty THEN <<>> ELSE <<output[2]>>) \o pending[0]

\* How many of them answer commands.
Answered == IF OnWay # <<>> /\ OnWay[1] \in Answers THEN 1 ELSE 0

Events == Key \X {"make", "break"}

CodeOf(event) == ScanCode(event[1], event[2] = "break")

Typed ==
  /\ output = Empty \/ \E b \in Answers \cup ScanBytes : output = <<0, b>>
  /\ pending \in [Source -> Seq(Answers \cup ScanBytes)]
  /\ pc \in {"enqueue", "send", "running", "unsent"}
  /\ buffer \in [QueueIndex -> {"0"} \cup ToSet(Commands)]
  /\ scanning \in BOOLEAN
  /\ accepted \in Seq(ToSet(Commands))
  /\ typed \in Seq(Events) /\ decoded \in Seq(Events)
  /\ \A k \in 2 .. Len(OnWay) : OnWay[k] \in ScanBytes

-----------------------------------------------------------------------------
(***************************************************************************)
(* The commands.                                                           *)
(***************************************************************************)

\* The commands lie in the queue in their order.
Queued ==
  /\ pc = "enqueue" => head = 0 /\ tail \in 0 .. Len(Commands) - 1
  /\ pc # "enqueue" => head \in 0 .. Len(Commands) /\ tail = Len(Commands)
  /\ \A k \in 0 .. tail - 1 : buffer[k] = Commands[k + 1]

\* The keyboard has taken the first of them.
InOrder ==
  /\ Len(accepted) <= Len(Commands)
  /\ \A k \in 1 .. Len(accepted) : accepted[k] = Commands[k]

\* Nothing was sent yet, or ever.
Before == pc # "running" => OnWay = <<>> /\ accepted = <<>> /\ head = 0 /\ fail_count = 0

\* The byte at the head of the queue is the one the answer is about.
Asked ==
  pc = "running" =>
    \/ /\ OnWay # <<>> /\ OnWay[1] = "ACK"
       /\ head = Len(accepted) - 1 /\ fail_count \in 0 .. COMMAND_RESEND_THRESHOLD - 1
    \/ /\ OnWay # <<>> /\ OnWay[1] = "RSD"
       /\ head = Len(accepted) /\ head < tail
       /\ fail_count \in 0 .. COMMAND_RESEND_THRESHOLD - 1
    \/ /\ OnWay = <<>> \/ OnWay[1] \in ScanBytes
       /\ head = Len(accepted) /\ head = tail /\ fail_count = 0
    \/ OnWay = <<>> /\ fail_count = COMMAND_RESEND_THRESHOLD /\ ~scanning

\* Keys are sent after the last command was taken, and not before.
ScansWhenEnabled ==
  /\ scanning <=> Len(accepted) = Len(Commands)
  /\ ~scanning => typed = <<>> /\ Len(OnWay) <= 1

CommandsInv == Queued /\ InOrder /\ Before /\ Asked /\ ScansWhenEnabled

-----------------------------------------------------------------------------
(***************************************************************************)
(* The keys.                                                               *)
(***************************************************************************)

\* The stream of all scan codes sent so far: where the code of each event ends in it.
Laid(stream, end, events) ==
  /\ stream \in Seq(ScanBytes)
  /\ end \in [0 .. Len(events) -> 0 .. Len(stream)]
  /\ end[0] = 0 /\ end[Len(events)] = Len(stream)
  /\ \A i \in 1 .. Len(events) :
       /\ end[i] = end[i - 1] + Len(CodeOf(events[i]))
       /\ \A j \in 1 .. Len(CodeOf(events[i])) :
            stream[end[i - 1] + j] = CodeOf(events[i])[j]

\* The handler has read the first got bytes of it, the others are on their way.
Ahead(stream, got) ==
  /\ got \in 0 .. Len(stream)
  /\ Len(OnWay) = Answered + Len(stream) - got
  /\ \A p \in got + 1 .. Len(stream) : OnWay[Answered + p - got] = stream[p]

\* The statics of the handler after the first n bytes of a code.
Seen(bytes, n) == {bytes[j] : j \in 1 .. n}

DecoderAt(seen) ==
  /\ flags = {Prefix[b] : b \in seen \cap DOMAIN Prefix}
  /\ \/ seen \subseteq DOMAIN Prefix /\ fullcode = <<>>
     \/ \E b \in seen : seen \ DOMAIN Prefix = {b} /\ fullcode = <<b>>
  /\ bytes_to_receive =
       IF "E1" \notin seen THEN 0 ELSE IF fullcode = <<>> THEN 2 ELSE 1

\* The bytes it has read of the code it is in.
Under(end, got) ==
  IF Len(decoded) = Len(typed)
  THEN {}
  ELSE Seen(CodeOf(typed[Len(decoded) + 1]), got - end[Len(decoded)])

\* The handler has made the first keys of it, and is in the code of the next.
Reading(end, got) ==
  /\ Len(decoded) <= Len(typed)
  /\ \A i \in 1 .. Len(decoded) : decoded[i] = typed[i]
  /\ end[Len(decoded)] <= got
  /\ Len(decoded) < Len(typed) => got < end[Len(decoded) + 1]
  /\ DecoderAt(Under(end, got))

KeysInv ==
  \E stream \in Seq(ScanBytes), got \in Nat :
    \E end \in [0 .. Len(typed) -> 0 .. Len(stream)] :
      Laid(stream, end, typed) /\ Ahead(stream, got) /\ Reading(end, got)

KeyboardInv == Typed /\ CommandsInv /\ KeysInv

-----------------------------------------------------------------------------
(***************************************************************************)
(* Lemmas about the stream and the queue.                                  *)
(***************************************************************************)

\* Below its modulus a number is its own remainder.
LEMMA SmallMod ==
  ASSUME NEW a \in Nat, NEW m \in Nat, a < m
  PROVE  a % m = a
  OBVIOUS

\* Sequences with the same elements are the same.
LEMMA SameSequence ==
  ASSUME NEW S, NEW s \in Seq(S), NEW t \in Seq(S), Len(s) = Len(t),
         \A k \in 1 .. Len(s) : s[k] = t[k]
  PROVE  s = t
  OBVIOUS

LEMMA LastAppended ==
  ASSUME NEW S, NEW s \in Seq(S), NEW b \in S
  PROVE  /\ Append(s, b) \in Seq(S) /\ Len(Append(s, b)) = Len(s) + 1
         /\ Append(s, b)[Len(s) + 1] = b
         /\ \A k \in 1 .. Len(s) : Append(s, b)[k] = s[k]
  OBVIOUS

LEMMA Joined ==
  ASSUME NEW S, NEW s \in Seq(S), NEW t \in Seq(S)
  PROVE  /\ s \o t \in Seq(S) /\ Len(s \o t) = Len(s) + Len(t)
         /\ \A i \in 1 .. Len(s) : (s \o t)[i] = s[i]
         /\ \A i \in 1 .. Len(t) : (s \o t)[Len(s) + i] = t[i]
  OBVIOUS

LEMMA BytesInARow ==
  ASSUME NEW s \in Seq(Answers \cup ScanBytes), NEW t \in Seq(Answers \cup ScanBytes),
         NEW u \in Seq(Answers \cup ScanBytes)
  PROVE  s \o (t \o u) = (s \o t) \o u
  BY ConcatAssociative, SMTT(30)

LEMMA Pair ==
  ASSUME NEW a, NEW b
  PROVE  Append(<<a>>, b) = <<a, b>>
<1> DEFINE S == {a, b}
           s == <<a>>
           t == Append(s, b)
           u == <<a, b>>
<1>1. s \in Seq(S) /\ Len(s) = 1 /\ s[1] = a
  OBVIOUS
<1>2. u \in Seq(S) /\ Len(u) = 2 /\ u[1] = a /\ u[2] = b
  OBVIOUS
<1> HIDE DEF s
<1>3. t \in Seq(S) /\ Len(t) = 2 /\ t[1] = a /\ t[2] = b
  <2>1. b \in S
    OBVIOUS
  <2> HIDE DEF S
  <2>2. /\ t \in Seq(S) /\ Len(t) = Len(s) + 1 /\ t[Len(s) + 1] = b
        /\ \A k \in 1 .. Len(s) : t[k] = s[k]
    BY <1>1, <2>1, LastAppended
  <2> HIDE DEF t
  <2>3. Len(s) + 1 = 2 /\ 1 \in 1 .. Len(s)
    BY <1>1
  <2>4. t[1] = a
    BY <1>1, <2>2, <2>3
  <2> QED
    BY <2>2, <2>3, <2>4
<1> HIDE DEF t, u
<1>4. \A k \in 1 .. Len(t) : t[k] = u[k]
  BY <1>2, <1>3
<1>5. t = u
  BY <1>2, <1>3, <1>4, SameSequence
<1> QED
  BY <1>5 DEF s, t, u

\* The seven bytes of the initialisation; the last turns scanning on.
LEMMA SevenCommands ==
  /\ Len(Commands) = 7
  /\ Commands \in Seq(ToSet(Commands))
  /\ \A k \in 1 .. 7 : Commands[k] = "ENABLE_SCAN" <=> k = 7
  BY DEF Commands, ToSet

LEMMA CommandCount == Len(Commands) = 7
  BY SevenCommands

(***************************************************************************)
(* Reading the waiting byte takes the first of the stream.                 *)
(***************************************************************************)
LEMMA StreamRead ==
  ASSUME Typed, output # Empty, output' = Empty
  PROVE  /\ output[1] = 0 /\ output[2] \in Answers \cup ScanBytes
         /\ OnWay \in Seq(Answers \cup ScanBytes)
         /\ Len(OnWay) = Len(pending[0]) + 1 /\ OnWay[1] = output[2]
         /\ pending[0] \in Seq(ScanBytes)
         /\ \A k \in 1 .. Len(pending[0]) : pending[0][k] = OnWay[k + 1]
         /\ OnWay' = pending'[0]
<1>1. PICK b \in Answers \cup ScanBytes : output = <<0, b>>
  BY DEF Typed
<1>2. pending[0] \in Seq(Answers \cup ScanBytes)
  BY DEF Typed, Source, Channel
<1>3. OnWay = <<b>> \o pending[0]
  BY <1>1 DEF OnWay, Empty
<1>4. /\ OnWay \in Seq(Answers \cup ScanBytes)
      /\ Len(OnWay) = Len(pending[0]) + 1 /\ OnWay[1] = b
      /\ \A k \in 1 .. Len(pending[0]) : pending[0][k] = OnWay[k + 1]
  BY <1>2, <1>3
<1>5. \A k \in 1 .. Len(pending[0]) : pending[0][k] \in ScanBytes
  <2> TAKE k \in 1 .. Len(pending[0])
  <2>1. k + 1 \in 2 .. Len(OnWay)
    BY <1>2, <1>4
  <2> QED
    BY <1>4, <2>1 DEF Typed
<1>6. pending[0] \in Seq(ScanBytes)
  BY <1>2, <1>5
<1>7. OnWay' = pending'[0]
  BY DEF OnWay
<1> QED
  BY <1>1, <1>4, <1>6, <1>7

(***************************************************************************)
(* Delivering a byte leaves the stream as it is.                           *)
(***************************************************************************)
LEMMA StreamDelivered ==
  ASSUME Typed, Deliver(0)
  PROVE  /\ OnWay' = OnWay
         /\ \E b \in Answers \cup ScanBytes : output' = <<0, b>>
         /\ pending' \in [Source -> Seq(Answers \cup ScanBytes)]
<1>1. pending[0] \in Seq(Answers \cup ScanBytes) /\ pending[0] # <<>> /\ output = Empty
  BY DEF Typed, Deliver, Source, Channel
<1>2. OnWay = pending[0]
  BY <1>1 DEF OnWay
<1>3. output' = <<0, Head(pending[0])>> /\ pending'[0] = Tail(pending[0])
  BY DEF Deliver, Typed, Source, Channel
<1>4. OnWay' = <<Head(pending[0])>> \o Tail(pending[0])
  BY <1>3 DEF OnWay, Empty
<1>5. <<Head(pending[0])>> \o Tail(pending[0]) = pending[0]
  BY <1>1
<1>6. Head(pending[0]) \in Answers \cup ScanBytes /\ Tail(pending[0]) \in Seq(Answers \cup ScanBytes)
  BY <1>1
<1>7. pending' \in [Source -> Seq(Answers \cup ScanBytes)]
  BY <1>3, <1>6 DEF Typed, Deliver
<1> QED
  BY <1>2, <1>3, <1>4, <1>5, <1>6, <1>7

(***************************************************************************)
(* A byte of the queue that goes to the keyboard when nothing is on its    *)
(* way is answered, and the answer says whether it was taken.              *)
(***************************************************************************)
Turn(h) == h \in 0 .. 6 /\ Len(accepted) = h

LEMMA Sent ==
  ASSUME Typed, CommandsInv, pending[0] = <<>>, output' = Empty,
         pc # "enqueue", NEW h, Turn(h),
         Receive(buffer[h]), head' = h, tail' = tail, buffer' = buffer,
         decoded' = decoded, pc' = "running",
         fail_count' \in 0 .. COMMAND_RESEND_THRESHOLD - 1
  PROVE  /\ Typed' /\ CommandsInv'
         /\ typed' = typed /\ Len(OnWay') = 1 /\ Answered' = 1
<1> DEFINE cmd == buffer[h]
<1>0. /\ h \in Nat /\ h < 7 /\ h # 7 /\ h \in 0 .. 6 /\ h \in 0 .. 7 /\ h + 1 \in 1 .. 7
      /\ Len(accepted) # 7
  BY DEF Turn
<1>1. tail = 7 /\ cmd = Commands[h + 1] /\ cmd \in ToSet(Commands)
  <2>1. tail = 7 /\ h \in 0 .. tail - 1
    BY <1>0, SevenCommands DEF CommandsInv, Queued
  <2>2. buffer[h] = Commands[h + 1]
    BY <2>1 DEF CommandsInv, Queued
  <2>3. h + 1 \in 1 .. Len(Commands)
    BY <1>0, CommandCount
  <2> QED
    BY <2>1, <2>2, <2>3 DEF ToSet
<1>2. ~scanning /\ typed = <<>> /\ accepted \in Seq(ToSet(Commands))
  <2>1. accepted \in Seq(ToSet(Commands))
    BY DEF Typed
  <2>2. Len(accepted) # Len(Commands)
    BY <1>0, CommandCount
  <2> QED
    BY <2>1, <2>2, Zenon DEF CommandsInv, ScansWhenEnabled, Typed
<1>3. (cmd = "ENABLE_SCAN") <=> (h + 1 = 7)
  BY <1>0, <1>1, SevenCommands
<1>4. typed' = typed
  BY DEF Receive
<1> HIDE DEF cmd
<1>5. PICK ans \in Answers :
        /\ pending' = [pending EXCEPT ![0] = Append(@, ans)]
        /\ ans = "ACK" => accepted' = Append(accepted, cmd) /\ scanning' = (cmd = "ENABLE_SCAN" \/ scanning)
        /\ ans = "RSD" => accepted' = accepted /\ scanning' = scanning
  BY DEF Receive, Answers, cmd
<1>6. OnWay' = <<ans>>
  BY <1>5 DEF OnWay, Typed, Source, Channel
<1>7. Len(OnWay') = 1 /\ OnWay'[1] = ans /\ OnWay' # <<>> /\ Answered' = 1
  BY <1>6 DEF Answered
<1>8. scanning' \in BOOLEAN /\ (scanning' <=> ans = "ACK" /\ h + 1 = 7)
  <2>1. CASE ans = "ACK"
    BY <1>2, <1>3, <1>5, <2>1, Zenon DEF Typed
  <2>2. CASE ans = "RSD"
    <3>1. ans # "ACK" /\ scanning' = scanning
      BY <1>5, <2>2
    <3> QED
      BY <1>2, <3>1, Zenon DEF Typed
  <2> QED
    BY <2>1, <2>2 DEF Answers
<1>9. /\ accepted' \in Seq(ToSet(Commands))
      /\ Len(accepted') = IF ans = "ACK" THEN h + 1 ELSE h
  <2>1. CASE ans = "ACK"
    <3>1. accepted' = Append(accepted, cmd)
      BY <1>5, <2>1
    <3> QED
      BY <1>0, <1>1, <1>2, <2>1, <3>1 DEF Turn
  <2>2. CASE ans = "RSD"
    <3>1. accepted' = accepted
      BY <1>5, <2>2
    <3>2. Len(accepted) = h
      BY DEF Turn
    <3> QED
      BY <1>2, <2>2, <3>1, <3>2
  <2> QED
    BY <2>1, <2>2 DEF Answers
<1>10. Typed'
  <2>1. pending' \in [Source -> Seq(Answers \cup ScanBytes)]
    BY <1>5 DEF Typed, Source, Channel
  <2> QED
    BY <2>1, <1>4, <1>7, <1>8, <1>9 DEF Typed
<1>11. InOrder'
  <2>1. \A k \in 1 .. h : accepted[k] = Commands[k]
    BY <1>0 DEF CommandsInv, InOrder, Turn
  <2>2. CASE ans = "ACK"
    <3>1. accepted' = Append(accepted, cmd)
      BY <1>5, <2>2
    <3>2. \A k \in 1 .. h + 1 : accepted'[k] = Commands[k]
      BY <1>0, <1>1, <1>2, <2>1, <3>1 DEF Turn
    <3> QED
      BY <1>0, <1>1, <1>9, <2>2, <3>2, SevenCommands DEF InOrder
  <2>3. CASE ans = "RSD"
    BY <1>0, <1>1, <1>5, <1>9, <2>1, <2>3, SevenCommands DEF InOrder
  <2> QED
    BY <2>2, <2>3 DEF Answers
<1>12. Queued' /\ Before'
  <2>1. head' \in 0 .. 7 /\ tail' = 7 /\ pc' # "enqueue"
    BY <1>0, <1>1
  <2>2. \A k \in 0 .. tail' - 1 : buffer'[k] = Commands[k + 1]
    BY DEF CommandsInv, Queued
  <2> QED
    BY <2>1, <2>2, SevenCommands DEF Queued, Before
<1>13. Asked'
  BY <1>0, <1>1, <1>7, <1>9 DEF Asked, Answers
<1>14. ScansWhenEnabled'
  <2>1. Len(accepted') = Len(Commands) <=> ans = "ACK" /\ h + 1 = 7
    BY <1>0, <1>9, CommandCount
  <2>2. typed' = <<>> /\ Len(OnWay') <= 1
    BY <1>2, <1>4, <1>7
  <2> QED
    BY <1>8, <2>1, <2>2, Zenon DEF ScansWhenEnabled
<1> QED
  BY <1>4, <1>7, <1>10, <1>11, <1>12, <1>13, <1>14 DEF CommandsInv

-----------------------------------------------------------------------------
(***************************************************************************)
(* The commands, action by action.                                         *)
(***************************************************************************)

\* The threshold and the queue are large enough for what follows.
LEMMA Sizes ==
  /\ COMMAND_QUEUE_SIZE \in Nat /\ COMMAND_QUEUE_SIZE > 7
  /\ COMMAND_RESEND_THRESHOLD \in Nat
  /\ COMMAND_RESEND_THRESHOLD >= 1 /\ COMMAND_RESEND_THRESHOLD <= 255
  BY CommandCount, KeyboardAssumption

\* Nothing is on its way when the stream is empty.
LEMMA NothingOnWay ==
  ASSUME Typed, OnWay = <<>>
  PROVE  output = Empty /\ pending[0] = <<>>
<1>1. pending[0] \in Seq(Answers \cup ScanBytes)
  BY DEF Typed, Source, Channel
<1>2. CASE output = Empty
  BY <1>2 DEF OnWay, Empty
<1>3. CASE output # Empty
  <2>1. OnWay = <<output[2]>> \o pending[0]
    BY <1>3 DEF OnWay
  <2>2. Len(OnWay) = Len(pending[0]) + 1 /\ Len(pending[0]) \in Nat
    BY <1>1, <2>1
  <2> QED
    BY <2>2
<1> QED
  BY <1>2, <1>3

(***************************************************************************)
(* Queueing a command.                                                     *)
(***************************************************************************)
LEMMA EnqueueCommands ==
  ASSUME Typed, CommandsInv, enqueue
  PROVE  Typed' /\ CommandsInv' /\ OnWay' = OnWay
<1>1. /\ head = 0 /\ tail \in 0 .. 6 /\ pc = "enqueue"
      /\ \A k \in 0 .. tail - 1 : buffer[k] = Commands[k + 1]
  BY CommandCount DEF CommandsInv, Queued, enqueue
<1>2. tail' = tail + 1 /\ tail + 1 \in 1 .. 7 /\ head' = 0
  BY <1>1, Sizes, SmallMod DEF enqueue, ps2_device_enqueue_command
<1>3. /\ buffer' = [buffer EXCEPT ![tail] = Commands[tail + 1]]
      /\ tail \in QueueIndex /\ Commands[tail + 1] \in ToSet(Commands)
  <2>1. tail \in QueueIndex
    BY <1>1, Sizes DEF QueueIndex
  <2>2. Commands[tail + 1] \in ToSet(Commands)
    BY <1>2, CommandCount DEF ToSet
  <2> QED
    BY <2>1, <2>2 DEF enqueue, ps2_device_enqueue_command
<1>4. OnWay' = OnWay
  BY DEF OnWay, enqueue, wire
<1>5. pc' = IF tail + 1 = 7 THEN "send" ELSE "enqueue"
  BY CommandCount DEF enqueue
<1>6. UNCHANGED <<scanning, accepted, typed, decoded, output, pending, fail_count>>
  BY DEF enqueue, device, wire
<1>7. Typed'
  <2>1. buffer' \in [QueueIndex -> {"0"} \cup ToSet(Commands)]
    BY <1>3 DEF Typed
  <2>2. pc' \in {"enqueue", "send", "running", "unsent"}
    BY <1>5
  <2> QED
    BY <2>1, <2>2, <1>4, <1>6 DEF Typed
<1>8. Queued'
  <2>1. \A k \in 0 .. tail : buffer'[k] = Commands[k + 1]
    <3> TAKE k \in 0 .. tail
    <3>1. k \in QueueIndex
      BY <1>1, Sizes DEF QueueIndex
    <3> QED
      BY <1>1, <1>3, <3>1 DEF Typed
  <2>2. tail' - 1 = tail
    BY <1>1, <1>2
  <2>3. \A k \in 0 .. tail' - 1 : buffer'[k] = Commands[k + 1]
    BY <2>1, <2>2
  <2>4. CASE tail + 1 = 7
    BY <1>1, <1>2, <1>5, <2>3, <2>4, CommandCount DEF Queued
  <2>5. CASE tail + 1 # 7
    BY <1>1, <1>2, <1>5, <2>3, <2>5, CommandCount DEF Queued
  <2> QED
    BY <2>4, <2>5
<1>9. InOrder' /\ ScansWhenEnabled'
  BY <1>4, <1>6 DEF CommandsInv, InOrder, ScansWhenEnabled
<1>10. Before' /\ Asked'
  BY <1>1, <1>2, <1>4, <1>5, <1>6 DEF CommandsInv, Before, Asked
<1> QED
  BY <1>4, <1>7, <1>8, <1>9, <1>10 DEF CommandsInv

(***************************************************************************)
(* The first byte is sent, or its sending timed out.                       *)
(***************************************************************************)
LEMMA SendFirstCommands ==
  ASSUME Typed, CommandsInv, send_first
  PROVE  /\ Typed' /\ CommandsInv' /\ typed' = typed
         /\ \/ OnWay' = OnWay
            \/ Len(OnWay') = 1 /\ Answered' = 1 /\ typed = <<>>
<1>1. pc = "send" /\ OnWay = <<>> /\ accepted = <<>> /\ head = 0 /\ fail_count = 0 /\ tail = 7
  BY CommandCount DEF CommandsInv, Before, Queued, send_first
<1>2. output = Empty /\ pending[0] = <<>> /\ output' = Empty
  BY <1>1, NothingOnWay DEF send_first
<1>3. /\ UNCHANGED <<buffer, head, tail, fail_count, decoded>>
  BY DEF send_first, queue
<1>4. CASE ps2_device_send_topqueue(head) /\ pc' = "running"
  <2>1. Receive(buffer[0])
    BY <1>1, <1>4 DEF ps2_device_send_topqueue
  <2>2. Turn(0)
    BY <1>1 DEF Turn
  <2>3. fail_count' \in 0 .. COMMAND_RESEND_THRESHOLD - 1
    BY <1>1, <1>3, Sizes
  <2>4. head' = 0 /\ tail' = tail /\ buffer' = buffer /\ decoded' = decoded /\ pc # "enqueue"
    BY <1>1, <1>3
  <2>5. /\ Typed' /\ CommandsInv' /\ typed' = typed
        /\ Len(OnWay') = 1 /\ Answered' = 1
    BY <1>2, <1>4, <2>1, <2>2, <2>3, <2>4, Sent
  <2>6. typed = <<>>
    <3>1. Len(accepted) # Len(Commands)
      BY <1>1, CommandCount
    <3> QED
      BY <3>1, Zenon DEF CommandsInv, ScansWhenEnabled
  <2> QED
    BY <2>5, <2>6
<1>5. CASE UNCHANGED <<pending, device>> /\ pc' = "unsent"
  <2>1. UNCHANGED <<pending, scanning, accepted, typed, output>>
    BY <1>2, <1>5 DEF device
  <2>2. OnWay' = OnWay
    BY <2>1 DEF OnWay
  <2>3. Typed'
    BY <1>3, <1>5, <2>1, <2>2 DEF Typed
  <2>4. Queued'
    BY <1>1, <1>3, <1>5, CommandCount DEF CommandsInv, Queued
  <2>5. Before' /\ Asked'
    BY <1>1, <1>3, <1>5, <2>1, <2>2 DEF Before, Asked
  <2>6. InOrder' /\ ScansWhenEnabled'
    BY <2>1, <2>2 DEF CommandsInv, InOrder, ScansWhenEnabled
  <2> QED
    BY <2>1, <2>2, <2>3, <2>4, <2>5, <2>6 DEF CommandsInv
<1> QED
  BY <1>4, <1>5 DEF send_first

(***************************************************************************)
(* When a byte is read and nothing is sent, scan codes are left.           *)
(***************************************************************************)
LEMMA ByteTaken ==
  ASSUME Typed, output # Empty, output' = Empty, pending' = pending
  PROVE  /\ OnWay' \in Seq(ScanBytes) /\ Answered' = 0
         /\ Len(OnWay') = Len(OnWay) - 1
         /\ \A k \in 1 .. Len(OnWay') : OnWay'[k] = OnWay[k + 1]
         /\ OnWay' # <<>> => OnWay'[1] \in ScanBytes
<1>1. /\ pending[0] \in Seq(ScanBytes) /\ OnWay' = pending[0]
      /\ Len(OnWay) = Len(pending[0]) + 1
      /\ \A k \in 1 .. Len(pending[0]) : pending[0][k] = OnWay[k + 1]
  BY StreamRead
<1>2. OnWay' # <<>> => OnWay'[1] \in ScanBytes
  BY <1>1
<1>3. Answered' = 0
  BY <1>2 DEF Answered, Answers, ScanBytes
<1> QED
  BY <1>1, <1>2, <1>3

\* Answers only come while commands are under way, one at a time.
LEMMA AnswerRead ==
  ASSUME Typed, CommandsInv, output # Empty, output' = Empty, output[2] \in Answers
  PROVE  /\ OnWay # <<>> /\ OnWay[1] = output[2] /\ Answered = 1 /\ pc = "running"
         /\ fail_count \in 0 .. COMMAND_RESEND_THRESHOLD - 1 /\ tail = 7
         /\ output[2] = "ACK" => head = Len(accepted) - 1
         /\ output[2] = "RSD" => head = Len(accepted) /\ head < 7
         /\ Len(accepted) # 7 => ~scanning /\ typed = <<>> /\ pending[0] = <<>>
<1>1. OnWay # <<>> /\ OnWay[1] = output[2] /\ Answered = 1
  BY StreamRead DEF Answered
<1>2. pc = "running"
  BY <1>1 DEF CommandsInv, Before
<1>3. tail = 7
  BY <1>2, CommandCount DEF CommandsInv, Queued
<1>4. /\ fail_count \in 0 .. COMMAND_RESEND_THRESHOLD - 1
      /\ output[2] = "ACK" => head = Len(accepted) - 1
      /\ output[2] = "RSD" => head = Len(accepted) /\ head < 7
  BY <1>1, <1>2, <1>3 DEF CommandsInv, Asked, Answers, ScanBytes
<1>5. ASSUME Len(accepted) # 7
      PROVE  ~scanning /\ typed = <<>> /\ pending[0] = <<>>
  <2>1. Len(accepted) # Len(Commands)
    BY <1>5, CommandCount
  <2>2. ~scanning /\ typed = <<>> /\ Len(OnWay) <= 1
    BY <2>1, Zenon DEF CommandsInv, ScansWhenEnabled
  <2>3. Len(OnWay) = Len(pending[0]) + 1 /\ pending[0] \in Seq(ScanBytes)
    BY StreamRead
  <2> QED
    BY <2>2, <2>3
<1> QED
  BY <1>1, <1>2, <1>3, <1>4, <1>5

(***************************************************************************)
(* What a handler that sends nothing leaves of the commands' part.         *)
(***************************************************************************)
LEMMA NothingSent ==
  ASSUME Typed, CommandsInv, output # Empty, output' = Empty,
         UNCHANGED <<pending, pc, buffer, tail, device>>,
         decoded' \in Seq(Events), pc = "running"
  PROVE  Typed' /\ InOrder' /\ Before' /\ ScansWhenEnabled'
<1>1. OnWay' \in Seq(ScanBytes) /\ Len(OnWay') = Len(OnWay) - 1
  BY ByteTaken
<1>2. UNCHANGED <<scanning, accepted, typed>>
  BY DEF device
<1>3. Typed'
  BY <1>1, <1>2 DEF Typed
<1>4. ScansWhenEnabled'
  <2>1. Len(OnWay) <= 1 => Len(OnWay') <= 1
    BY <1>1, StreamRead
  <2> QED
    BY <1>2, <2>1, Zenon DEF CommandsInv, ScansWhenEnabled
<1> QED
  BY <1>2, <1>3, <1>4 DEF CommandsInv, InOrder, Before

(***************************************************************************)
(* An acknowledgement: the queue moves on, and the next byte is sent.      *)
(***************************************************************************)
LEMMA AcknowledgedCommands ==
  ASSUME Typed, CommandsInv, acknowledged
  PROVE  /\ Typed' /\ CommandsInv' /\ typed' = typed
         /\ \/ pending' = pending
            \/ Len(OnWay') = 1 /\ Answered' = 1 /\ typed = <<>>
<1>1. output # Empty /\ output' = Empty /\ output[2] = "ACK"
  BY DEF acknowledged, Empty
<1>2. /\ pc = "running" /\ tail = 7 /\ head = Len(accepted) - 1
      /\ Len(accepted) # 7 => ~scanning /\ typed = <<>> /\ pending[0] = <<>>
  BY <1>1, AnswerRead DEF Answers
<1>3. accepted \in Seq(ToSet(Commands)) /\ Len(accepted) <= 7 /\ head \in 0 .. 7
  BY <1>2, CommandCount DEF Typed, CommandsInv, InOrder, Queued
<1>4. head' = Len(accepted) /\ Len(accepted) \in 1 .. 7
  <2>1. head + 1 = Len(accepted)
    BY <1>2, <1>3
  <2>2. head + 1 \in Nat /\ head + 1 <= 7
    BY <1>3, <2>1
  <2>3. (head + 1) % COMMAND_QUEUE_SIZE = head + 1
    BY <2>2, Sizes, SmallMod
  <2>4. head' = head + 1
    BY <2>3 DEF acknowledged, ps2_device_queue_pop
  <2>5. head + 1 \in 1 .. 7
    BY <1>3, <2>2
  <2> QED
    BY <2>1, <2>4, <2>5
<1>5. UNCHANGED <<pc, buffer, tail, decoded>> /\ fail_count' = 0
  BY DEF acknowledged
<1>6. ps2_device_send_topqueue(head')
  BY DEF acknowledged
<1>7. CASE Len(accepted) = 7
  <2>1. UNCHANGED <<pending, device>>
    BY <1>2, <1>4, <1>6, <1>7 DEF ps2_device_send_topqueue
  <2>2. accepted' = accepted /\ typed' = typed
    BY <2>1 DEF device
  <2>3. decoded' \in Seq(Events)
    BY <1>5 DEF Typed
  <2>4. Typed' /\ InOrder' /\ Before' /\ ScansWhenEnabled'
    BY <1>1, <1>2, <1>5, <2>1, <2>3, NothingSent
  <2>5. OnWay' # <<>> => OnWay'[1] \in ScanBytes
    BY <1>1, <2>1, ByteTaken
  <2>6. head' = 7 /\ tail' = 7 /\ Len(accepted') = 7
    BY <1>2, <1>4, <1>5, <1>7, <2>2
  <2>7. Asked'
    BY <1>5, <2>5, <2>6 DEF Asked
  <2>8. Queued'
    BY <1>2, <1>5, <2>6, CommandCount DEF CommandsInv, Queued
  <2> QED
    BY <2>1, <2>2, <2>4, <2>7, <2>8 DEF CommandsInv
<1>8. CASE Len(accepted) # 7
  <2>1. Turn(head')
    <3>1. \A l \in 1 .. 7 : l # 7 => l \in 0 .. 6
      OBVIOUS
    <3> QED
      BY <1>4, <1>8, <3>1, Zenon DEF Turn
  <2>2. Receive(buffer[head'])
    BY <1>2, <1>4, <1>6, <1>8 DEF ps2_device_send_topqueue
  <2>3. fail_count' \in 0 .. COMMAND_RESEND_THRESHOLD - 1
    BY <1>5, Sizes
  <2>4. typed = <<>> /\ pending[0] = <<>> /\ pc # "enqueue" /\ pc' = "running"
    BY <1>2, <1>5, <1>8
  <2>5. /\ Typed' /\ CommandsInv' /\ typed' = typed
        /\ Len(OnWay') = 1 /\ Answered' = 1
    BY <1>1, <1>5, <2>1, <2>2, <2>3, <2>4, Sent
  <2> QED
    BY <2>4, <2>5
<1> QED
  BY <1>7, <1>8

(***************************************************************************)
(* A request for the same byte again: it is sent again, or dropped when    *)
(* the threshold is reached.                                               *)
(***************************************************************************)
LEMMA ResendCommands ==
  ASSUME Typed, CommandsInv, resend
  PROVE  /\ Typed' /\ CommandsInv' /\ typed' = typed
         /\ \/ pending' = pending
            \/ Len(OnWay') = 1 /\ Answered' = 1 /\ typed = <<>>
<1>1. output # Empty /\ output' = Empty /\ output[2] = "RSD"
  BY DEF resend, Resend, Empty
<1>2. /\ pc = "running" /\ tail = 7 /\ head = Len(accepted) /\ head < 7
      /\ fail_count \in 0 .. COMMAND_RESEND_THRESHOLD - 1
  BY <1>1, AnswerRead DEF Answers
<1>3. head \in 0 .. 6 /\ Turn(head) /\ Len(accepted) # 7 /\ head # tail
  <2>1. head \in 0 .. 7 /\ head < 7 /\ tail = 7
    BY <1>2, CommandCount DEF CommandsInv, Queued
  <2>2. head \in 0 .. 6 /\ head # 7 /\ head # tail
    BY <2>1
  <2> QED
    BY <1>2, <2>2 DEF Turn
<1>4. ~scanning /\ typed = <<>> /\ pending[0] = <<>>
  BY <1>1, <1>3, AnswerRead DEF Answers
<1>5. UNCHANGED <<pc, buffer, tail, decoded>>
  BY DEF resend, Resend
<1>6. fail_count' = fail_count + 1
  <2>1. fail_count + 1 \in Nat /\ fail_count + 1 < 256
    BY <1>2, Sizes
  <2>2. (fail_count + 1) % 256 = fail_count + 1
    BY <2>1, SmallMod
  <2> QED
    BY <2>2 DEF resend, Resend
<1>7. CASE fail_count' # COMMAND_RESEND_THRESHOLD
  <2>1. ps2_device_send_topqueue(head) /\ head' = head
    BY <1>7 DEF resend, Resend
  <2>2. Receive(buffer[head])
    BY <1>3, <2>1 DEF ps2_device_send_topqueue
  <2>3. fail_count' \in 0 .. COMMAND_RESEND_THRESHOLD - 1
    BY <1>2, <1>6, <1>7, Sizes
  <2>4. pc # "enqueue" /\ pc' = "running"
    BY <1>2, <1>5
  <2>5. /\ Typed' /\ CommandsInv' /\ typed' = typed
        /\ Len(OnWay') = 1 /\ Answered' = 1
    BY <1>1, <1>3, <1>4, <1>5, <2>1, <2>2, <2>3, <2>4, Sent
  <2> QED
    BY <1>4, <2>5
<1>8. CASE fail_count' = COMMAND_RESEND_THRESHOLD
  <2>1. ps2_device_queue_pop /\ UNCHANGED <<pending, device>>
    BY <1>8 DEF resend, Resend
  <2>2. head' = head + 1
    <3>1. head + 1 \in Nat /\ head + 1 < COMMAND_QUEUE_SIZE
      BY <1>3, Sizes
    <3>2. (head + 1) % COMMAND_QUEUE_SIZE = head + 1
      BY <3>1, Sizes, SmallMod
    <3> QED
      BY <2>1, <3>2 DEF ps2_device_queue_pop
  <2>3. accepted' = accepted /\ typed' = typed /\ scanning' = scanning
    BY <2>1 DEF device
  <2>4. decoded' \in Seq(Events)
    BY <1>5 DEF Typed
  <2>5. Typed' /\ InOrder' /\ Before' /\ ScansWhenEnabled'
    BY <1>1, <1>2, <1>5, <2>1, <2>4, NothingSent
  <2>6. OnWay' = <<>>
    BY <1>1, <1>4, <2>1 DEF OnWay
  <2>7. Asked'
    BY <1>4, <1>8, <2>3, <2>6 DEF Asked
  <2>8. head' \in 0 .. 7
    BY <1>3, <2>2
  <2>9. Queued'
    BY <1>2, <1>5, <2>8, CommandCount DEF CommandsInv, Queued
  <2> QED
    BY <2>1, <2>3, <2>5, <2>7, <2>9 DEF CommandsInv
<1> QED
  BY <1>7, <1>8

(***************************************************************************)
(* A byte of a scan code is none of the queue's business.                  *)
(***************************************************************************)
LEMMA ScanCommands ==
  ASSUME Typed, CommandsInv, output # Empty, output' = Empty, output[2] \in ScanBytes,
         UNCHANGED <<pending, pc, queue, fail_count, device>>, decoded' \in Seq(Events)
  PROVE  Typed' /\ CommandsInv' /\ typed' = typed /\ Answered = 0 /\ OnWay # <<>>
<1>1. OnWay # <<>> /\ OnWay[1] \in ScanBytes
  BY StreamRead
<1>2. OnWay[1] \notin Answers
  BY <1>1 DEF Answers, ScanBytes
<1>3. Answered = 0
  BY <1>2 DEF Answered
<1>4. pc = "running"
  BY <1>1 DEF CommandsInv, Before
<1>5. UNCHANGED <<buffer, head, tail, scanning, accepted, typed>>
  BY DEF queue, device
<1>6. Typed' /\ InOrder' /\ Before' /\ ScansWhenEnabled'
  BY <1>4, <1>5, NothingSent
<1>7. OnWay' # <<>> => OnWay'[1] \in ScanBytes
  BY ByteTaken
<1>8. head = Len(accepted) /\ head = tail /\ fail_count = 0
  BY <1>1, <1>2, <1>4 DEF CommandsInv, Asked, Answers
<1>9. Asked'
  BY <1>5, <1>7, <1>8 DEF Asked
<1>10. Queued'
  BY <1>5 DEF CommandsInv, Queued
<1> QED
  BY <1>1, <1>3, <1>5, <1>6, <1>9, <1>10 DEF CommandsInv

(***************************************************************************)
(* The events and their codes.                                             *)
(***************************************************************************)
LEMMA EventTable ==
  ASSUME NEW e \in Events
  PROVE  \/ e = <<"A", "make">> /\ CodeOf(e) = <<"1C">>
         \/ e = <<"A", "break">> /\ CodeOf(e) = <<"F0", "1C">>
         \/ e = <<"LSHIFT", "make">> /\ CodeOf(e) = <<"12">>
         \/ e = <<"LSHIFT", "break">> /\ CodeOf(e) = <<"F0", "12">>
         \/ e = <<"LCTRL", "make">> /\ CodeOf(e) = <<"14">>
         \/ e = <<"LCTRL", "break">> /\ CodeOf(e) = <<"F0", "14">>
         \/ e = <<"UP", "make">> /\ CodeOf(e) = <<"E0", "75">>
         \/ e = <<"UP", "break">> /\ CodeOf(e) = <<"E0", "F0", "75">>
         \/ e = <<"RCTRL", "make">> /\ CodeOf(e) = <<"E0", "14">>
         \/ e = <<"RCTRL", "break">> /\ CodeOf(e) = <<"E0", "F0", "14">>
         \/ e = <<"PRTSCR", "make">> /\ CodeOf(e) = <<"E0", "12", "E0", "7C">>
         \/ e = <<"PRTSCR", "break">> /\ CodeOf(e) = <<"E0", "F0", "7C", "E0", "F0", "12">>
         \/ e = <<"PAUSE", "make">> /\ CodeOf(e) = <<"E1", "14", "77">>
         \/ e = <<"PAUSE", "break">> /\ CodeOf(e) = <<"E1", "F0", "14", "F0", "77">>
<1>1. PICK key \in Key : e = <<key, "make">> \/ e = <<key, "break">>
  BY DEF Events
<1>2. CASE key = "A"
  <2>1. CASE e = <<"A", "make">>
    <3>1. CodeOf(e) = <<"1C">>
      BY <2>1 DEF CodeOf, ScanCode
    <3> QED
      BY <2>1, <3>1
  <2>2. CASE e = <<"A", "break">>
    <3>1. CodeOf(e) = <<"F0", "1C">>
      BY <2>2 DEF CodeOf, ScanCode
    <3> QED
      BY <2>2, <3>1
  <2> QED
    BY <1>1, <1>2, <2>1, <2>2
<1>3. CASE key = "LSHIFT"
  <2>1. CASE e = <<"LSHIFT", "make">>
    <3>1. CodeOf(e) = <<"12">>
      BY <2>1 DEF CodeOf, ScanCode
    <3> QED
      BY <2>1, <3>1
  <2>2. CASE e = <<"LSHIFT", "break">>
    <3>1. CodeOf(e) = <<"F0", "12">>
      BY <2>2 DEF CodeOf, ScanCode
    <3> QED
      BY <2>2, <3>1
  <2> QED
    BY <1>1, <1>3, <2>1, <2>2
<1>4. CASE key = "LCTRL"
  <2>1. CASE e = <<"LCTRL", "make">>
    <3>1. CodeOf(e) = <<"14">>
      BY <2>1 DEF CodeOf, ScanCode
    <3> QED
      BY <2>1, <3>1
  <2>2. CASE e = <<"LCTRL", "break">>
    <3>1. CodeOf(e) = <<"F0", "14">>
      BY <2>2 DEF CodeOf, ScanCode
    <3> QED
      BY <2>2, <3>1
  <2> QED
    BY <1>1, <1>4, <2>1, <2>2
<1>5. CASE key = "UP"
  <2>1. CASE e = <<"UP", "make">>
    <3>1. CodeOf(e) = <<"E0", "75">>
      BY <2>1 DEF CodeOf, ScanCode
    <3> QED
      BY <2>1, <3>1
  <2>2. CASE e = <<"UP", "break">>
    <3>1. CodeOf(e) = <<"E0", "F0", "75">>
      BY <2>2 DEF CodeOf, ScanCode
    <3> QED
      BY <2>2, <3>1
  <2> QED
    BY <1>1, <1>5, <2>1, <2>2
<1>6. CASE key = "RCTRL"
  <2>1. CASE e = <<"RCTRL", "make">>
    <3>1. CodeOf(e) = <<"E0", "14">>
      BY <2>1 DEF CodeOf, ScanCode
    <3> QED
      BY <2>1, <3>1
  <2>2. CASE e = <<"RCTRL", "break">>
    <3>1. CodeOf(e) = <<"E0", "F0", "14">>
      BY <2>2 DEF CodeOf, ScanCode
    <3> QED
      BY <2>2, <3>1
  <2> QED
    BY <1>1, <1>6, <2>1, <2>2
<1>7. CASE key = "PRTSCR"
  <2>1. CASE e = <<"PRTSCR", "make">>
    <3>1. CodeOf(e) = <<"E0", "12", "E0", "7C">>
      BY <2>1 DEF CodeOf, ScanCode
    <3> QED
      BY <2>1, <3>1
  <2>2. CASE e = <<"PRTSCR", "break">>
    <3>1. CodeOf(e) = <<"E0", "F0", "7C", "E0", "F0", "12">>
      BY <2>2 DEF CodeOf, ScanCode
    <3> QED
      BY <2>2, <3>1
  <2> QED
    BY <1>1, <1>7, <2>1, <2>2
<1>8. CASE key = "PAUSE"
  <2>1. CASE e = <<"PAUSE", "make">>
    <3>1. CodeOf(e) = <<"E1", "14", "77">>
      BY <2>1 DEF CodeOf, ScanCode
    <3> QED
      BY <2>1, <3>1
  <2>2. CASE e = <<"PAUSE", "break">>
    <3>1. CodeOf(e) = <<"E1", "F0", "14", "F0", "77">>
      BY <2>2 DEF CodeOf, ScanCode
    <3> QED
      BY <2>2, <3>1
  <2> QED
    BY <1>1, <1>8, <2>1, <2>2
<1> QED
  BY <1>2, <1>3, <1>4, <1>5, <1>6, <1>7, <1>8 DEF Key

\* A code ends with a byte that is no prefix, and E1 only ever starts one.
IsCode(c) ==
  /\ c \in Seq(ScanBytes) /\ Len(c) \in 1 .. 6
  /\ \A j \in 1 .. Len(c) : c[j] = "E1" => j = 1
  /\ c[Len(c)] \notin {"F0", "E0", "E1"}

LEMMA CodeShape ==
  ASSUME NEW c, IsCode(c)
  PROVE  c \in Seq(ScanBytes) /\ c # <<>> /\ Len(c) \in 1 .. 6
BY DEF IsCode

LEMMA Codes ==
  ASSUME NEW e \in Events
  PROVE  IsCode(CodeOf(e))
<1>1. IsCode(<<"1C">>)
  BY DEF IsCode, ScanBytes
<1>2. IsCode(<<"F0", "1C">>)
  BY DEF IsCode, ScanBytes
<1>3. IsCode(<<"12">>)
  BY DEF IsCode, ScanBytes
<1>4. IsCode(<<"F0", "12">>)
  BY DEF IsCode, ScanBytes
<1>5. IsCode(<<"14">>)
  BY DEF IsCode, ScanBytes
<1>6. IsCode(<<"F0", "14">>)
  BY DEF IsCode, ScanBytes
<1>7. IsCode(<<"E0", "75">>)
  BY DEF IsCode, ScanBytes
<1>8. IsCode(<<"E0", "F0", "75">>)
  BY DEF IsCode, ScanBytes
<1>9. IsCode(<<"E0", "14">>)
  BY DEF IsCode, ScanBytes
<1>10. IsCode(<<"E0", "F0", "14">>)
  BY DEF IsCode, ScanBytes
<1>11. IsCode(<<"E0", "12", "E0", "7C">>)
  BY DEF IsCode, ScanBytes
<1>12. IsCode(<<"E0", "F0", "7C", "E0", "F0", "12">>)
  BY DEF IsCode, ScanBytes
<1>13. IsCode(<<"E1", "14", "77">>)
  BY DEF IsCode, ScanBytes
<1>14. IsCode(<<"E1", "F0", "14", "F0", "77">>)
  BY DEF IsCode, ScanBytes
<1> QED
  BY EventTable, <1>1, <1>2, <1>3, <1>4, <1>5, <1>6, <1>7, <1>8, <1>9, <1>10, <1>11, <1>12, <1>13, <1>14

-----------------------------------------------------------------------------
(***************************************************************************)
(* The handler within one code.                                            *)
(***************************************************************************)

\* The bytes after which the last or the next one of a key comes, and what
\* the handler has made of them.
LEMMA DecoderTable ==
  /\ DecoderAt({}) =>
       flags = {} /\ fullcode = <<>> /\ bytes_to_receive = 0
  /\ DecoderAt({"F0"}) =>
       flags = {"BREAK"} /\ fullcode = <<>> /\ bytes_to_receive = 0
  /\ DecoderAt({"E0"}) =>
       flags = {"EXT_0"} /\ fullcode = <<>> /\ bytes_to_receive = 0
  /\ DecoderAt({"E0", "F0"}) =>
       flags = {"EXT_0", "BREAK"} /\ fullcode = <<>> /\ bytes_to_receive = 0
  /\ DecoderAt({"E0", "12"}) =>
       flags = {"EXT_0"} /\ fullcode = <<"12">> /\ bytes_to_receive = 0
  /\ DecoderAt({"E0", "F0", "7C"}) =>
       flags = {"EXT_0", "BREAK"} /\ fullcode = <<"7C">> /\ bytes_to_receive = 0
  /\ DecoderAt({"E1"}) =>
       flags = {"EXT_1"} /\ fullcode = <<>> /\ bytes_to_receive = 2
  /\ DecoderAt({"E1", "14"}) =>
       flags = {"EXT_1"} /\ fullcode = <<"14">> /\ bytes_to_receive = 1
  /\ DecoderAt({"E1", "F0"}) =>
       flags = {"EXT_1", "BREAK"} /\ fullcode = <<>> /\ bytes_to_receive = 2
  /\ DecoderAt({"E1", "F0", "14"}) =>
       flags = {"EXT_1", "BREAK"} /\ fullcode = <<"14">> /\ bytes_to_receive = 1
<1>1. DecoderAt({}) =>
        flags = {} /\ fullcode = <<>> /\ bytes_to_receive = 0
  BY DEF DecoderAt, Prefix
<1>2. DecoderAt({"F0"}) =>
        flags = {"BREAK"} /\ fullcode = <<>> /\ bytes_to_receive = 0
  BY DEF DecoderAt, Prefix
<1>3. DecoderAt({"E0"}) =>
        flags = {"EXT_0"} /\ fullcode = <<>> /\ bytes_to_receive = 0
  BY DEF DecoderAt, Prefix
<1>4. DecoderAt({"E0", "F0"}) =>
        flags = {"EXT_0", "BREAK"} /\ fullcode = <<>> /\ bytes_to_receive = 0
  BY DEF DecoderAt, Prefix
<1>5. DecoderAt({"E0", "12"}) =>
        flags = {"EXT_0"} /\ fullcode = <<"12">> /\ bytes_to_receive = 0
  BY DEF DecoderAt, Prefix
<1>6. DecoderAt({"E0", "F0", "7C"}) =>
        flags = {"EXT_0", "BREAK"} /\ fullcode = <<"7C">> /\ bytes_to_receive = 0
  BY DEF DecoderAt, Prefix
<1>7. DecoderAt({"E1"}) =>
        flags = {"EXT_1"} /\ fullcode = <<>> /\ bytes_to_receive = 2
  BY DEF DecoderAt, Prefix
<1>8. DecoderAt({"E1", "14"}) =>
        flags = {"EXT_1"} /\ fullcode = <<"14">> /\ bytes_to_receive = 1
  BY DEF DecoderAt, Prefix
<1>9. DecoderAt({"E1", "F0"}) =>
        flags = {"EXT_1", "BREAK"} /\ fullcode = <<>> /\ bytes_to_receive = 2
  BY DEF DecoderAt, Prefix
<1>10. DecoderAt({"E1", "F0", "14"}) =>
        flags = {"EXT_1", "BREAK"} /\ fullcode = <<"14">> /\ bytes_to_receive = 1
  BY DEF DecoderAt, Prefix
<1> QED
  BY <1>1, <1>2, <1>3, <1>4, <1>5, <1>6, <1>7, <1>8, <1>9, <1>10

\* The last byte of a code completes the key, and any earlier one that is no
\* prefix leaves it unfinished.
Completes(e, full) ==
  /\ ~Unfinished(full)
  /\ e = IF "BREAK" \in flags THEN Break(KeyCode(full)) ELSE Make(KeyCode(full))

LEMMA KeyOf ==
  ASSUME NEW e \in Events, NEW n \in 0 .. Len(CodeOf(e)) - 1,
         CodeOf(e)[n + 1] \notin {"F0", "E0", "E1"},
         DecoderAt(Seen(CodeOf(e), n))
  PROVE  IF n + 1 = Len(CodeOf(e))
         THEN Completes(e, Append(fullcode, CodeOf(e)[n + 1])) /\ Len(fullcode) <= 1
         ELSE Unfinished(Append(fullcode, CodeOf(e)[n + 1])) /\ fullcode = <<>>
<1>1. CASE e = <<"A", "make">> /\ CodeOf(e) = <<"1C">>
  <2>1. n \in {0}
    BY <1>1
  <2>2. CASE n = 0
    <3>1. Seen(CodeOf(e), n) = {}
      BY <1>1, <2>2 DEF Seen
    <3>2. flags = {} /\ fullcode = <<>> /\ bytes_to_receive = 0
      BY <3>1, DecoderTable
    <3> QED
      BY <1>1, <2>2, <3>2 DEF Completes, Unfinished, KeyCode, Make, Break, Last
  <2> QED
    BY <2>1, <2>2
<1>2. CASE e = <<"A", "break">> /\ CodeOf(e) = <<"F0", "1C">>
  <2>1. n \in {1}
    <3>1. n \in {0, 1}
      BY <1>2
    <3> QED
      BY <1>2, <3>1
  <2>2. CASE n = 1
    <3>1. Seen(CodeOf(e), n) = {"F0"}
      BY <1>2, <2>2 DEF Seen
    <3>2. flags = {"BREAK"} /\ fullcode = <<>> /\ bytes_to_receive = 0
      BY <3>1, DecoderTable
    <3> QED
      BY <1>2, <2>2, <3>2 DEF Completes, Unfinished, KeyCode, Make, Break, Last
  <2> QED
    BY <2>1, <2>2
<1>3. CASE e = <<"LSHIFT", "make">> /\ CodeOf(e) = <<"12">>
  <2>1. n \in {0}
    BY <1>3
  <2>2. CASE n = 0
    <3>1. Seen(CodeOf(e), n) = {}
      BY <1>3, <2>2 DEF Seen
    <3>2. flags = {} /\ fullcode = <<>> /\ bytes_to_receive = 0
      BY <3>1, DecoderTable
    <3> QED
      BY <1>3, <2>2, <3>2 DEF Completes, Unfinished, KeyCode, Make, Break, Last
  <2> QED
    BY <2>1, <2>2
<1>4. CASE e = <<"LSHIFT", "break">> /\ CodeOf(e) = <<"F0", "12">>
  <2>1. n \in {1}
    <3>1. n \in {0, 1}
      BY <1>4
    <3> QED
      BY <1>4, <3>1
  <2>2. CASE n = 1
    <3>1. Seen(CodeOf(e), n) = {"F0"}
      BY <1>4, <2>2 DEF Seen
    <3>2. flags = {"BREAK"} /\ fullcode = <<>> /\ bytes_to_receive = 0
      BY <3>1, DecoderTable
    <3> QED
      BY <1>4, <2>2, <3>2 DEF Completes, Unfinished, KeyCode, Make, Break, Last
  <2> QED
    BY <2>1, <2>2
<1>5. CASE e = <<"LCTRL", "make">> /\ CodeOf(e) = <<"14">>
  <2>1. n \in {0}
    BY <1>5
  <2>2. CASE n = 0
    <3>1. Seen(CodeOf(e), n) = {}
      BY <1>5, <2>2 DEF Seen
    <3>2. flags = {} /\ fullcode = <<>> /\ bytes_to_receive = 0
      BY <3>1, DecoderTable
    <3> QED
      BY <1>5, <2>2, <3>2 DEF Completes, Unfinished, KeyCode, Make, Break, Last
  <2> QED
    BY <2>1, <2>2
<1>6. CASE e = <<"LCTRL", "break">> /\ CodeOf(e) = <<"F0", "14">>
  <2>1. n \in {1}
    <3>1. n \in {0, 1}
      BY <1>6
    <3> QED
      BY <1>6, <3>1
  <2>2. CASE n = 1
    <3>1. Seen(CodeOf(e), n) = {"F0"}
      BY <1>6, <2>2 DEF Seen
    <3>2. flags = {"BREAK"} /\ fullcode = <<>> /\ bytes_to_receive = 0
      BY <3>1, DecoderTable
    <3> QED
      BY <1>6, <2>2, <3>2 DEF Completes, Unfinished, KeyCode, Make, Break, Last
  <2> QED
    BY <2>1, <2>2
<1>7. CASE e = <<"UP", "make">> /\ CodeOf(e) = <<"E0", "75">>
  <2>1. n \in {1}
    <3>1. n \in {0, 1}
      BY <1>7
    <3> QED
      BY <1>7, <3>1
  <2>2. CASE n = 1
    <3>1. Seen(CodeOf(e), n) = {"E0"}
      BY <1>7, <2>2 DEF Seen
    <3>2. flags = {"EXT_0"} /\ fullcode = <<>> /\ bytes_to_receive = 0
      BY <3>1, DecoderTable
    <3> QED
      BY <1>7, <2>2, <3>2 DEF Completes, Unfinished, KeyCode, Make, Break, Last
  <2> QED
    BY <2>1, <2>2
<1>8. CASE e = <<"UP", "break">> /\ CodeOf(e) = <<"E0", "F0", "75">>
  <2>1. n \in {2}
    <3>1. n \in {0, 1, 2}
      BY <1>8
    <3> QED
      BY <1>8, <3>1
  <2>2. CASE n = 2
    <3>1. Seen(CodeOf(e), n) = {"E0", "F0"}
      BY <1>8, <2>2 DEF Seen
    <3>2. flags = {"EXT_0", "BREAK"} /\ fullcode = <<>> /\ bytes_to_receive = 0
      BY <3>1, DecoderTable
    <3> QED
      BY <1>8, <2>2, <3>2 DEF Completes, Unfinished, KeyCode, Make, Break, Last
  <2> QED
    BY <2>1, <2>2
<1>9. CASE e = <<"RCTRL", "make">> /\ CodeOf(e) = <<"E0", "14">>
  <2>1. n \in {1}
    <3>1. n \in {0, 1}
      BY <1>9
    <3> QED
      BY <1>9, <3>1
  <2>2. CASE n = 1
    <3>1. Seen(CodeOf(e), n) = {"E0"}
      BY <1>9, <2>2 DEF Seen
    <3>2. flags = {"EXT_0"} /\ fullcode = <<>> /\ bytes_to_receive = 0
      BY <3>1, DecoderTable
    <3> QED
      BY <1>9, <2>2, <3>2 DEF Completes, Unfinished, KeyCode, Make, Break, Last
  <2> QED
    BY <2>1, <2>2
<1>10. CASE e = <<"RCTRL", "break">> /\ CodeOf(e) = <<"E0", "F0", "14">>
  <2>1. n \in {2}
    <3>1. n \in {0, 1, 2}
      BY <1>10
    <3> QED
      BY <1>10, <3>1
  <2>2. CASE n = 2
    <3>1. Seen(CodeOf(e), n) = {"E0", "F0"}
      BY <1>10, <2>2 DEF Seen
    <3>2. flags = {"EXT_0", "BREAK"} /\ fullcode = <<>> /\ bytes_to_receive = 0
      BY <3>1, DecoderTable
    <3> QED
      BY <1>10, <2>2, <3>2 DEF Completes, Unfinished, KeyCode, Make, Break, Last
  <2> QED
    BY <2>1, <2>2
<1>11. CASE e = <<"PRTSCR", "make">> /\ CodeOf(e) = <<"E0", "12", "E0", "7C">>
  <2>1. n \in {1, 3}
    <3>1. n \in {0, 1, 2, 3}
      BY <1>11
    <3> QED
      BY <1>11, <3>1
  <2>2. CASE n = 1
    <3>1. Seen(CodeOf(e), n) = {"E0"}
      BY <1>11, <2>2 DEF Seen
    <3>2. flags = {"EXT_0"} /\ fullcode = <<>> /\ bytes_to_receive = 0
      BY <3>1, DecoderTable
    <3>3. CodeOf(e)[n + 1] = "12" /\ n + 1 # Len(CodeOf(e))
      BY <1>11, <2>2
    <3>4. Unfinished(<<"12">>)
      BY <3>2 DEF Unfinished
    <3>5. Append(fullcode, CodeOf(e)[n + 1]) = <<"12">>
      BY <3>2, <3>3
    <3> QED
      BY <3>2, <3>3, <3>4, <3>5, Zenon
  <2>3. CASE n = 3
    <3>1. Seen(CodeOf(e), n) = {"E0", "12"}
      BY <1>11, <2>3 DEF Seen
    <3>2. flags = {"EXT_0"} /\ fullcode = <<"12">> /\ bytes_to_receive = 0
      BY <3>1, DecoderTable
    <3>3. Append(fullcode, CodeOf(e)[n + 1]) = <<"12", "7C">> 
      <4>1. fullcode = <<"12">> /\ CodeOf(e)[n + 1] = "7C"
        BY <1>11, <2>3, <3>2
      <4> QED
        BY <4>1, Pair
    <3>4. Completes(e, <<"12", "7C">>)
      BY <1>11, <3>2 DEF Completes, Unfinished, KeyCode, Make, Break
    <3>5. n + 1 = Len(CodeOf(e)) /\ Len(fullcode) = 1
      BY <1>11, <2>3, <3>2
    <3> QED
      BY <3>3, <3>4, <3>5
  <2> QED
    BY <2>1, <2>2, <2>3
<1>12. CASE e = <<"PRTSCR", "break">> /\ CodeOf(e) = <<"E0", "F0", "7C", "E0", "F0", "12">>
  <2>1. n \in {2, 5}
    <3>1. n \in {0, 1, 2, 3, 4, 5}
      BY <1>12
    <3> QED
      BY <1>12, <3>1
  <2>2. CASE n = 2
    <3>1. Seen(CodeOf(e), n) = {"E0", "F0"}
      BY <1>12, <2>2 DEF Seen
    <3>2. flags = {"EXT_0", "BREAK"} /\ fullcode = <<>> /\ bytes_to_receive = 0
      BY <3>1, DecoderTable
    <3> QED
      BY <1>12, <2>2, <3>2 DEF Completes, Unfinished, KeyCode, Make, Break, Last
  <2>3. CASE n = 5
    <3>1. Seen(CodeOf(e), n) = {"E0", "F0", "7C"}
      BY <1>12, <2>3 DEF Seen
    <3>2. flags = {"EXT_0", "BREAK"} /\ fullcode = <<"7C">> /\ bytes_to_receive = 0
      BY <3>1, DecoderTable
    <3>3. Append(fullcode, CodeOf(e)[n + 1]) = <<"7C", "12">> 
      <4>1. fullcode = <<"7C">> /\ CodeOf(e)[n + 1] = "12"
        BY <1>12, <2>3, <3>2
      <4> QED
        BY <4>1, Pair
    <3>4. Completes(e, <<"7C", "12">>)
      BY <1>12, <3>2 DEF Completes, Unfinished, KeyCode, Make, Break
    <3>5. n + 1 = Len(CodeOf(e)) /\ Len(fullcode) = 1
      BY <1>12, <2>3, <3>2
    <3> QED
      BY <3>3, <3>4, <3>5
  <2> QED
    BY <2>1, <2>2, <2>3
<1>13. CASE e = <<"PAUSE", "make">> /\ CodeOf(e) = <<"E1", "14", "77">>
  <2>1. n \in {1, 2}
    <3>1. n \in {0, 1, 2}
      BY <1>13
    <3> QED
      BY <1>13, <3>1
  <2>2. CASE n = 1
    <3>1. Seen(CodeOf(e), n) = {"E1"}
      BY <1>13, <2>2 DEF Seen
    <3>2. flags = {"EXT_1"} /\ fullcode = <<>> /\ bytes_to_receive = 2
      BY <3>1, DecoderTable
    <3> QED
      BY <1>13, <2>2, <3>2 DEF Completes, Unfinished, KeyCode, Make, Break, Last
  <2>3. CASE n = 2
    <3>1. Seen(CodeOf(e), n) = {"E1", "14"}
      BY <1>13, <2>3 DEF Seen
    <3>2. flags = {"EXT_1"} /\ fullcode = <<"14">> /\ bytes_to_receive = 1
      BY <3>1, DecoderTable
    <3>3. Append(fullcode, CodeOf(e)[n + 1]) = <<"14", "77">> 
      <4>1. fullcode = <<"14">> /\ CodeOf(e)[n + 1] = "77"
        BY <1>13, <2>3, <3>2
      <4> QED
        BY <4>1, Pair
    <3>4. Completes(e, <<"14", "77">>)
      BY <1>13, <3>2 DEF Completes, Unfinished, KeyCode, Make, Break
    <3>5. n + 1 = Len(CodeOf(e)) /\ Len(fullcode) = 1
      BY <1>13, <2>3, <3>2
    <3> QED
      BY <3>3, <3>4, <3>5
  <2> QED
    BY <2>1, <2>2, <2>3
<1>14. CASE e = <<"PAUSE", "break">> /\ CodeOf(e) = <<"E1", "F0", "14", "F0", "77">>
  <2>1. n \in {2, 4}
    <3>1. n \in {0, 1, 2, 3, 4}
      BY <1>14
    <3> QED
      BY <1>14, <3>1
  <2>2. CASE n = 2
    <3>1. Seen(CodeOf(e), n) = {"E1", "F0"}
      BY <1>14, <2>2 DEF Seen
    <3>2. flags = {"EXT_1", "BREAK"} /\ fullcode = <<>> /\ bytes_to_receive = 2
      BY <3>1, DecoderTable
    <3> QED
      BY <1>14, <2>2, <3>2 DEF Completes, Unfinished, KeyCode, Make, Break, Last
  <2>3. CASE n = 4
    <3>1. Seen(CodeOf(e), n) = {"E1", "F0", "14"}
      BY <1>14, <2>3 DEF Seen
    <3>2. flags = {"EXT_1", "BREAK"} /\ fullcode = <<"14">> /\ bytes_to_receive = 1
      BY <3>1, DecoderTable
    <3>3. Append(fullcode, CodeOf(e)[n + 1]) = <<"14", "77">> 
      <4>1. fullcode = <<"14">> /\ CodeOf(e)[n + 1] = "77"
        BY <1>14, <2>3, <3>2
      <4> QED
        BY <4>1, Pair
    <3>4. Completes(e, <<"14", "77">>)
      BY <1>14, <3>2 DEF Completes, Unfinished, KeyCode, Make, Break
    <3>5. n + 1 = Len(CodeOf(e)) /\ Len(fullcode) = 1
      BY <1>14, <2>3, <3>2
    <3> QED
      BY <3>3, <3>4, <3>5
  <2> QED
    BY <2>1, <2>2, <2>3
<1> QED
  BY EventTable, <1>1, <1>2, <1>3, <1>4, <1>5, <1>6, <1>7, <1>8, <1>9, <1>10, <1>11, <1>12, <1>13, <1>14

LEMMA SeenOneMore ==
  ASSUME NEW c, NEW n \in Nat
  PROVE  Seen(c, n + 1) = Seen(c, n) \cup {c[n + 1]} /\ Seen(c, 0) = {}
<1>1. 1 .. n + 1 = (1 .. n) \cup {n + 1}
  OBVIOUS
<1>2. 1 .. 0 = {}
  OBVIOUS
<1>3. Seen(c, n + 1) = Seen(c, n) \cup {c[n + 1]}
  BY <1>1, Zenon DEF Seen
<1>4. Seen(c, 0) = {}
  BY <1>2, Zenon DEF Seen
<1> QED
  BY <1>3, <1>4

\* The bytes that are prefixes.
LEMMA PrefixBytes == DOMAIN Prefix = {"F0", "E0", "E1"}
  BY DEF Prefix

(***************************************************************************)
(* A prefix sets its flag, and is never the last byte of a code.           *)
(***************************************************************************)
LEMMA PrefixStep ==
  ASSUME NEW e \in Events, NEW n \in 0 .. Len(CodeOf(e)) - 1,
         DecoderAt(Seen(CodeOf(e), n)),
         output[2] = CodeOf(e)[n + 1], prefix
  PROVE  /\ n + 1 < Len(CodeOf(e)) /\ decoded' = decoded
         /\ DecoderAt(Seen(CodeOf(e), n + 1))'
<1> DEFINE c == CodeOf(e)
           b == c[n + 1]
           seen == Seen(c, n)
<1>1. b \in DOMAIN Prefix
  BY DEF prefix
<1>2. n \in Nat /\ n < Len(c) /\ Len(c) \in Nat /\ n + 1 \in 1 .. Len(c) /\ n + 1 # Len(c)
  <2>1. Len(c) \in 1 .. 6 /\ c[Len(c)] \notin {"F0", "E0", "E1"}
    BY Codes DEF IsCode
  <2>2. n + 1 # Len(c)
    BY <1>1, <2>1, PrefixBytes
  <2> QED
    BY <2>1, <2>2
<1>3. b = "E1" => n = 0
  BY <1>2, Codes DEF IsCode
<1>4. Seen(c, n + 1) = seen \cup {b} /\ Seen(c, 0) = {}
  BY <1>2, SeenOneMore
<1>5. DecoderAt(seen)
  OBVIOUS
<1>6. /\ flags' = flags \cup {Prefix[b]} /\ fullcode' = fullcode /\ decoded' = decoded
      /\ bytes_to_receive' = IF b = "E1" THEN 2 ELSE bytes_to_receive
  BY DEF prefix
<1>7. b = "E1" => seen = {}
  BY <1>3, <1>4
<1> HIDE DEF c, b, seen
<1>8. DecoderAt(seen \cup {b})'
  <2>1. flags' = {Prefix[x] : x \in (seen \cup {b}) \cap DOMAIN Prefix}
    <3>1. (seen \cup {b}) \cap DOMAIN Prefix = (seen \cap DOMAIN Prefix) \cup {b}
      BY <1>1
    <3>2. flags = {Prefix[x] : x \in seen \cap DOMAIN Prefix}
      BY <1>5 DEF DecoderAt
    <3> QED
      BY <1>6, <3>1, <3>2, Zenon
  <2>2. (seen \cup {b}) \ DOMAIN Prefix = seen \ DOMAIN Prefix
    BY <1>1
  <2>3. \/ seen \cup {b} \subseteq DOMAIN Prefix /\ fullcode' = <<>>
        \/ \E x \in seen \cup {b} : (seen \cup {b}) \ DOMAIN Prefix = {x} /\ fullcode' = <<x>>
    BY <1>1, <1>5, <1>6, <2>2 DEF DecoderAt
  <2>4. bytes_to_receive' =
          IF "E1" \notin seen \cup {b} THEN 0 ELSE IF fullcode' = <<>> THEN 2 ELSE 1
    <3>1. CASE b = "E1"
      <4>1. fullcode = <<>>
        BY <1>5, <1>7, <3>1 DEF DecoderAt
      <4> QED
        BY <1>6, <3>1, <4>1
    <3>2. CASE b # "E1"
      <4>1. "E1" \in seen \cup {b} <=> "E1" \in seen
        BY <3>2
      <4>2. bytes_to_receive = IF "E1" \notin seen THEN 0 ELSE IF fullcode = <<>> THEN 2 ELSE 1
        BY <1>5 DEF DecoderAt
      <4> QED
        BY <1>6, <3>2, <4>1, <4>2
    <3> QED
      BY <3>1, <3>2
  <2> QED
    BY <2>1, <2>3, <2>4 DEF DecoderAt
<1>9. DecoderAt(Seen(c, n + 1))'
  BY <1>4, <1>8
<1> QED
  BY <1>2, <1>6, <1>9 DEF c

\* The handler's window on the last bytes holds all of them here.
LEMMA WholeCode ==
  ASSUME NEW S, NEW s \in Seq(S), NEW b \in S, Len(s) <= 1
  PROVE  LET bytes == Append(s, b)
         IN  SubSeq(bytes, IF Len(bytes) > 4 THEN 2 ELSE 1, Len(bytes)) = Append(s, b)
<1> DEFINE bytes == Append(s, b)
           cut == SubSeq(bytes, 1, Len(bytes))
<1>1. bytes \in Seq(S) /\ Len(bytes) = Len(s) + 1
  BY LastAppended
<1>2. ~(Len(bytes) > 4) /\ Len(bytes) \in Nat
  BY <1>1
<1> HIDE DEF bytes
<1>3. cut \in Seq(S) /\ Len(cut) = Len(bytes) /\ \A k \in 1 .. Len(bytes) : cut[k] = bytes[k]
  BY <1>1, <1>2
<1> HIDE DEF cut
<1>4. cut = bytes
  BY <1>1, <1>3, SameSequence
<1> QED
  BY <1>2, <1>4 DEF bytes, cut

(***************************************************************************)
(* Any other byte of a code is kept, or is the last and makes the key.     *)
(***************************************************************************)
LEMMA CodeStep ==
  ASSUME NEW e \in Events, NEW n \in 0 .. Len(CodeOf(e)) - 1,
         DecoderAt(Seen(CodeOf(e), n)),
         output[2] = CodeOf(e)[n + 1], code
  PROVE  IF n + 1 = Len(CodeOf(e))
         THEN decoded' = Append(decoded, e) /\ DecoderAt({})'
         ELSE decoded' = decoded /\ DecoderAt(Seen(CodeOf(e), n + 1))'
<1> DEFINE c == CodeOf(e)
           b == c[n + 1]
           seen == Seen(c, n)
           full == Append(fullcode, b)
<1>1. b \notin DOMAIN Prefix /\ b \notin {"F0", "E0", "E1"}
  BY PrefixBytes DEF code
<1>2. DecoderAt(seen)
  OBVIOUS
<1>3. IF n + 1 = Len(c)
      THEN Completes(e, full) /\ Len(fullcode) <= 1
      ELSE Unfinished(full) /\ fullcode = <<>>
  BY <1>1, KeyOf
<1>4. /\ IF Unfinished(full)
         THEN fullcode' = full /\ UNCHANGED <<flags, decoded>>
         ELSE KeyDone(full)
      /\ bytes_to_receive' = IF bytes_to_receive > 0 THEN bytes_to_receive - 1 ELSE 0
  <2>1. PICK S : fullcode \in Seq(S) /\ b \in S /\ Len(fullcode) <= 1
    <3>1. fullcode = <<>> \/ \E x \in seen : fullcode = <<x>>
      BY <1>2 DEF DecoderAt
    <3>2. fullcode \in Seq(seen \cup {b}) /\ Len(fullcode) <= 1
      <4>1. CASE fullcode = <<>>
        BY <4>1
      <4>2. CASE fullcode # <<>>
        <5>1. PICK x \in seen : fullcode = <<x>>
          BY <3>1, <4>2
        <5>2. x \in seen \cup {b}
          OBVIOUS
        <5> HIDE DEF seen, b
        <5> QED
          BY <5>1, <5>2
      <4> QED
        BY <4>1, <4>2
    <3> QED
      BY <3>2
  <2>2. LET bytes == Append(fullcode, b)
        IN  SubSeq(bytes, IF Len(bytes) > 4 THEN 2 ELSE 1, Len(bytes)) = full
    BY <2>1, WholeCode
  <2> QED
    BY <2>2, Zenon DEF code
<1>5. n \in Nat
  BY Codes DEF IsCode
<1>6. Seen(c, n + 1) = seen \cup {b}
  BY <1>5, SeenOneMore
<1> HIDE DEF c, b, seen, full
<1>7. CASE n + 1 = Len(c)
  <2>1. Completes(e, full) /\ ~Unfinished(full) /\ KeyDone(full)
    BY <1>3, <1>4, <1>7 DEF Completes
  <2>2. flags' = {} /\ fullcode' = <<>> /\ decoded' = Append(decoded, e)
    BY <2>1 DEF Completes, KeyDone, Emit
  <2>3. bytes_to_receive \in {0, 1}
    BY <1>2, <2>1 DEF DecoderAt, Unfinished
  <2>4. bytes_to_receive' = 0
    BY <1>4, <2>3
  <2>5. {} = {Prefix[x] : x \in {} \cap DOMAIN Prefix}
    OBVIOUS
  <2>6. DecoderAt({})'
    BY <2>2, <2>4, <2>5 DEF DecoderAt
  <2> QED
    BY <1>7, <2>2, <2>6 DEF c
<1>8. CASE n + 1 # Len(c)
  <2>1. Unfinished(full) /\ fullcode = <<>>
    BY <1>3, <1>8
  <2>2. fullcode' = <<b>> /\ flags' = flags /\ decoded' = decoded
    BY <1>4, <2>1 DEF full
  <2>3. bytes_to_receive = IF "E1" \notin seen THEN 0 ELSE 2
    BY <1>2, <2>1 DEF DecoderAt
  <2>4. seen \subseteq DOMAIN Prefix
    BY <1>2, <2>1 DEF DecoderAt
  <2>5. (seen \cup {b}) \cap DOMAIN Prefix = seen \cap DOMAIN Prefix /\ (seen \cup {b}) \ DOMAIN Prefix = {b}
    BY <1>1, <2>4
  <2>6. flags' = {Prefix[x] : x \in (seen \cup {b}) \cap DOMAIN Prefix}
    BY <1>2, <2>2, <2>5 DEF DecoderAt
  <2>7. bytes_to_receive' =
          IF "E1" \notin seen \cup {b} THEN 0 ELSE IF fullcode' = <<>> THEN 2 ELSE 1
    <3>1. "E1" \in seen \cup {b} <=> "E1" \in seen
      BY <1>1
    <3>2. fullcode' # <<>>
      BY <2>2
    <3>3. bytes_to_receive' = IF "E1" \notin seen THEN 0 ELSE 1
      BY <1>4, <2>3
    <3> QED
      BY <3>1, <3>2, <3>3
  <2>8. DecoderAt(seen \cup {b})'
    BY <2>2, <2>5, <2>6, <2>7 DEF DecoderAt
  <2> QED
    BY <1>6, <1>8, <2>2, <2>8 DEF c
<1> QED
  BY <1>7, <1>8

-----------------------------------------------------------------------------
(***************************************************************************)
(* The keys, action by action.                                             *)
(***************************************************************************)

(***************************************************************************)
(* When nothing is typed and no scan code read, the keys stay as they are, *)
(* whatever comes and goes in front of them.                               *)
(***************************************************************************)
LEMMA KeysStay ==
  ASSUME KeysInv, UNCHANGED <<typed, decoded, decoder>>,
         Len(OnWay') - Answered' = Len(OnWay) - Answered,
         \A k \in 1 .. Len(OnWay) - Answered : OnWay'[k + Answered'] = OnWay[k + Answered],
         OnWay \in Seq(Answers \cup ScanBytes), OnWay' \in Seq(Answers \cup ScanBytes)
  PROVE  KeysInv'
<1>1. PICK stream \in Seq(ScanBytes), got \in Nat :
        \E end \in [0 .. Len(typed) -> 0 .. Len(stream)] :
          Laid(stream, end, typed) /\ Ahead(stream, got) /\ Reading(end, got)
  BY DEF KeysInv
<1>2. PICK end \in [0 .. Len(typed) -> 0 .. Len(stream)] :
        Laid(stream, end, typed) /\ Ahead(stream, got) /\ Reading(end, got)
  BY <1>1
<1>3. UNCHANGED <<typed, decoded, bytes_to_receive, fullcode, flags>>
  BY DEF decoder
<1>4. Answered \in {0, 1} /\ Answered' \in {0, 1} /\ Len(OnWay) \in Nat /\ Len(OnWay') \in Nat
  BY DEF Answered
<1>5. Ahead(stream, got)'
  <2>1. /\ got \in 0 .. Len(stream) /\ Len(stream) \in Nat
        /\ Len(OnWay) = Answered + Len(stream) - got
        /\ \A p \in got + 1 .. Len(stream) : OnWay[Answered + p - got] = stream[p]
    BY <1>2 DEF Ahead
  <2>2. Len(OnWay') = Answered' + Len(stream) - got
    BY <1>4, <2>1
  <2>3. ASSUME NEW p \in got + 1 .. Len(stream)
        PROVE  OnWay'[Answered' + p - got] = stream[p]
    <3>1. p - got \in 1 .. Len(OnWay) - Answered
      BY <1>4, <2>1
    <3>2. PICK k \in 1 .. Len(OnWay) - Answered : k = p - got
      BY <3>1
    <3>3. OnWay'[k + Answered'] = OnWay[k + Answered]
      BY <3>2
    <3>4. k + Answered' = Answered' + p - got /\ k + Answered = Answered + p - got
      BY <1>4, <2>1, <3>2
    <3>5. OnWay[Answered + p - got] = stream[p]
      BY <2>1
    <3> QED
      BY <3>3, <3>4, <3>5
  <2> QED
    BY <2>1, <2>2, <2>3 DEF Ahead
<1>6. Laid(stream, end, typed') /\ Reading(end, got)'
  BY <1>2, <1>3 DEF Reading, Under, DecoderAt
<1>7. end \in [0 .. Len(typed') -> 0 .. Len(stream)]
  BY <1>3
<1> QED
  BY <1>5, <1>6, <1>7 DEF KeysInv

\* The code that begins where the one before it has been read.
LEMMA NextCode ==
  ASSUME NEW g \in Nat, NEW x, NEW y, NEW l \in 1 .. 6, x = g + 1, y = x + l
  PROVE  g + 1 < y /\ g + 1 - x = 0
OBVIOUS

(***************************************************************************)
(* Reading a byte of a scan code brings the handler one byte further.      *)
(***************************************************************************)
LEMMA KeysRead ==
  ASSUME Typed, KeysInv, output # Empty, output' = Empty,
         UNCHANGED <<pending, typed>>, Answered = 0,
         prefix \/ code
  PROVE  KeysInv' /\ decoded' \in Seq(Events)
<1>1. PICK stream \in Seq(ScanBytes), got \in Nat :
        \E end \in [0 .. Len(typed) -> 0 .. Len(stream)] :
          Laid(stream, end, typed) /\ Ahead(stream, got) /\ Reading(end, got)
  BY DEF KeysInv
<1>2. PICK end \in [0 .. Len(typed) -> 0 .. Len(stream)] :
        Laid(stream, end, typed) /\ Ahead(stream, got) /\ Reading(end, got)
  BY <1>1
<1> DEFINE total == Len(stream)
           d == Len(decoded)
<1>3. /\ total \in Nat /\ got \in 0 .. total /\ Len(OnWay) = total - got
      /\ \A p \in got + 1 .. total : OnWay[p - got] = stream[p]
  <2>1. /\ got \in 0 .. Len(stream)
        /\ Len(OnWay) = Answered + Len(stream) - got
        /\ \A p \in got + 1 .. Len(stream) : OnWay[Answered + p - got] = stream[p]
    BY <1>2 DEF Ahead
  <2>2. Len(stream) \in Nat
    OBVIOUS
  <2>3. ASSUME NEW p \in got + 1 .. Len(stream)
        PROVE  OnWay[p - got] = stream[p]
    <3>1. Answered + p - got = p - got
      BY <2>1, <2>2
    <3> QED
      BY <2>1, <3>1
  <2> QED
    BY <2>1, <2>2, <2>3
<1>4. Len(OnWay) \in Nat /\ Len(OnWay) >= 1 /\ OnWay[1] = output[2]
  BY StreamRead
<1>5. got + 1 \in 1 .. total /\ stream[got + 1] = output[2]
  <2>1. got + 1 \in got + 1 .. total /\ got + 1 - got = 1
    BY <1>3, <1>4
  <2>2. OnWay[got + 1 - got] = stream[got + 1]
    BY <1>3, <2>1
  <2> QED
    BY <1>3, <1>4, <2>1, <2>2
<1>6. d \in Nat /\ Len(typed) \in Nat /\ d < Len(typed) /\ end[Len(typed)] = total
  <2>1. d \in Nat /\ Len(typed) \in Nat /\ d <= Len(typed)
    BY <1>2 DEF Typed, Reading
  <2>2. end[Len(typed)] = total /\ end[d] <= got
    BY <1>2 DEF Laid, Reading
  <2>3. d # Len(typed)
    BY <1>3, <1>5, <2>1, <2>2
  <2> QED
    BY <2>1, <2>2, <2>3
<1> DEFINE e == typed[d + 1]
           c == CodeOf(e)
           n == got - end[d]
<1>7. e \in Events /\ d + 1 \in 1 .. Len(typed)
  BY <1>6 DEF Typed
<1>8. /\ end[d + 1] = end[d] + Len(c) /\ end[d] <= got /\ got < end[d + 1]
      /\ end[d] \in Nat /\ end[d + 1] \in 0 .. total
      /\ \A j \in 1 .. Len(c) : stream[end[d] + j] = c[j]
  <2>1. d + 1 - 1 = d /\ d \in 0 .. Len(typed) /\ d + 1 \in 0 .. Len(typed)
    BY <1>6, <1>7
  <2>2. end[d] \in Nat /\ end[d + 1] \in 0 .. total
    <3>1. \A f \in [0 .. Len(typed) -> 0 .. Len(stream)], i \in 0 .. Len(typed) : f[i] \in 0 .. Len(stream)
      OBVIOUS
    <3>2. end[d] \in 0 .. Len(stream) /\ end[d + 1] \in 0 .. Len(stream)
      BY <1>2, <2>1, <3>1, Zenon
    <3> QED
      BY <3>2
  <2>3. end[d] <= got /\ got < end[d + 1]
    BY <1>2, <1>6 DEF Reading
  <2>4. /\ end[d + 1] = end[d + 1 - 1] + Len(c)
        /\ \A j \in 1 .. Len(c) : stream[end[d + 1 - 1] + j] = c[j]
    BY <1>2, <1>7, SMTT(30) DEF Laid
  <2>5. /\ end[d + 1] = end[d] + Len(c)
        /\ \A j \in 1 .. Len(c) : stream[end[d] + j] = c[j]
    <3>1. d + 1 - 1 = d
      BY <2>1
    <3> HIDE DEF d, c
    <3> QED
      BY <2>4, <3>1
  <2> QED
    BY <2>2, <2>3, <2>5
<1>9. Len(c) \in Nat /\ n \in 0 .. Len(c) - 1 /\ c[n + 1] = output[2]
  <2>1. Len(c) \in Nat
    BY <1>7, Codes DEF IsCode
  <2>2. n \in 0 .. Len(c) - 1 /\ n + 1 \in 1 .. Len(c) /\ end[d] + (n + 1) = got + 1
    BY <1>8, <2>1, SMTT(30)
  <2>3. stream[end[d] + (n + 1)] = c[n + 1]
    BY <1>8, <2>2
  <2> QED
    BY <1>5, <2>1, <2>2, <2>3
<1>10. DecoderAt(Seen(c, n))
  BY <1>2, <1>6 DEF Reading, Under
<1>11. Ahead(stream, got + 1)'
  <2>1. /\ Answered' = 0 /\ Len(OnWay') = Len(OnWay) - 1
        /\ \A k \in 1 .. Len(OnWay') : OnWay'[k] = OnWay[k + 1]
    BY ByteTaken
  <2>2. Len(OnWay') = Answered' + total - (got + 1) /\ got + 1 \in 0 .. total
    BY <1>3, <1>5, <2>1
  <2>3. ASSUME NEW p \in got + 1 + 1 .. total
        PROVE  OnWay'[Answered' + p - (got + 1)] = stream[p]
    <3>1. p - (got + 1) \in 1 .. Len(OnWay') /\ p \in got + 1 .. total
      BY <1>3, <2>1, <2>2
    <3>2. PICK k \in 1 .. Len(OnWay') : k = p - (got + 1)
      BY <3>1
    <3>3. OnWay'[k] = OnWay[k + 1]
      BY <2>1
    <3>4. k + 1 = p - got /\ Answered' + p - (got + 1) = k
      BY <1>3, <2>1, <3>2
    <3>5. OnWay[p - got] = stream[p]
      BY <1>3, <3>1
    <3> QED
      BY <3>3, <3>4, <3>5
  <2> QED
    BY <2>2, <2>3 DEF Ahead
<1>12. Laid(stream, end, typed')
  BY <1>2
<1>13. ASSUME Reading(end, got + 1)' PROVE KeysInv'
  <2>1. got + 1 \in Nat /\ end \in [0 .. Len(typed') -> 0 .. Len(stream)]
    OBVIOUS
  <2> QED
    BY <1>11, <1>12, <1>13, <2>1 DEF KeysInv
<1>14. decoded \in Seq(Events) /\ typed \in Seq(Events) /\ \A i \in 1 .. d : decoded[i] = typed[i]
  BY <1>2 DEF Typed, Reading
<1>15. IF n + 1 = Len(c)
       THEN decoded' = Append(decoded, e) /\ DecoderAt({})'
       ELSE decoded' = decoded /\ DecoderAt(Seen(c, n + 1))'
  <2>1. CASE prefix
    <3>1. n + 1 < Len(c) /\ decoded' = decoded /\ DecoderAt(Seen(c, n + 1))'
      BY <1>7, <1>9, <1>10, <2>1, PrefixStep
    <3>2. n + 1 # Len(c)
      BY <1>9, <3>1
    <3> QED
      BY <3>1, <3>2
  <2>2. CASE code
    BY <1>7, <1>9, <1>10, <2>2, CodeStep
  <2> QED
    BY <2>1, <2>2
<1>16. CASE n + 1 = Len(c)
  <2>1. decoded' = Append(decoded, e) /\ DecoderAt({})'
    BY <1>15, <1>16
  <2>2. /\ decoded' \in Seq(Events) /\ Len(decoded') = d + 1
        /\ decoded'[d + 1] = e /\ \A i \in 1 .. d : decoded'[i] = decoded[i]
    BY <1>7, <1>14, <2>1, LastAppended
  <2>3. \A i \in 1 .. Len(decoded') : decoded'[i] = typed'[i]
    <3> TAKE i \in 1 .. Len(decoded')
    <3>1. i \in 1 .. d \/ i = d + 1
      BY <1>6, <2>2
    <3> QED
      BY <1>14, <2>2, <3>1
  <2>4. end[d + 1] = got + 1
    BY <1>8, <1>9, <1>16, SMTT(30)
  <2>5. CASE d + 1 = Len(typed)
    <3>1. Reading(end, got + 1)'
      BY <1>6, <2>1, <2>2, <2>3, <2>4, <2>5 DEF Reading, Under
    <3> QED
      BY <1>13, <2>2, <3>1
  <2>6. CASE d + 1 # Len(typed)
    <3> DEFINE m == Len(decoded')
    <3>1. m \in Nat /\ m + 1 \in 1 .. Len(typed) /\ m + 1 - 1 = m /\ end[m] = got + 1
      BY <1>6, <2>2, <2>4, <2>6
    <3>2. end[m + 1] = end[m + 1 - 1] + Len(CodeOf(typed[m + 1]))
      BY <1>2, <3>1 DEF Laid
    <3>3. Len(CodeOf(typed[m + 1])) \in 1 .. 6
      BY <1>14, <3>1, Codes DEF IsCode
    <3>4. got + 1 < end[m + 1] /\ got + 1 - end[m] = 0
      <4>1. end[m + 1] = end[m] + Len(CodeOf(typed[m + 1]))
        BY <3>1, <3>2, Zenon
      <4> QED
        BY <3>1, <3>3, <4>1, NextCode, Zenon
    <3>5. Seen(CodeOf(typed[m + 1]), got + 1 - end[m]) = {}
      BY <3>4, SeenOneMore
    <3>6. m # Len(typed') /\ m <= Len(typed') /\ end[m] <= got + 1 /\ typed' = typed
      BY <1>6, <2>2, <2>6, <3>1
    <3>7. Under(end, got + 1)' = {}
      <4>1. Under(end, got + 1)' = Seen(CodeOf(typed'[m + 1]), got + 1 - end[m])
        BY <3>6 DEF Under
      <4>2. typed' = typed
        OBVIOUS
      <4> QED
        BY <3>5, <4>1, <4>2, Zenon
    <3>8. Reading(end, got + 1)'
      BY <2>1, <2>3, <3>4, <3>6, <3>7 DEF Reading
    <3> QED
      BY <1>13, <2>2, <3>8
  <2> QED
    BY <2>5, <2>6
<1>17. CASE n + 1 # Len(c)
  <2>1. decoded' = decoded /\ DecoderAt(Seen(c, n + 1))'
    BY <1>15, <1>17
  <2>2. got + 1 < end[d + 1] /\ end[d] <= got + 1 /\ got + 1 - end[d] = n + 1
    <3>1. \A x, y, m \in Nat :
            x <= got /\ got < y /\ y = x + m /\ got - x + 1 # m =>
              got + 1 < y /\ x <= got + 1 /\ got + 1 - x = got - x + 1
      OBVIOUS
    <3>2. end[d + 1] \in Nat /\ Len(c) \in Nat /\ end[d] \in Nat /\ got - end[d] + 1 # Len(c)
      BY <1>8, <1>9, <1>17
    <3> QED
      BY <1>8, <3>1, <3>2, SMTT(30)
  <2>3. Len(decoded') = d /\ d # Len(typed) /\ typed' = typed /\ d <= Len(typed)
    BY <1>6, <2>1
  <2>4. Reading(end, got + 1)'
    BY <1>14, <2>1, <2>2, <2>3, SMTT(30) DEF Reading, Under
  <2> QED
    BY <1>13, <1>14, <2>1, <2>4
<1> QED
  BY <1>16, <1>17

(***************************************************************************)
(* One more event lays its code at the end of the stream.                  *)
(***************************************************************************)
LEMMA LaidMore ==
  ASSUME NEW stream, NEW end, NEW events \in Seq(Events), NEW e \in Events,
         Laid(stream, end, events)
  PROVE  \E more : /\ Laid(stream \o CodeOf(e), more, Append(events, e))
                   /\ \A i \in 0 .. Len(events) : more[i] = end[i]
<1> DEFINE c == CodeOf(e)
           new == stream \o c
           N == Len(events)
           evs == Append(events, e)
           more == [i \in 0 .. N + 1 |-> IF i = N + 1 THEN Len(stream) + Len(c) ELSE end[i]]
<1>1. /\ stream \in Seq(ScanBytes) /\ end \in [0 .. N -> 0 .. Len(stream)]
      /\ end[0] = 0 /\ end[N] = Len(stream)
      /\ \A i \in 1 .. N :
           /\ end[i] = end[i - 1] + Len(CodeOf(events[i]))
           /\ \A j \in 1 .. Len(CodeOf(events[i])) :
                stream[end[i - 1] + j] = CodeOf(events[i])[j]
  BY DEF Laid
<1>2. c \in Seq(ScanBytes) /\ Len(c) \in 1 .. 6
  BY Codes DEF IsCode
<1>3. N \in Nat /\ Len(stream) \in Nat
  BY <1>1
<1>4. /\ evs \in Seq(Events) /\ Len(evs) = N + 1 /\ evs[N + 1] = e
      /\ \A i \in 1 .. N : evs[i] = events[i]
  BY LastAppended
<1> HIDE DEF c, evs
<1>5. /\ new \in Seq(ScanBytes) /\ Len(new) = Len(stream) + Len(c)
      /\ \A k \in 1 .. Len(stream) : new[k] = stream[k]
      /\ \A k \in 1 .. Len(c) : new[Len(stream) + k] = c[k]
  BY <1>1, <1>2
<1> HIDE DEF new
<1>6. /\ more \in [0 .. Len(evs) -> 0 .. Len(new)]
      /\ more[N + 1] = Len(new) /\ more[0] = 0
      /\ \A i \in 0 .. N : more[i] = end[i]
  <2>1. \A i \in 0 .. N : more[i] = end[i] /\ end[i] \in 0 .. Len(new)
    <3> TAKE i \in 0 .. N
    <3>1. i \in 0 .. N + 1 /\ i # N + 1
      BY <1>3
    <3>2. end[i] \in 0 .. Len(stream)
      BY <1>1
    <3> QED
      BY <1>2, <1>3, <1>5, <3>1, <3>2
  <2>2. more[N + 1] = Len(new) /\ Len(new) \in 0 .. Len(new)
    BY <1>2, <1>3, <1>5
  <2>3. \A i \in 0 .. N + 1 : i \in 0 .. N \/ i = N + 1
    BY <1>3
  <2>4. \A i \in 0 .. N + 1 : more[i] \in 0 .. Len(new)
    BY <2>1, <2>2, <2>3
  <2>5. more \in [0 .. N + 1 -> 0 .. Len(new)]
    BY <2>4
  <2>6. 0 \in 0 .. N
    BY <1>3
  <2> QED
    BY <1>1, <1>4, <2>1, <2>2, <2>5, <2>6
<1> HIDE DEF more
<1>7. ASSUME NEW i \in 1 .. Len(evs)
      PROVE  /\ more[i] = more[i - 1] + Len(CodeOf(evs[i]))
             /\ \A j \in 1 .. Len(CodeOf(evs[i])) :
                  new[more[i - 1] + j] = CodeOf(evs[i])[j]
  <2>1. CASE i = N + 1
    <3>1. i - 1 = N /\ N \in 0 .. N
      BY <1>3, <2>1
    <3>2. more[i - 1] = Len(stream) /\ more[i] = Len(stream) + Len(c) /\ CodeOf(evs[i]) = c
      BY <1>1, <1>4, <1>5, <1>6, <2>1, <3>1 DEF c
    <3> QED
      BY <1>5, <3>2
  <2>2. CASE i # N + 1
    <3>1. i \in 1 .. N /\ i \in 0 .. N /\ i - 1 \in 0 .. N /\ i - 1 \in Nat
      BY <1>3, <1>4, <2>2
    <3>2. more[i] = end[i] /\ more[i - 1] = end[i - 1] /\ evs[i] = events[i]
      BY <1>4, <1>6, <3>1
    <3> DEFINE w == CodeOf(events[i])
    <3>3. end[i] = end[i - 1] + Len(w) /\ \A j \in 1 .. Len(w) : stream[end[i - 1] + j] = w[j]
      BY <1>1, <3>1
    <3>4. Len(w) \in Nat
      BY <3>1, Codes DEF IsCode
    <3>5. end[i - 1] \in Nat /\ end[i] \in 0 .. Len(stream)
      <4>1. \A k \in 0 .. N : end[k] \in 0 .. Len(stream) /\ end[k] \in Nat
        <5>1. \A k \in 0 .. N : end[k] \in 0 .. Len(stream)
          BY <1>1, Zenon
        <5>2. \A x \in 0 .. Len(stream) : x \in Nat
          BY <1>3
        <5> QED
          BY <5>1, <5>2, Zenon
      <4> QED
        BY <3>1, <4>1, Zenon
    <3> HIDE DEF w
    <3>6. ASSUME NEW j \in 1 .. Len(w)
          PROVE  new[end[i - 1] + j] = w[j]
      <4>1. \A x, y, m, s \in Nat : y = x + m /\ y <= s /\ j <= m => x + j \in 1 .. s
        BY <3>4
      <4>2. end[i - 1] + j \in 1 .. Len(stream)
        BY <1>3, <3>3, <3>4, <3>5, <4>1
      <4> QED
        BY <1>5, <3>3, <4>2
    <3> QED
      BY <3>2, <3>3, <3>6 DEF w
  <2> QED
    BY <2>1, <2>2
<1>8. Laid(new, more, evs)
  BY <1>4, <1>5, <1>6, <1>7 DEF Laid
<1> QED
  BY <1>6, <1>8 DEF new, c, evs

\* The codes at the end of any stream are those of the events just typed.
LaidOn(codes, stream, end, more) ==
  /\ Laid(stream \o codes, more, typed')
  /\ \A i \in 0 .. Len(typed) : more[i] = end[i]

LaidWith(codes) ==
  \A stream, end : Laid(stream, end, typed) => \E more : LaidOn(codes, stream, end, more)

(***************************************************************************)
(* More at the end of the stream leaves alone what is being read.          *)
(***************************************************************************)
LEMMA KeysTyped ==
  ASSUME Typed, KeysInv, UNCHANGED <<decoded, decoder>>,
         NEW codes \in Seq(ScanBytes), codes # <<>>,
         OnWay \in Seq(Answers \cup ScanBytes), OnWay' = OnWay \o codes,
         typed' \in Seq(Events), Len(typed') > Len(typed),
         \A i \in 1 .. Len(typed) : typed'[i] = typed[i],
         LaidWith(codes)
  PROVE  KeysInv' /\ Answered' = Answered
<1>1. PICK stream \in Seq(ScanBytes), got \in Nat :
        \E end \in [0 .. Len(typed) -> 0 .. Len(stream)] :
          Laid(stream, end, typed) /\ Ahead(stream, got) /\ Reading(end, got)
  BY DEF KeysInv
<1>2. PICK end \in [0 .. Len(typed) -> 0 .. Len(stream)] :
        Laid(stream, end, typed) /\ Ahead(stream, got) /\ Reading(end, got)
  BY <1>1
<1>3. PICK more : /\ Laid(stream \o codes, more, typed')
                  /\ \A i \in 0 .. Len(typed) : more[i] = end[i]
  <2>1. \E more : LaidOn(codes, stream, end, more)
    BY <1>2 DEF LaidWith
  <2> QED
    BY <2>1 DEF LaidOn
<1> DEFINE new == stream \o codes
           N == Len(typed)
           d == Len(decoded)
<1>4. /\ new \in Seq(ScanBytes) /\ Len(new) = Len(stream) + Len(codes)
      /\ \A k \in 1 .. Len(stream) : new[k] = stream[k]
      /\ \A k \in 1 .. Len(codes) : new[Len(stream) + k] = codes[k]
      /\ Len(stream) \in Nat /\ Len(codes) \in Nat
  BY SMTT(30)
<1>5. /\ Len(OnWay) \in Nat /\ Len(OnWay') = Len(OnWay) + Len(codes)
      /\ \A k \in 1 .. Len(OnWay) : OnWay'[k] = OnWay[k]
      /\ \A k \in 1 .. Len(codes) : OnWay'[Len(OnWay) + k] = codes[k]
  OBVIOUS
<1>6. Answered' = Answered /\ Answered \in {0, 1}
  <2>1. Len(codes) >= 1 /\ codes[1] \in ScanBytes
    OBVIOUS
  <2>2. CASE OnWay = <<>>
    <3>1. Len(OnWay') # 0 /\ OnWay'[1] = codes[1]
      BY <1>5, <2>1, <2>2
    <3> QED
      BY <2>1, <2>2, <3>1 DEF Answered, Answers, ScanBytes
  <2>3. CASE OnWay # <<>>
    <3>1. 1 \in 1 .. Len(OnWay) /\ OnWay'[1] = OnWay[1] /\ Len(OnWay') # 0
      BY <1>4, <1>5, <2>3
    <3>2. OnWay' # <<>>
      BY <3>1
    <3> QED
      BY <2>3, <3>1, <3>2 DEF Answered
  <2> QED
    BY <2>2, <2>3
<1>7. UNCHANGED <<decoded, bytes_to_receive, fullcode, flags>>
  BY DEF decoder
<1> HIDE DEF new
<1>8. Ahead(new, got)'
  <2>1. /\ got \in 0 .. Len(stream)
        /\ Len(OnWay) = Answered + Len(stream) - got
        /\ \A p \in got + 1 .. Len(stream) : OnWay[Answered + p - got] = stream[p]
    BY <1>2 DEF Ahead
  <2>2. Len(OnWay') = Answered' + Len(new) - got /\ got \in 0 .. Len(new)
    BY <1>4, <1>5, <1>6, <2>1
  <2>3. ASSUME NEW p \in got + 1 .. Len(new)
        PROVE  OnWay'[Answered' + p - got] = new[p]
    <3>1. CASE p <= Len(stream)
      <4>1. p \in got + 1 .. Len(stream) /\ p \in 1 .. Len(stream)
        BY <1>4, <3>1
      <4>2. Answered + p - got \in 1 .. Len(OnWay)
        BY <1>4, <1>6, <2>1, <4>1, SMTT(30)
      <4>3. OnWay'[Answered + p - got] = OnWay[Answered + p - got]
        BY <1>5, <4>2
      <4> QED
        BY <1>4, <1>6, <2>1, <4>1, <4>3
    <3>2. CASE p > Len(stream)
      <4>1. PICK k \in 1 .. Len(codes) : p = Len(stream) + k
        <5>1. p - Len(stream) \in 1 .. Len(codes) /\ p = Len(stream) + (p - Len(stream))
          BY <1>4, <3>2
        <5> QED
          BY <5>1
      <4>2. Answered + p - got = Len(OnWay) + k
        BY <1>4, <1>6, <2>1, <4>1
      <4> QED
        BY <1>4, <1>5, <1>6, <4>1, <4>2
    <3>3. p <= Len(stream) \/ p > Len(stream)
      BY <1>4
    <3> QED
      BY <3>1, <3>2, <3>3
  <2> QED
    BY <2>2, <2>3 DEF Ahead
<1>9. /\ d \in Nat /\ N \in Nat /\ d <= N /\ end[d] <= got /\ end[N] = Len(stream)
      /\ d < N => got < end[d + 1]
      /\ got <= Len(stream)
      /\ \A i \in 1 .. d : decoded[i] = typed[i]
      /\ DecoderAt(Under(end, got))
      /\ typed \in Seq(Events)
  BY <1>2 DEF Typed, Reading, Laid, Ahead
<1>10. Under(more, got)' = Under(end, got)
  <2>1. CASE d = N
    <3>1. got = more[d]
      <4>1. d \in 0 .. N /\ more[d] = end[d] /\ end[d] = Len(stream) /\ end[d] \in Nat
        BY <1>3, <1>4, <1>9, <2>1
      <4> QED
        BY <1>4, <1>9, <4>1
    <3>2. got - more[d] = 0
      BY <3>1
    <3>3. Seen(CodeOf(typed'[d + 1]), got - more[d]) = {}
      BY <3>2, SeenOneMore
    <3>4. d # Len(typed') /\ decoded' = decoded
      BY <1>7, <1>9, <2>1
    <3>5. Under(more, got)' = {}
      <4>1. Under(more, got)' = Seen(CodeOf(typed'[d + 1]), got - more[d])
        BY <3>4 DEF Under
      <4> QED
        BY <3>3, <4>1
    <3> QED
      BY <2>1, <3>5 DEF Under
  <2>2. CASE d # N
    <3>1. d + 1 \in 1 .. N /\ d \in 0 .. N
      BY <1>9, <2>2
    <3>2. typed'[d + 1] = typed[d + 1] /\ more[d] = end[d]
      BY <1>3, <3>1
    <3>3. d # Len(typed') /\ decoded' = decoded
      BY <1>7, <1>9, <2>2
    <3>4. Under(more, got)' = Seen(CodeOf(typed'[d + 1]), got - more[d])
      BY <3>3 DEF Under
    <3>5. Under(end, got) = Seen(CodeOf(typed[d + 1]), got - end[d])
      BY <2>2 DEF Under
    <3> QED
      BY <3>2, <3>4, <3>5
  <2> QED
    BY <2>1, <2>2
<1>11. got < more[d + 1] /\ more[d] <= got /\ d < Len(typed')
  <2>1. d \in 0 .. N /\ more[d] = end[d] /\ d < Len(typed') /\ d + 1 \in 1 .. Len(typed')
    BY <1>3, <1>9
  <2>2. CASE d < N
    <3>1. d + 1 \in 0 .. N
      BY <1>9, <2>2
    <3> QED
      BY <1>3, <1>9, <2>1, <2>2, <3>1
  <2>3. CASE d = N
    <3>1. d + 1 - 1 = d
      BY <1>9
    <3>2. more[d + 1] = more[d] + Len(CodeOf(typed'[d + 1]))
      BY <1>3, <2>1, <3>1 DEF Laid
    <3>3. Len(CodeOf(typed'[d + 1])) \in 1 .. 6
      BY <2>1, Codes DEF IsCode
    <3>4. more[d] = Len(stream) /\ end[d] <= got /\ got <= Len(stream) /\ more[d] <= got
      BY <1>9, <2>1, <2>3
    <3>5. \A x, y, m \in Nat : y = x + m /\ m \in 1 .. 6 /\ got <= x => got < y
      OBVIOUS
    <3>6. more[d] \in Nat /\ more[d + 1] \in Nat
      BY <1>4, <3>2, <3>3, <3>4
    <3>7. Len(CodeOf(typed'[d + 1])) \in Nat /\ got <= more[d]
      BY <3>3, <3>4
    <3>8. got < more[d + 1]
      BY <3>2, <3>3, <3>5, <3>6, <3>7
    <3> QED
      BY <2>1, <3>4, <3>8
  <2> QED
    BY <1>9, <2>2, <2>3
<1>12. Reading(more, got)'
  <2>1. DecoderAt(Under(more, got))'
    BY <1>7, <1>9, <1>10, SMTT(30) DEF DecoderAt
  <2>2. \A i \in 1 .. d : decoded'[i] = typed'[i]
    BY <1>7, <1>9
  <2>3. Len(decoded') = d
    BY <1>7
  <2> QED
    BY <1>9, <1>11, <2>1, <2>2, <2>3 DEF Reading
<1>13. more \in [0 .. Len(typed') -> 0 .. Len(new)]
  BY <1>3 DEF Laid, new
<1>14. Laid(new, more, typed')
  BY <1>3 DEF new
<1> QED
  BY <1>4, <1>6, <1>8, <1>12, <1>13, <1>14 DEF KeysInv

\* The stream is a sequence of bytes.
LEMMA OnWayTyped ==
  ASSUME Typed
  PROVE  OnWay \in Seq(Answers \cup ScanBytes)
<1>1. pending[0] \in Seq(Answers \cup ScanBytes)
  BY DEF Typed, Source, Channel
<1>2. CASE output = Empty
  BY <1>1, <1>2 DEF OnWay
<1>3. CASE output # Empty
  <2>1. PICK b \in Answers \cup ScanBytes : output = <<0, b>>
    BY <1>3 DEF Typed
  <2>2. OnWay = <<b>> \o pending[0]
    BY <1>3, <2>1 DEF OnWay
  <2> QED
    BY <1>1, <2>2
<1> QED
  BY <1>2, <1>3

LEMMA OnWayTypedNext == (Typed => OnWay \in Seq(Answers \cup ScanBytes))'
<1>1. Typed => OnWay \in Seq(Answers \cup ScanBytes)
  BY OnWayTyped
<1> QED
  BY <1>1, PTL

(***************************************************************************)
(* What is typed goes behind what is on its way.                           *)
(***************************************************************************)
LEMMA TypedCommands ==
  ASSUME Typed, CommandsInv, scanning,
         NEW codes \in Seq(ScanBytes), Answer(0, codes),
         UNCHANGED <<pc, queue, fail_count, scanning, accepted, garbled, decoded>>,
         typed' \in Seq(Events)
  PROVE  Typed' /\ CommandsInv' /\ OnWay' = OnWay \o codes
<1>1. UNCHANGED <<output, pc, buffer, head, tail, fail_count, scanning, accepted, decoded>>
  BY DEF Answer, queue
<1>2. pending[0] \in Seq(Answers \cup ScanBytes) /\ OnWay \in Seq(Answers \cup ScanBytes)
  BY OnWayTyped DEF Typed, Source, Channel
<1>3. pending'[0] = pending[0] \o codes /\ pending' \in [Source -> Seq(Answers \cup ScanBytes)]
  <2>1. pending[0] \o codes \in Seq(Answers \cup ScanBytes)
    BY <1>2
  <2>2. pending' = [pending EXCEPT ![0] = pending[0] \o codes]
    BY DEF Answer
  <2> QED
    BY <2>1, <2>2 DEF Typed, Source, Channel
<1>4. OnWay' = OnWay \o codes
  <2>1. CASE output = Empty
    <3>1. OnWay = pending[0] /\ OnWay' = pending'[0]
      BY <1>1, <1>2, <1>3, <2>1 DEF OnWay
    <3> QED
      BY <1>3, <3>1
  <2>2. CASE output # Empty
    <3> DEFINE b == <<output[2]>>
    <3>1. OnWay = b \o pending[0] /\ OnWay' = b \o pending'[0]
      BY <1>1, <2>2 DEF OnWay
    <3>2. b \in Seq(Answers \cup ScanBytes)
      <4>1. output[2] \in Answers \cup ScanBytes
        BY <2>2 DEF Typed
      <4> QED
        BY <4>1
    <3> HIDE DEF b
    <3>3. codes \in Seq(Answers \cup ScanBytes)
      <4>1. \A s \in Seq(ScanBytes) : s \in Seq(Answers \cup ScanBytes)
        OBVIOUS
      <4> QED
        BY <4>1
    <3>4. b \o (pending[0] \o codes) = (b \o pending[0]) \o codes
      BY <1>2, <3>2, <3>3, BytesInARow
    <3> QED
      BY <1>3, <3>1, <3>4
  <2> QED
    BY <2>1, <2>2
<1>5. Len(accepted) = 7 /\ pc = "running"
  <2>1. Len(accepted) = 7
    BY CommandCount, Zenon DEF CommandsInv, ScansWhenEnabled
  <2>2. accepted # <<>>
    <3>1. Len(<<>>) # 7
      OBVIOUS
    <3> QED
      BY <2>1, <3>1, Zenon
  <2> QED
    BY <2>1, <2>2 DEF CommandsInv, Before
<1>6. /\ OnWay' \in Seq(Answers \cup ScanBytes)
      /\ \A k \in 1 .. Len(OnWay') : k > Len(OnWay) => OnWay'[k] \in ScanBytes
      /\ \A k \in 1 .. Len(OnWay) : OnWay'[k] = OnWay[k]
      /\ Len(OnWay') >= Len(OnWay) /\ Len(OnWay) \in Nat
  <2>1. Len(OnWay') = Len(OnWay) + Len(codes)
    BY <1>2, <1>4
  <2>2. \A k \in 1 .. Len(codes) : codes[k] \in ScanBytes
    OBVIOUS
  <2>3. ASSUME NEW k \in 1 .. Len(OnWay'), k > Len(OnWay)
        PROVE  OnWay'[k] \in ScanBytes
    <3>1. OnWay'[k] = codes[k - Len(OnWay)] /\ k - Len(OnWay) \in 1 .. Len(codes)
      BY <1>2, <1>4, <2>1, <2>3
    <3> QED
      BY <2>2, <3>1
  <2>4. \A k \in 1 .. Len(OnWay) : OnWay'[k] = OnWay[k]
    BY <1>2, <1>4
  <2> QED
    BY <1>2, <1>4, <2>1, <2>3, <2>4
<1>7. Typed'
  <2>1. ASSUME NEW k \in 2 .. Len(OnWay')
        PROVE  OnWay'[k] \in ScanBytes
    <3>1. CASE k <= Len(OnWay)
      <4>1. k \in 2 .. Len(OnWay) /\ k \in 1 .. Len(OnWay)
        BY <1>6, <3>1
      <4> QED
        BY <1>6, <4>1 DEF Typed
    <3>2. CASE ~(k <= Len(OnWay))
      <4>1. k \in 1 .. Len(OnWay') /\ k > Len(OnWay)
        BY <1>6, <3>2
      <4> QED
        BY <1>6, <4>1
    <3> QED
      BY <3>1, <3>2
  <2> QED
    BY <1>1, <1>3, <2>1 DEF Typed
<1>8. Queued' /\ InOrder'
  BY <1>1 DEF CommandsInv, Queued, InOrder
<1>9. Before'
  BY <1>1, <1>5 DEF Before
<1>10. tail = 7
  BY <1>5, CommandCount DEF CommandsInv, Queued
<1>11. Asked'
  <2>1. CASE OnWay # <<>>
    <3>1. OnWay' # <<>> /\ OnWay'[1] = OnWay[1]
      <4>1. 1 \in 1 .. Len(OnWay) /\ Len(OnWay') # 0
        BY <1>2, <1>6, <2>1
      <4> QED
        BY <1>6, <4>1
    <3> QED
      BY <1>1, <1>5, <2>1, <3>1 DEF CommandsInv, Asked
  <2>2. CASE OnWay = <<>>
    <3>1. OnWay' = <<>> \/ OnWay'[1] \in ScanBytes
      <4>1. Len(OnWay) = 0
        BY <2>2
      <4>2. OnWay' # <<>> => 1 \in 1 .. Len(OnWay') /\ 1 > Len(OnWay)
        BY <1>6, <4>1
      <4> QED
        BY <1>6, <4>2
    <3>2. head = Len(accepted) /\ head = tail /\ fail_count = 0
      BY <1>5, <2>2 DEF CommandsInv, Asked
    <3> QED
      BY <1>1, <3>1, <3>2 DEF Asked
  <2> QED
    BY <2>1, <2>2
<1>12. ScansWhenEnabled'
  <2>1. scanning' /\ accepted' = accepted
    BY <1>1
  <2>2. Len(accepted') = Len(Commands)
    BY <1>5, <2>1, CommandCount, Zenon
  <2> QED
    BY <2>1, <2>2, Zenon DEF ScansWhenEnabled
<1> QED
  BY <1>4, <1>7, <1>8, <1>9, <1>11, <1>12 DEF CommandsInv

(***************************************************************************)
(* A key goes down or up; Pause does both at once.                         *)
(***************************************************************************)
LEMMA PressStep ==
  ASSUME KeyboardInv, press
  PROVE  KeyboardInv'
<1>1. Typed /\ CommandsInv /\ KeysInv /\ scanning
  BY DEF KeyboardInv, press
<1>2. UNCHANGED <<pc, queue, fail_count, decoder, scanning, accepted, garbled, decoded>>
  BY DEF press
<1>3. typed \in Seq(Events) /\ OnWay \in Seq(Answers \cup ScanBytes)
  BY <1>1, OnWayTyped DEF Typed
<1>4. PICK key \in Keys, up \in BOOLEAN :
        IF key = "PAUSE"
        THEN /\ ~up /\ Len(typed) + 2 <= EventBound
             /\ Answer(0, ScanCode(key, FALSE) \o ScanCode(key, TRUE))
             /\ typed' = typed \o <<Make(key), Break(key)>>
        ELSE /\ Len(typed) < EventBound
             /\ Answer(0, ScanCode(key, up))
             /\ typed' = Append(typed, IF up THEN Break(key) ELSE Make(key))
  BY <1>1 DEF press
<1>5. /\ Make(key) \in Events /\ CodeOf(Make(key)) = ScanCode(key, FALSE)
      /\ Break(key) \in Events /\ CodeOf(Break(key)) = ScanCode(key, TRUE)
  <2>1. key \in Key
    BY KeyboardAssumption
  <2>2. Make(key)[2] # "break" /\ Make(key)[1] = key
    BY DEF Make
  <2>3. Break(key)[2] = "break" /\ Break(key)[1] = key
    BY DEF Break
  <2>4. (Make(key)[2] = "break") = FALSE /\ (Break(key)[2] = "break") = TRUE
    BY <2>2, <2>3
  <2>5. Make(key) \in Events /\ Break(key) \in Events
    BY <2>1 DEF Events, Make, Break
  <2> QED
    BY <2>2, <2>3, <2>4, <2>5 DEF CodeOf
<1>6. CASE key # "PAUSE"
  <2>1. PICK e \in Events : Answer(0, CodeOf(e)) /\ typed' = Append(typed, e)
    <3>1. /\ Answer(0, ScanCode(key, up))
          /\ typed' = Append(typed, IF up THEN Break(key) ELSE Make(key))
      BY <1>4, <1>6, Zenon
    <3>2. CASE up = TRUE
      <4>1. Answer(0, CodeOf(Break(key))) /\ typed' = Append(typed, Break(key))
        BY <1>5, <3>1, <3>2, Zenon
      <4> QED
        BY <1>5, <4>1, Zenon
    <3>3. CASE up = FALSE
      <4>1. Answer(0, CodeOf(Make(key))) /\ typed' = Append(typed, Make(key))
        BY <1>5, <3>1, <3>3, Zenon
      <4> QED
        BY <1>5, <4>1, Zenon
    <3> QED
      BY <3>2, <3>3
  <2> DEFINE codes == CodeOf(e)
  <2>2. codes \in Seq(ScanBytes) /\ codes # <<>>
    BY Codes, CodeShape, Zenon
  <2>3. /\ typed' \in Seq(Events) /\ Len(typed') > Len(typed)
        /\ \A i \in 1 .. Len(typed) : typed'[i] = typed[i]
    BY <1>3, <2>1, LastAppended
  <2>4. LaidWith(codes)
    BY <1>3, <2>1, LaidMore DEF LaidWith, LaidOn
  <2>5. Typed' /\ CommandsInv' /\ OnWay' = OnWay \o codes
    BY <1>1, <1>2, <2>1, <2>2, <2>3, TypedCommands
  <2>6. KeysInv'
    BY <1>1, <1>2, <1>3, <2>2, <2>3, <2>4, <2>5, KeysTyped
  <2> QED
    BY <2>5, <2>6 DEF KeyboardInv
<1>7. CASE key = "PAUSE"
  <2> DEFINE one == CodeOf(Make(key))
             two == CodeOf(Break(key))
             codes == one \o two
             half == Append(typed, Make(key))
  <2>1. one \in Seq(ScanBytes) /\ two \in Seq(ScanBytes) /\ Len(one) \in 1 .. 6
    BY <1>5, Codes DEF IsCode
  <2>2. Answer(0, codes) /\ typed' = typed \o <<Make(key), Break(key)>>
    BY <1>4, <1>5, <1>7
  <2> HIDE DEF one, two
  <2>3. codes \in Seq(ScanBytes) /\ codes # <<>>
    <3>1. codes \in Seq(ScanBytes) /\ Len(codes) = Len(one) + Len(two) /\ Len(two) \in Nat
      BY <2>1
    <3>2. Len(codes) # 0
      BY <2>1, <3>1
    <3> QED
      BY <3>1, <3>2
  <2>4. /\ half \in Seq(Events) /\ Len(half) = Len(typed) + 1
        /\ \A i \in 1 .. Len(typed) : half[i] = typed[i]
        /\ half[Len(typed) + 1] = Make(key)
    BY <1>3, <1>5, LastAppended
  <2>5. typed' = Append(half, Break(key))
    <3> DEFINE both == <<Make(key), Break(key)>>
               t == typed \o both
               u == Append(half, Break(key))
    <3>1. both \in Seq(Events) /\ Len(both) = 2 /\ both[1] = Make(key) /\ both[2] = Break(key)
      BY <1>5
    <3> HIDE DEF both, half
    <3>2. /\ t \in Seq(Events) /\ Len(t) = Len(typed) + 2
          /\ \A i \in 1 .. Len(typed) : t[i] = typed[i]
          /\ t[Len(typed) + 1] = both[1] /\ t[Len(typed) + 2] = both[2]
      <4>1. /\ t \in Seq(Events) /\ Len(t) = Len(typed) + Len(both)
            /\ \A i \in 1 .. Len(typed) : t[i] = typed[i]
            /\ \A i \in 1 .. Len(both) : t[Len(typed) + i] = both[i]
        <5>1. typed \in Seq(Events) /\ both \in Seq(Events)
          BY <1>3, <3>1
        <5> QED
          BY <5>1, Joined
      <4>2. 1 \in 1 .. Len(both) /\ 2 \in 1 .. Len(both)
        BY <3>1
      <4> HIDE DEF t
      <4> QED
        BY <3>1, <4>1, <4>2
    <3>3. /\ u \in Seq(Events) /\ Len(u) = Len(half) + 1
          /\ \A i \in 1 .. Len(half) : u[i] = half[i]
          /\ u[Len(half) + 1] = Break(key)
      BY <1>5, <2>4, LastAppended
    <3> HIDE DEF t, u
    <3>4. ASSUME NEW i \in 1 .. Len(t)
          PROVE  t[i] = u[i]
      <4>1. i \in 1 .. Len(typed) \/ i = Len(typed) + 1 \/ i = Len(typed) + 2
        BY <1>3, <3>2
      <4>2. CASE i \in 1 .. Len(typed)
        <5>1. i \in 1 .. Len(half)
          BY <1>3, <2>4, <4>2
        <5> QED
          BY <2>4, <3>2, <3>3, <4>2, <5>1
      <4>3. CASE i = Len(typed) + 1
        <5>1. i \in 1 .. Len(half)
          BY <1>3, <2>4, <4>3
        <5> QED
          BY <2>4, <3>1, <3>2, <3>3, <4>3, <5>1
      <4>4. CASE i = Len(typed) + 2
        <5>1. i = Len(half) + 1
          BY <1>3, <2>4, <4>4
        <5> QED
          BY <3>1, <3>2, <3>3, <4>4, <5>1
      <4> QED
        BY <4>1, <4>2, <4>3, <4>4
    <3>5. Len(t) = Len(u)
      BY <1>3, <2>4, <3>2, <3>3
    <3>6. t = u
      BY <3>2, <3>3, <3>4, <3>5, SameSequence
    <3> QED
      BY <2>2, <3>6 DEF t, u, both
  <2>6. /\ typed' \in Seq(Events) /\ Len(typed') = Len(half) + 1
        /\ \A i \in 1 .. Len(half) : typed'[i] = half[i]
    BY <1>5, <2>4, <2>5, LastAppended
  <2>7. /\ Len(typed') > Len(typed)
        /\ \A i \in 1 .. Len(typed) : typed'[i] = typed[i]
    <3>1. \A i \in 1 .. Len(typed) : i \in 1 .. Len(half)
      BY <1>3, <2>4
    <3> QED
      BY <1>3, <2>4, <2>6, <3>1
  <2>8. ASSUME NEW stream, NEW end, Laid(stream, end, typed)
        PROVE  \E more : /\ Laid(stream \o codes, more, typed')
                         /\ \A i \in 0 .. Len(typed) : more[i] = end[i]
    <3>1. PICK mid : /\ Laid(stream \o one, mid, half)
                     /\ \A i \in 0 .. Len(typed) : mid[i] = end[i]
      <4>1. \A e \in Events :
              \E mid : /\ Laid(stream \o CodeOf(e), mid, Append(typed, e))
                       /\ \A i \in 0 .. Len(typed) : mid[i] = end[i]
        BY <1>3, <2>8, LaidMore
      <4> QED
        BY <1>5, <4>1, Zenon DEF one
    <3>2. PICK more : /\ Laid((stream \o one) \o two, more, typed')
                      /\ \A i \in 0 .. Len(half) : more[i] = mid[i]
      <4> HIDE DEF half
      <4>1. \A e \in Events :
              \E more : /\ Laid((stream \o one) \o CodeOf(e), more, Append(half, e))
                        /\ \A i \in 0 .. Len(half) : more[i] = mid[i]
        BY <2>4, <3>1, LaidMore
      <4> QED
        BY <1>5, <2>5, <4>1, Zenon DEF two
    <3>3. stream \in Seq(ScanBytes)
      BY <2>8 DEF Laid
    <3>4. (stream \o one) \o two = stream \o codes
      BY <2>1, <3>3, ConcatAssociative
    <3>5. \A i \in 0 .. Len(typed) : i \in 0 .. Len(half)
      BY <1>3, <2>4
    <3> QED
      BY <3>1, <3>2, <3>4, <3>5
  <2> HIDE DEF codes
  <2>9. Typed' /\ CommandsInv' /\ OnWay' = OnWay \o codes
    BY <1>1, <1>2, <2>2, <2>3, <2>6, TypedCommands
  <2>10. KeysInv'
    BY <1>1, <1>2, <1>3, <2>3, <2>6, <2>7, <2>8, <2>9, KeysTyped DEF LaidWith, LaidOn
  <2> QED
    BY <2>9, <2>10 DEF KeyboardInv
<1> QED
  BY <1>6, <1>7

-----------------------------------------------------------------------------
(***************************************************************************)
(* The invariant.                                                          *)
(***************************************************************************)
LEMMA InitKeyboardInv == Init => KeyboardInv
<1> SUFFICES ASSUME Init PROVE KeyboardInv
  OBVIOUS
<1>1. /\ output = Empty /\ pending = [s \in Source |-> <<>>]
      /\ pc = "enqueue" /\ head = 0 /\ tail = 0 /\ fail_count = 0
      /\ buffer = [k \in QueueIndex |-> "0"]
      /\ scanning = FALSE /\ accepted = <<>> /\ typed = <<>> /\ decoded = <<>>
      /\ bytes_to_receive = 0 /\ fullcode = <<>> /\ flags = {}
  BY DEF Init, WireInit
<1>2. OnWay = <<>>
  BY <1>1 DEF OnWay, Source, Channel
<1>3. Typed
  <2>1. pending \in [Source -> Seq(Answers \cup ScanBytes)]
    BY <1>1
  <2>2. buffer \in [QueueIndex -> {"0"} \cup ToSet(Commands)]
    BY <1>1
  <2>3. \A k \in 2 .. Len(OnWay) : OnWay[k] \in ScanBytes
    BY <1>2
  <2> QED
    <3>1. scanning \in BOOLEAN /\ pc \in {"enqueue", "send", "running", "unsent"}
      BY <1>1
    <3>2. accepted \in Seq(ToSet(Commands)) /\ typed \in Seq(Events) /\ decoded \in Seq(Events)
      BY <1>1
    <3> QED
      BY <1>1, <2>1, <2>2, <2>3, <3>1, <3>2, Zenon DEF Typed
<1>4. CommandsInv
  <2>1. Queued /\ Before /\ Asked
    BY <1>1, <1>2, CommandCount DEF Queued, Before, Asked
  <2>2. InOrder
    BY <1>1, CommandCount DEF InOrder
  <2>3. ScansWhenEnabled
    <3>1. Len(accepted) # Len(Commands) /\ Len(OnWay) <= 1
      BY <1>1, <1>2, CommandCount
    <3> QED
      BY <1>1, <3>1, Zenon DEF ScansWhenEnabled
  <2> QED
    BY <2>1, <2>2, <2>3 DEF CommandsInv
<1>5. KeysInv
  <2> DEFINE none == <<>>
             end == [i \in 0 .. 0 |-> 0]
  <2>1. Len(typed) = 0 /\ Len(decoded) = 0 /\ Len(none) = 0 /\ none \in Seq(ScanBytes)
    BY <1>1
  <2>2. end \in [0 .. Len(typed) -> 0 .. Len(none)] /\ end[0] = 0
    BY <2>1
  <2> HIDE DEF end
  <2>3. Laid(none, end, typed)
    BY <2>1, <2>2 DEF Laid
  <2>4. Answered = 0
    BY <1>2 DEF Answered
  <2>5. Ahead(none, 0)
    BY <1>2, <2>1, <2>4 DEF Ahead
  <2>6. Under(end, 0) = {}
    BY <2>1 DEF Under
  <2>7. DecoderAt({})
    BY <1>1 DEF DecoderAt
  <2>8. Reading(end, 0)
    BY <2>1, <2>2, <2>6, <2>7 DEF Reading
  <2> QED
    BY <2>1, <2>2, <2>3, <2>5, <2>8 DEF KeysInv
<1> QED
  BY <1>3, <1>4, <1>5 DEF KeyboardInv

\* While nothing is typed no scan code is on its way, whatever is in front.
LEMMA KeysQuiet ==
  ASSUME KeysInv, typed = <<>>, UNCHANGED <<typed, decoded, decoder>>,
         Len(OnWay') = 1, Answered' = 1,
         OnWay \in Seq(Answers \cup ScanBytes), OnWay' \in Seq(Answers \cup ScanBytes)
  PROVE  KeysInv'
<1>1. PICK stream \in Seq(ScanBytes), got \in Nat :
        \E end \in [0 .. Len(typed) -> 0 .. Len(stream)] :
          Laid(stream, end, typed) /\ Ahead(stream, got) /\ Reading(end, got)
  BY DEF KeysInv
<1>2. PICK end \in [0 .. Len(typed) -> 0 .. Len(stream)] :
        Laid(stream, end, typed) /\ Ahead(stream, got) /\ Reading(end, got)
  BY <1>1
<1>3. Len(typed) = 0 /\ end[0] = 0 /\ end[Len(typed)] = Len(stream) /\ Len(stream) \in Nat
  BY <1>2 DEF Laid
<1>4. Len(stream) = 0
  BY <1>3
<1>5. Len(OnWay) = Answered /\ Answered \in {0, 1}
  BY <1>2, <1>4 DEF Ahead, Answered
<1>6. /\ Len(OnWay') - Answered' = Len(OnWay) - Answered
      /\ \A k \in 1 .. Len(OnWay) - Answered : OnWay'[k + Answered'] = OnWay[k + Answered]
  BY <1>5
<1> QED
  BY <1>6, KeysStay

(***************************************************************************)
(* An answer and the next byte leave the keys alone.                       *)
(***************************************************************************)
LEMMA AnswerStep ==
  ASSUME KeyboardInv, acknowledged \/ resend
  PROVE  KeyboardInv'
<1>1. Typed /\ CommandsInv /\ KeysInv
  BY DEF KeyboardInv
<1>2. /\ Typed' /\ CommandsInv' /\ typed' = typed
      /\ \/ pending' = pending
         \/ Len(OnWay') = 1 /\ Answered' = 1 /\ typed = <<>>
  BY <1>1, AcknowledgedCommands, ResendCommands
<1>3. /\ output # Empty /\ output' = Empty /\ output[2] \in Answers
      /\ UNCHANGED <<decoder, decoded>>
  BY DEF acknowledged, resend, Resend, Answers, Empty
<1>4. OnWay \in Seq(Answers \cup ScanBytes) /\ OnWay' \in Seq(Answers \cup ScanBytes)
  BY <1>1, <1>2, OnWayTyped, OnWayTypedNext
<1>5. CASE pending' = pending
  <2>1. Answered = 1 /\ Len(OnWay) \in Nat
    BY <1>1, <1>3, AnswerRead, StreamRead
  <2>2. /\ Answered' = 0 /\ Len(OnWay') = Len(OnWay) - 1
        /\ \A k \in 1 .. Len(OnWay') : OnWay'[k] = OnWay[k + 1]
    BY <1>1, <1>3, <1>5, ByteTaken
  <2>3. /\ Len(OnWay') - Answered' = Len(OnWay) - Answered
        /\ \A k \in 1 .. Len(OnWay) - Answered : OnWay'[k + Answered'] = OnWay[k + Answered]
    BY <2>1, <2>2
  <2>4. KeysInv'
    BY <1>1, <1>2, <1>3, <1>4, <2>3, KeysStay
  <2> QED
    BY <1>2, <2>4 DEF KeyboardInv
<1>6. CASE Len(OnWay') = 1 /\ Answered' = 1 /\ typed = <<>>
  <2>1. KeysInv'
    BY <1>1, <1>2, <1>3, <1>4, <1>6, KeysQuiet
  <2> QED
    BY <1>2, <2>1 DEF KeyboardInv
<1> QED
  BY <1>2, <1>5, <1>6

LEMMA NextKeyboardInv ==
  ASSUME KeyboardInv, [Next]_vars
  PROVE  KeyboardInv'
<1>1. Typed /\ CommandsInv /\ KeysInv /\ OnWay \in Seq(Answers \cup ScanBytes)
  BY OnWayTyped DEF KeyboardInv
<1>2. ASSUME OnWay' = OnWay, UNCHANGED <<typed, decoded, decoder>>, Typed', CommandsInv'
      PROVE  KeyboardInv'
  <2>1. Answered' = Answered
    BY <1>2 DEF Answered
  <2>2. KeysInv'
    BY <1>1, <1>2, <2>1, KeysStay
  <2> QED
    BY <1>2, <2>2 DEF KeyboardInv
<1>3. CASE enqueue
  <2>1. UNCHANGED <<typed, decoded, decoder>>
    BY <1>3 DEF enqueue, device
  <2> QED
    BY <1>1, <1>2, <1>3, <2>1, EnqueueCommands
<1>4. CASE send_first
  <2>1. /\ Typed' /\ CommandsInv' /\ typed' = typed
        /\ \/ OnWay' = OnWay
           \/ Len(OnWay') = 1 /\ Answered' = 1 /\ typed = <<>>
    BY <1>1, <1>4, SendFirstCommands
  <2>2. UNCHANGED <<typed, decoded, decoder>> /\ OnWay' \in Seq(Answers \cup ScanBytes)
    BY <1>4, <2>1, OnWayTypedNext DEF send_first
  <2>3. CASE Len(OnWay') = 1 /\ Answered' = 1 /\ typed = <<>>
    <3>1. KeysInv'
      BY <1>1, <2>2, <2>3, KeysQuiet
    <3> QED
      BY <2>1, <3>1 DEF KeyboardInv
  <2> QED
    BY <1>2, <2>1, <2>2, <2>3
<1>5. CASE press
  BY <1>5, PressStep
<1>6. CASE deliver
  <2>1. Deliver(0) /\ UNCHANGED <<pc, queue, fail_count, decoder, device, decoded>>
    BY <1>6 DEF deliver
  <2>2. UNCHANGED <<pc, buffer, head, tail, fail_count, scanning, accepted, typed, decoded, decoder>>
    BY <2>1 DEF queue, device
  <2>3. /\ OnWay' = OnWay
        /\ \E b \in Answers \cup ScanBytes : output' = <<0, b>>
        /\ pending' \in [Source -> Seq(Answers \cup ScanBytes)]
    BY <1>1, <2>1, StreamDelivered
  <2>4. Typed'
    BY <1>1, <2>2, <2>3 DEF Typed
  <2>5. CommandsInv'
    BY <1>1, <2>2, <2>3
      DEF CommandsInv, Queued, InOrder, Before, Asked, ScansWhenEnabled
  <2> QED
    BY <1>2, <2>2, <2>3, <2>4, <2>5
<1>7. CASE acknowledged \/ resend
  BY <1>7, AnswerStep
<1>8. CASE prefix \/ code
  <2>1. /\ output # Empty /\ output' = Empty /\ output[2] \notin Answers
        /\ UNCHANGED <<pending, pc, queue, fail_count, device>>
    BY <1>8, PrefixBytes DEF prefix, code, Answers
  <2>2. output[2] \in ScanBytes /\ Answered = 0 /\ typed' = typed
    <3>1. output[2] \in ScanBytes
      BY <1>1, <2>1, StreamRead
    <3>2. OnWay[1] = output[2]
      BY <1>1, <2>1, StreamRead
    <3>3. Answered = 0
      BY <2>1, <3>2 DEF Answered
    <3> QED
      BY <2>1, <3>1, <3>3 DEF device
  <2>3. KeysInv' /\ decoded' \in Seq(Events)
    BY <1>1, <1>8, <2>1, <2>2, KeysRead
  <2>4. Typed' /\ CommandsInv'
    BY <1>1, <2>1, <2>2, <2>3, ScanCommands
  <2> QED
    BY <2>3, <2>4 DEF KeyboardInv
<1>9. CASE UNCHANGED vars
  <2>1. UNCHANGED <<output, pending, pc, buffer, head, tail, fail_count, scanning,
                    accepted, typed, decoded, decoder>>
    BY <1>9 DEF vars, wire, queue, device
  <2>2. OnWay' = OnWay
    BY <2>1 DEF OnWay
  <2>3. Typed'
    BY <1>1, <2>1, <2>2 DEF Typed
  <2>4. CommandsInv'
    BY <1>1, <2>1, <2>2
      DEF CommandsInv, Queued, InOrder, Before, Asked, ScansWhenEnabled
  <2> QED
    BY <1>2, <2>1, <2>2, <2>3, <2>4
<1> QED
  BY <1>3, <1>4, <1>5, <1>6, <1>7, <1>8, <1>9 DEF Next, keyboard_handler, rest

LEMMA KeyboardInvariant == Spec => []KeyboardInv
  BY InitKeyboardInv, NextKeyboardInv, PTL DEF Spec

-----------------------------------------------------------------------------
(***************************************************************************)
(* What follows from it.                                                   *)
(***************************************************************************)
LEMMA PrefixOf ==
  ASSUME NEW S, NEW s \in Seq(S), NEW t \in Seq(S), Len(s) <= Len(t),
         \A k \in 1 .. Len(s) : s[k] = t[k]
  PROVE  IsPrefix(s, t)
<1> DEFINE u == SubSeq(s, 1, Len(s))
           v == SubSeq(t, 1, Len(s))
<1>1. u \in Seq(S) /\ Len(u) = Len(s) /\ \A k \in 1 .. Len(s) : u[k] = s[k]
  OBVIOUS
<1>2. v \in Seq(S) /\ Len(v) = Len(s) /\ \A k \in 1 .. Len(s) : v[k] = t[k]
  OBVIOUS
<1> HIDE DEF u, v
<1>3. u = v
  BY <1>1, <1>2, SameSequence
<1> QED
  BY <1>3 DEF u, v, IsPrefix

LEMMA QuietStream ==
  ASSUME Typed, Quiet(0)
  PROVE  OnWay = <<>>
<1>1. output = Empty
  BY DEF Typed, Quiet
<1> QED
  BY <1>1 DEF Quiet, OnWay

(***************************************************************************)
(* The queue never overflows, and the statics of the handler stay within   *)
(* their bounds: its fail counter below 256, its window of bytes at two,   *)
(* whatever keys and answers come (ps2_keyboard.c 371-495).                *)
(***************************************************************************)
THEOREM KeyboardTypeCorrect == Spec => []KeyboardTypeOK
<1>1. KeyboardInv => KeyboardTypeOK
  <2> SUFFICES ASSUME KeyboardInv PROVE KeyboardTypeOK
    OBVIOUS
  <2>1. Typed /\ CommandsInv /\ KeysInv
    BY DEF KeyboardInv
  <2>2. output = Empty \/ output[1] = 0
    BY <2>1 DEF Typed
  <2>3. head \in QueueIndex /\ tail \in QueueIndex /\ head <= tail
    BY <2>1, Sizes, CommandCount DEF CommandsInv, Queued, QueueIndex
  <2>4. fail_count \in 0 .. COMMAND_RESEND_THRESHOLD
    BY <2>1, Sizes DEF CommandsInv, Before, Asked
  <2>5. PICK seen : DecoderAt(seen)
    BY <2>1 DEF KeysInv, Reading
  <2>6. flags \subseteq {"BREAK", "EXT_0", "EXT_1"}
    BY <2>5 DEF DecoderAt, Prefix
  <2>7. Len(fullcode) <= 2
    <3>1. fullcode = <<>> \/ \E x \in seen : fullcode = <<x>>
      BY <2>5 DEF DecoderAt
    <3>2. ASSUME NEW x, fullcode = <<x>> PROVE Len(fullcode) <= 2
      BY <3>2
    <3> QED
      BY <3>1, <3>2
  <2>8. bytes_to_receive \in 0 .. 2
    BY <2>5 DEF DecoderAt
  <2> QED
    BY <2>1, <2>2, <2>3, <2>4, <2>6, <2>7, <2>8 DEF KeyboardTypeOK, Typed
<1> QED
  BY <1>1, KeyboardInvariant, PTL

(***************************************************************************)
(* The keyboard takes the commands in the order of the queue, none twice   *)
(* and none left out, with any number of requests to send again            *)
(* (ps2_keyboard.c 380-393).                                               *)
(***************************************************************************)
THEOREM CommandsTakenInOrder == Spec => []AcceptedInOrder
<1>1. KeyboardInv => AcceptedInOrder
  <2> SUFFICES ASSUME KeyboardInv PROVE AcceptedInOrder
    OBVIOUS
  <2>1. accepted \in Seq(ToSet(Commands)) /\ Commands \in Seq(ToSet(Commands))
    BY SevenCommands DEF KeyboardInv, Typed
  <2>2. /\ Len(accepted) <= Len(Commands)
        /\ \A k \in 1 .. Len(accepted) : accepted[k] = Commands[k]
    BY DEF KeyboardInv, CommandsInv, InOrder
  <2> QED
    BY <2>1, <2>2, PrefixOf DEF AcceptedInOrder
<1> QED
  BY <1>1, KeyboardInvariant, PTL

(***************************************************************************)
(* The initialisation stops half way only when the keyboard asked the      *)
(* threshold's number of times for one byte (ps2_keyboard.c 385-392).      *)
(***************************************************************************)
THEOREM StallsAtThreshold == Spec => []StallsOnlyAtThreshold
<1>1. KeyboardInv => StallsOnlyAtThreshold
  <2> SUFFICES ASSUME KeyboardInv, pc = "running", Quiet(0),
                      fail_count # COMMAND_RESEND_THRESHOLD
               PROVE  head = tail /\ accepted = Commands
    BY DEF StallsOnlyAtThreshold
  <2>1. Typed /\ CommandsInv
    BY DEF KeyboardInv
  <2>2. OnWay = <<>>
    BY <2>1, QuietStream
  <2>3. head = Len(accepted) /\ head = tail
    BY <2>1, <2>2 DEF CommandsInv, Asked
  <2>4. tail = Len(Commands)
    BY <2>1 DEF CommandsInv, Queued
  <2>5. Len(accepted) = Len(Commands)
    BY <2>3, <2>4
  <2>6. \A k \in 1 .. Len(accepted) : accepted[k] = Commands[k]
    BY <2>1 DEF CommandsInv, InOrder
  <2>7. accepted \in Seq(ToSet(Commands)) /\ Commands \in Seq(ToSet(Commands))
    BY <2>1, SevenCommands DEF Typed
  <2>8. accepted = Commands
    BY <2>5, <2>6, <2>7, SameSequence
  <2> QED
    BY <2>3, <2>8
<1> QED
  BY <1>1, KeyboardInvariant, PTL

(***************************************************************************)
(* However many keys are pressed, and whatever is on its way meanwhile,    *)
(* the handler makes of the bytes the keys that were pressed and released, *)
(* each once and in order (ps2_keyboard.c 394-495).                        *)
(***************************************************************************)
THEOREM KeysAreDecoded == Spec => []KeysDecodedInOrder
<1>1. KeyboardInv => KeysDecodedInOrder
  <2> SUFFICES ASSUME KeyboardInv PROVE KeysDecodedInOrder
    OBVIOUS
  <2>1. Typed /\ typed \in Seq(Events) /\ decoded \in Seq(Events)
    BY DEF KeyboardInv, Typed
  <2>2. PICK stream \in Seq(ScanBytes), got \in Nat :
          \E end \in [0 .. Len(typed) -> 0 .. Len(stream)] :
            Laid(stream, end, typed) /\ Ahead(stream, got) /\ Reading(end, got)
    BY DEF KeyboardInv, KeysInv
  <2>3. PICK end \in [0 .. Len(typed) -> 0 .. Len(stream)] :
          Laid(stream, end, typed) /\ Ahead(stream, got) /\ Reading(end, got)
    BY <2>2
  <2>4. /\ Len(decoded) <= Len(typed)
        /\ \A i \in 1 .. Len(decoded) : decoded[i] = typed[i]
        /\ Len(decoded) < Len(typed) => got < end[Len(decoded) + 1]
    BY <2>3 DEF Reading
  <2>5. IsPrefix(decoded, typed)
    BY <2>1, <2>4, PrefixOf
  <2>6. ASSUME Quiet(0) PROVE decoded = typed
    <3>1. OnWay = <<>> /\ Answered = 0
      BY <2>1, <2>6, QuietStream DEF Answered
    <3>2. got = Len(stream)
      <4>1. Len(OnWay) = Answered + Len(stream) - got /\ Len(stream) \in Nat
        BY <2>3 DEF Ahead
      <4> QED
        BY <3>1, <4>1
    <3>3. ~(Len(decoded) < Len(typed))
      <4> SUFFICES ASSUME Len(decoded) < Len(typed) PROVE FALSE
        OBVIOUS
      <4>1. Len(decoded) + 1 \in 0 .. Len(typed)
        BY <2>1
      <4>2. end[Len(decoded) + 1] \in 0 .. Len(stream)
        BY <4>1
      <4> QED
        BY <2>4, <3>2, <4>2
    <3>4. Len(decoded) = Len(typed)
      BY <2>1, <2>4, <3>3
    <3> QED
      BY <2>1, <2>4, <3>4, SameSequence
  <2> QED
    BY <2>5, <2>6 DEF KeysDecodedInOrder
<1> QED
  BY <1>1, KeyboardInvariant, PTL

=============================================================================

------------------------------ MODULE Keyboard ------------------------------
(***************************************************************************)
(* The keyboard on channel 0: its command queue, init_ps2_keyboard and the *)
(* interrupt handler (drivers/ps2/ps2_keyboard.c, and the queue at the end *)
(* of drivers/ps2/ps2_device_general.c).                                   *)
(*                                                                         *)
(* init_ps2_keyboard queues a list of commands and sends the first; from   *)
(* then on the handler, one byte per interrupt, sends the next on each ACK *)
(* and the same again on each RSD, and puts scan codes together into keys. *)
(* The queue holds bytes here named for what they are, the scan codes a    *)
(* few of each shape: plain, after one prefix byte, and the long ones of   *)
(* Pause and PrintScreen.                                                  *)
(***************************************************************************)
EXTENDS Ps2Wire, SequencesExt

CONSTANTS
  COMMAND_QUEUE_SIZE,        \* (32)
  COMMAND_RESEND_THRESHOLD,  \* (3)
  Keys,                      \* the keys that are pressed, of Key
  EventBound,                \* how many presses and releases, at most
  GarbledBound               \* how many RSD the keyboard sends, at most

Commands ==
  <<"SET_LED", "LED_OFF", "SET_SCAN_CODE_SET", "SCAN_CODE_SET_2",
    "SET_TYPEMATIC_RATE_DELAY", "RATE", "ENABLE_SCAN">>

Key == {"A", "LSHIFT", "LCTRL", "UP", "RCTRL", "PAUSE", "PRTSCR"}

ASSUME KeyboardAssumption ==
  /\ COMMAND_QUEUE_SIZE \in Nat /\ COMMAND_QUEUE_SIZE > Len(Commands)
  /\ COMMAND_RESEND_THRESHOLD \in 1 .. 255
  /\ Keys \subseteq Key
  /\ EventBound \in Nat /\ GarbledBound \in Nat

QueueIndex == 0 .. COMMAND_QUEUE_SIZE - 1

VARIABLES
  pc,                \* step of init_ps2_keyboard, "running" once it is done
  buffer, head, tail,                   \* the command queue of channel 0
  fail_count, bytes_to_receive, fullcode, flags,  \* statics of the handler
  scanning,          \* the keyboard sends scan codes
  accepted,          \* history: the bytes the keyboard acknowledged
  garbled,           \* history: how many RSD it sent
  typed, decoded     \* history: what was pressed, and what was made of it

queue   == <<buffer, head, tail>>
decoder == <<bytes_to_receive, fullcode, flags>>
device  == <<scanning, accepted, garbled, typed>>

vars == <<wire, pc, queue, fail_count, decoder, device, decoded>>

-----------------------------------------------------------------------------
(***************************************************************************)
(* The keyboard itself.                                                    *)
(***************************************************************************)

\* The bytes of a press or a release; Pause sends both at once.
ScanCode(key, up) ==
  CASE key = "A"      -> IF up THEN <<"F0", "1C">> ELSE <<"1C">>
    [] key = "LSHIFT" -> IF up THEN <<"F0", "12">> ELSE <<"12">>
    [] key = "LCTRL"  -> IF up THEN <<"F0", "14">> ELSE <<"14">>
    [] key = "UP"     -> IF up THEN <<"E0", "F0", "75">> ELSE <<"E0", "75">>
    [] key = "RCTRL"  -> IF up THEN <<"E0", "F0", "14">> ELSE <<"E0", "14">>
    [] key = "PRTSCR" -> IF up THEN <<"E0", "F0", "7C", "E0", "F0", "12">>
                               ELSE <<"E0", "12", "E0", "7C">>
    [] key = "PAUSE"  -> IF up THEN <<"E1", "F0", "14", "F0", "77">>
                               ELSE <<"E1", "14", "77">>

Make(key)  == <<key, "make">>
Break(key) == <<key, "break">>

press ==
  /\ scanning
  /\ \E key \in Keys, up \in BOOLEAN :
       IF key = "PAUSE"
       THEN /\ ~up /\ Len(typed) + 2 <= EventBound
            /\ Answer(0, ScanCode(key, FALSE) \o ScanCode(key, TRUE))
            /\ typed' = typed \o <<Make(key), Break(key)>>
       ELSE /\ Len(typed) < EventBound
            /\ Answer(0, ScanCode(key, up))
            /\ typed' = Append(typed, IF up THEN Break(key) ELSE Make(key))
  /\ UNCHANGED <<pc, queue, fail_count, decoder, scanning, accepted, garbled, decoded>>

\* The keyboard takes a byte, or asks for it again.
Receive(cmd) ==
  /\ \/ /\ pending' = [pending EXCEPT ![0] = Append(@, "ACK")]
        /\ accepted' = Append(accepted, cmd)
        /\ scanning' = (cmd = "ENABLE_SCAN" \/ scanning)
        /\ UNCHANGED garbled
     \/ /\ garbled < GarbledBound
        /\ pending' = [pending EXCEPT ![0] = Append(@, "RSD")]
        /\ garbled' = garbled + 1
        /\ UNCHANGED <<accepted, scanning>>
  /\ UNCHANGED typed

-----------------------------------------------------------------------------
(***************************************************************************)
(* The command queue.                                                      *)
(***************************************************************************)

ps2_device_enqueue_command(cmd) ==
  /\ buffer' = [buffer EXCEPT ![tail] = cmd]
  /\ tail' = (tail + 1) % COMMAND_QUEUE_SIZE
  /\ UNCHANGED head

ps2_device_queue_pop == head' = (head + 1) % COMMAND_QUEUE_SIZE

\* The byte at the given place, if it is in the queue, goes to the keyboard.
ps2_device_send_topqueue(front) ==
  IF front = tail
  THEN UNCHANGED <<pending, device>>
  ELSE Receive(buffer[front])

-----------------------------------------------------------------------------
(***************************************************************************)
(* init_ps2_keyboard(0).  The keyboard was left silent, its scanning off,  *)
(* by the detection before it.                                             *)
(***************************************************************************)

Init ==
  /\ WireInit
  /\ pc = "enqueue"
  /\ buffer = [k \in QueueIndex |-> "0"] /\ head = 0 /\ tail = 0
  /\ fail_count = 0 /\ bytes_to_receive = 0 /\ fullcode = <<>> /\ flags = {}
  /\ scanning = FALSE /\ accepted = <<>> /\ garbled = 0
  /\ typed = <<>> /\ decoded = <<>>

enqueue ==
  /\ pc = "enqueue"
  /\ ps2_device_enqueue_command(Commands[tail + 1])
  /\ pc' = IF tail + 1 = Len(Commands) THEN "send" ELSE "enqueue"
  /\ UNCHANGED <<wire, fail_count, decoder, device, decoded>>

\* enable_io_devices(KEYBOARD), then the first byte is sent, or ps2_device_send
\* times out: nobody looks at what it returns.
send_first ==
  /\ pc = "send"
  /\ \/ ps2_device_send_topqueue(head) /\ pc' = "running"
     \/ UNCHANGED <<pending, device>> /\ pc' = "unsent"
  /\ UNCHANGED <<output, queue, fail_count, decoder, decoded>>

-----------------------------------------------------------------------------
(***************************************************************************)
(* keyboard_handler.  Interrupts are off in it, so its sends do not time   *)
(* out.                                                                    *)
(***************************************************************************)

\* The interrupt is unmasked.
Interrupt == pc # "enqueue"

\* Mutant: the answer is sent before the queue moves on.
acknowledged_sends_first ==
  /\ Interrupt /\ output = <<0, "ACK">> /\ output' = Empty
  /\ fail_count' = 0
  /\ ps2_device_queue_pop
  /\ ps2_device_send_topqueue(head)
  /\ UNCHANGED <<pc, buffer, tail, decoder, decoded>>

acknowledged ==
  /\ Interrupt /\ output = <<0, "ACK">> /\ output' = Empty
  /\ fail_count' = 0
  /\ ps2_device_queue_pop
  /\ ps2_device_send_topqueue(head')
  /\ UNCHANGED <<pc, buffer, tail, decoder, decoded>>

Resend(again) ==
  /\ Interrupt /\ output = <<0, "RSD">> /\ output' = Empty
  /\ fail_count' = (fail_count + 1) % 256
  /\ IF again
     THEN ps2_device_send_topqueue(head) /\ UNCHANGED head
     ELSE ps2_device_queue_pop /\ UNCHANGED <<pending, device>>
  /\ UNCHANGED <<pc, buffer, tail, decoder, decoded>>

\* Mutants: no RSD is heeded; each one is.
resend_gives_up_at_once == Resend(FALSE)
resend_for_ever         == Resend(TRUE)

\* At the threshold the command is dropped, and nothing is sent.
resend == Resend(fail_count' # COMMAND_RESEND_THRESHOLD)

Prefix == [F0 |-> "BREAK", E0 |-> "EXT_0", E1 |-> "EXT_1"]

prefix ==
  /\ Interrupt /\ output # Empty /\ output[2] \in DOMAIN Prefix
  /\ output' = Empty
  /\ flags' = flags \cup {Prefix[output[2]]}
  /\ bytes_to_receive' = IF output[2] = "E1" THEN 2 ELSE bytes_to_receive
  /\ UNCHANGED <<pending, pc, queue, fail_count, fullcode, device, decoded>>

\* The keycode of the bytes received since the last key.
KeyCode(full) ==
  CASE "EXT_1" \in flags ->
         IF full = <<"14", "77">> THEN "PAUSE" ELSE "NONE"
    [] "EXT_1" \notin flags /\ "EXT_0" \in flags ->
         CASE full = <<"75">> -> "UP"
           [] full = <<"14">> -> "RCTRL"
           [] full \in {<<"12", "7C">>, <<"7C", "12">>} -> "PRTSCR"
           [] OTHER -> "NONE"
    [] OTHER ->
         CASE Last(full) = "1C" -> "A"
           [] Last(full) = "12" -> "LSHIFT"
           [] Last(full) = "14" -> "LCTRL"
           [] OTHER -> "NONE"

\* More bytes belong to the key: those E1 announced, or half of PrintScreen.
Unfinished(full) ==
  \/ bytes_to_receive > 1
  \/ "EXT_1" \notin flags /\ "EXT_0" \in flags /\ full \in {<<"12">>, <<"7C">>}

\* send_make_key or send_break_key.
Emit(key) ==
  decoded' = Append(decoded, IF "BREAK" \in flags THEN Break(key) ELSE Make(key))

\* Mutant: the flags of one key stay for the next.
KeyDone_keeps_flags(full) ==
  Emit(KeyCode(full)) /\ UNCHANGED flags /\ fullcode' = <<>>

KeyDone(full) == Emit(KeyCode(full)) /\ flags' = {} /\ fullcode' = <<>>

code ==
  /\ Interrupt /\ output # Empty
  /\ output[2] \notin {"ACK", "RSD"} \cup DOMAIN Prefix
  /\ output' = Empty
  /\ bytes_to_receive' = IF bytes_to_receive > 0 THEN bytes_to_receive - 1 ELSE 0
  /\ LET bytes == Append(fullcode, output[2])
         full  == SubSeq(bytes, IF Len(bytes) > 4 THEN 2 ELSE 1, Len(bytes))
     IN  IF Unfinished(full)
         THEN fullcode' = full /\ UNCHANGED <<flags, decoded>>
         ELSE KeyDone(full)
  /\ UNCHANGED <<pending, pc, queue, fail_count, device>>

keyboard_handler == acknowledged \/ resend \/ prefix \/ code

deliver == Deliver(0) /\ UNCHANGED <<pc, queue, fail_count, decoder, device, decoded>>

\* Nothing happens any more: all is typed, or the keyboard was never enabled.
rest ==
  /\ pc \in {"running", "unsent"} /\ Quiet(0)
  /\ scanning => Len(typed) = EventBound
  /\ UNCHANGED vars

Next == enqueue \/ send_first \/ press \/ deliver \/ keyboard_handler \/ rest

Spec == Init /\ [][Next]_vars

-----------------------------------------------------------------------------

\* The state stays within its types; the queue never overflows.
KeyboardTypeOK ==
  /\ output = Empty \/ output[1] = 0
  /\ pc \in {"enqueue", "send", "running", "unsent"}
  /\ buffer \in [QueueIndex -> {"0"} \cup ToSet(Commands)]
  /\ head \in QueueIndex /\ tail \in QueueIndex /\ head <= tail
  /\ fail_count \in 0 .. COMMAND_RESEND_THRESHOLD
  /\ bytes_to_receive \in 0 .. 2
  /\ Len(fullcode) <= 2
  /\ flags \subseteq {"BREAK", "EXT_0", "EXT_1"}

(***************************************************************************)
(* The keyboard takes each command once and in the order they were queued, *)
(* arguments right behind their commands, however often it asks for one    *)
(* again (ps2_keyboard.c 380-393, ps2_device_general.c 241-262).           *)
(***************************************************************************)
AcceptedInOrder == IsPrefix(accepted, Commands)

(***************************************************************************)
(* Once the first command is sent, the rest follow without anyone waiting: *)
(* when nothing is on its way and commands are left, the keyboard asked    *)
(* COMMAND_RESEND_THRESHOLD times for one (ps2_keyboard.c 385-392).        *)
(***************************************************************************)
StallsOnlyAtThreshold ==
  pc = "running" /\ Quiet(0) =>
    \/ head = tail /\ accepted = Commands
    \/ fail_count = COMMAND_RESEND_THRESHOLD

(***************************************************************************)
(* Each press and release is reported as that key, once and in order; the  *)
(* bytes of one key leave nothing behind that changes the next             *)
(* (ps2_keyboard.c 394-495, the statics of the handler).                   *)
(***************************************************************************)
KeysDecodedInOrder ==
  /\ IsPrefix(decoded, typed)
  /\ Quiet(0) => decoded = typed

=============================================================================

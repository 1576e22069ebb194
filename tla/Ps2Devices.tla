----------------------------- MODULE Ps2Devices -----------------------------
(***************************************************************************)
(* Resetting and identifying the PS/2 devices at boot: ps2_reset_devices   *)
(* and ps2_detect_devices (drivers/ps2/ps2_device_general.c).              *)
(*                                                                         *)
(* Both poll: they send a byte, wait for the answer until a time-out, and  *)
(* try again up to three times.  The time-out is half a millisecond and    *)
(* the clock steps by more than five, so it may fire at the first look     *)
(* however fast the device is; and after a time-out the answer may still   *)
(* come.  A send that times out has sent nothing, but a WRITE_CHANNEL1_    *)
(* DEVICE before it stays in force for the next byte.                      *)
(***************************************************************************)
EXTENDS Ps2Wire

CONSTANTS
  RETRY_COUNT,  \* RESET_RETRY_COUNT and DETECT_RETRY_COUNT (3)
  Worlds,       \* what may be plugged in, and whether everything answers in time
  GarbledBound  \* how many bytes the devices do not understand, at most

Device == {"keyboard", "mouse", "none"}

ASSUME Ps2Assumption ==
  /\ RETRY_COUNT \in Nat \ {0}
  /\ Worlds \subseteq [attached : [Channel -> Device], prompt : BOOLEAN]
  /\ GarbledBound \in Nat

Byte == 0 .. 255

\* PS2ToHostCommand.
ACK == 250
RSD == 254
BAT == 170

\* PS2DeviceID: two bytes, the first the lower, or more than two bytes hold.
NOTHING     == 131072
AT_KEYBOARD == 65536
MF_KEYBOARD == 33707

VARIABLES
  attached,  \* the devices that are plugged in
  prompt,    \* answers come, and the controller takes bytes, before the time-out
  ok,        \* ps2_status: the channels whose status is CHANNEL_OK
  pc,        \* step of the driver
  channel,   \* channel being worked on
  try,       \* tr, ch: the attempt
  low,       \* answer: first byte of an ID, once read
  route,     \* the controller sends the next data byte to channel 1
  devices,   \* what was identified
  garbled    \* how many bytes were not understood so far

world  == <<attached, prompt>>
driver == <<pc, channel, try, low, devices>>

ps2_vars == <<wire, world, ok, driver, route, garbled>>

-----------------------------------------------------------------------------
(***************************************************************************)
(* The devices.                                                            *)
(***************************************************************************)

Identity == [keyboard |-> <<171, 131>>, mouse |-> <<0>>]

\* A mouse announces its identity after its self test.
Replies(device, cmd) ==
  CASE cmd = "RESET" ->
         <<ACK, BAT>> \o IF device = "mouse" THEN Identity.mouse ELSE <<>>
    [] cmd = "DISABLE_SCAN" -> <<ACK>>
    [] cmd = "IDENTIFY" -> <<ACK>> \o Identity[device]

\* A device answers, or asks for the byte again.
Receive(ch, cmd) ==
  IF attached[ch] = "none"
  THEN UNCHANGED <<wire, garbled>>
  ELSE \/ Answer(ch, Replies(attached[ch], cmd)) /\ UNCHANGED garbled
       \/ garbled < GarbledBound /\ Answer(ch, <<RSD>>) /\ garbled' = garbled + 1

-----------------------------------------------------------------------------
(***************************************************************************)
(* Sending and reading with a time-out.                                    *)
(***************************************************************************)

\* The command WRITE_CHANNEL1_DEVICE for channel 1, then ps2_device_send.
Send(cmd) ==
  /\ Receive(IF route \/ channel = 1 THEN 1 ELSE 0, cmd)
  /\ route' = FALSE

\* The same, and ps2_device_send returns 1.
NotSent ==
  /\ ~prompt
  /\ route' = (route \/ channel = 1)
  /\ UNCHANGED <<wire, garbled>>

\* Nothing is left to come.
Silent == output = Empty /\ \A s \in Source : pending[s] = <<>>

\* ps2_device_read returns 0xffff.
TimedOut == (~prompt \/ Silent) /\ UNCHANGED wire

\* If everything is prompt, the driver finds a byte waiting where there is one.
InTime == ~prompt \/ output # Empty \/ Silent

-----------------------------------------------------------------------------
(***************************************************************************)
(* The driver.                                                             *)
(***************************************************************************)

Init ==
  /\ WireInit
  /\ \E w \in Worlds : attached = w.attached /\ prompt = w.prompt
  /\ ok \in SUBSET Channel
  /\ pc = "reset" /\ channel = 0 /\ try = 1
  /\ low = 0 /\ route = FALSE
  /\ devices = [ch \in Channel |-> NOTHING]
  /\ garbled = 0

\* The steps that wait for an answer, and the answer they go on with.
Expected ==
  [reset_ack |-> ACK, reset_bat |-> BAT, disable_ack |-> ACK, identify_ack |-> ACK]

\* The first step of the loop that the driver is in.
Loop == IF pc \in {"reset", "reset_ack", "reset_bat"} THEN "reset" ELSE "disable_scan"

\* The other channel, and after it the next loop.
NextChannel ==
  /\ channel' = 1 - channel
  /\ try' = 1
  /\ pc' = CASE channel = 0 -> Loop
             [] channel = 1 /\ Loop = "reset" -> "disable_scan"
             [] OTHER -> "done"

AgainWhile(more, next_try) ==
  IF more
  THEN pc' = Loop /\ try' = next_try /\ UNCHANGED channel
  ELSE NextChannel

\* Mutants: one attempt too few, and attempts that do not count.
Again_once_less == AgainWhile(try < RETRY_COUNT - 1, try + 1)
Again_for_ever  == AgainWhile(try < RETRY_COUNT, try)

Again == AgainWhile(try < RETRY_COUNT, try + 1)

GoTo(label) == pc' = label /\ UNCHANGED <<channel, try>>

\* A channel whose status is not CHANNEL_OK.
skip_channel ==
  /\ pc \in {"reset", "disable_scan"} /\ channel \notin ok
  /\ NextChannel
  /\ UNCHANGED <<wire, world, ok, low, devices, route, garbled>>

send_reset ==
  /\ pc = "reset" /\ channel \in ok
  /\ \/ Send("RESET") /\ GoTo("reset_ack")
     \/ NotSent /\ Again
  /\ UNCHANGED <<world, ok, low, devices>>

\* What ps2_device_send returns is not looked at here.
send_scan_command ==
  /\ channel \in ok
  /\ \/ /\ pc = "disable_scan"
        /\ Send("DISABLE_SCAN") \/ NotSent
        /\ GoTo("disable_ack")
     \/ /\ pc = "identify"
        /\ Send("IDENTIFY") \/ NotSent
        /\ GoTo("identify_ack")
  /\ UNCHANGED <<world, ok, low, devices>>

answered ==
  /\ pc \in DOMAIN Expected
  /\ ReadByte({Expected[pc]})
  /\ CASE pc = "reset_ack"    -> GoTo("reset_bat")
       [] pc = "reset_bat"    -> NextChannel
       [] pc = "disable_ack"  -> GoTo("identify")
       [] pc = "identify_ack" -> GoTo("id_low")
  /\ UNCHANGED <<world, ok, low, devices, route, garbled>>

\* Another answer than the expected one, or none, costs an attempt.
not_answered ==
  /\ pc \in DOMAIN Expected
  /\ TimedOut \/ ReadByte(Byte \ {Expected[pc]})
  /\ Again
  /\ UNCHANGED <<world, ok, low, devices, route, garbled>>

Detected(id) ==
  /\ devices' = [devices EXCEPT ![channel] = id]
  /\ low' = 0
  /\ NextChannel

\* ps2_read_device_id.
read_id_low ==
  /\ pc = "id_low"
  /\ \/ TimedOut /\ Detected(AT_KEYBOARD)
     \/ ReadByte(Byte) /\ low' = output[2] /\ GoTo("id_high") /\ UNCHANGED devices
  /\ UNCHANGED <<world, ok, route, garbled>>

read_id_high ==
  /\ pc = "id_high"
  /\ \/ TimedOut /\ Detected(low)
     \/ ReadByte(Byte) /\ Detected(low + 256 * output[2])
  /\ UNCHANGED <<world, ok, route, garbled>>

Driver ==
  /\ InTime
  /\ \/ skip_channel \/ send_reset \/ send_scan_command
     \/ answered \/ not_answered \/ read_id_low \/ read_id_high

deliver == \E s \in Source : Deliver(s) /\ UNCHANGED <<world, ok, driver, route, garbled>>

idle == pc = "done" /\ UNCHANGED ps2_vars

Next == Driver \/ deliver \/ idle

\* The driver is not preempted for good: only the timer interrupts it.
Spec == Init /\ [][Next]_ps2_vars /\ WF_ps2_vars(Driver) /\ WF_ps2_vars(deliver)

-----------------------------------------------------------------------------

(***************************************************************************)
(* A keyboard on channel 0 is identified, and nothing is left on the wire  *)
(* that its interrupt handler would take for an answer, as long as answers *)
(* come in time and the devices fail to understand fewer bytes than there  *)
(* are attempts: the counts of the two loops are right                     *)
(* (ps2_device_general.c 90-143, 198-216).                                 *)
(***************************************************************************)
KeyboardFound ==
  prompt /\ pc = "done" /\ attached[0] = "keyboard" /\ 0 \in ok =>
    devices[0] = MF_KEYBOARD /\ Silent

(***************************************************************************)
(* "Device detected - %s" (ps2_device_general.c 213, 234): a channel on    *)
(* which a keyboard is reported has one.                                   *)
(***************************************************************************)
IdentifiedIsAttached ==
  \A ch \in Channel : devices[ch] = MF_KEYBOARD => attached[ch] = "keyboard"

=============================================================================

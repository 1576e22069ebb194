------------------------------ MODULE Ps2Wire ------------------------------
(***************************************************************************)
(* The data path of the PS/2 controller, as the driver sees it: one byte   *)
(* waits in the output buffer until it is read from the data port.  What   *)
(* the devices have still to send queues up in the devices, and the        *)
(* controller takes the next byte of either of them, or its own answer to  *)
(* a command, when the buffer is empty.  Only the order tells which        *)
(* question a byte answers.                                                *)
(***************************************************************************)
EXTENDS Integers, Sequences

Channel == {0, 1}

\* Where a byte may come from: a device, or the controller itself.
CONTROLLER == 2
Source == Channel \cup {CONTROLLER}

Empty == <<>>

VARIABLES
  output,   \* Empty, or the waiting byte after where it came from
  pending   \* per source, the bytes it has still to send

wire == <<output, pending>>

\* No byte of channel ch is on its way.
Quiet(ch) == pending[ch] = <<>> /\ (output # Empty => output[1] # ch)

WireInit == output = Empty /\ pending = [s \in Source |-> <<>>]

Deliver(s) ==
  /\ output = Empty
  /\ pending[s] # <<>>
  /\ output' = <<s, Head(pending[s])>>
  /\ pending' = [pending EXCEPT ![s] = Tail(@)]

\* inb(PS2_DATA_PORT) reads one of bytes, OUTPUT_BUFFER_FULL being set.
ReadByte(bytes) ==
  /\ output # Empty
  /\ output[2] \in bytes
  /\ output' = Empty
  /\ UNCHANGED pending

\* The device or the controller has bytes to send.
Answer(s, bytes) ==
  /\ pending' = [pending EXCEPT ![s] = @ \o bytes]
  /\ UNCHANGED output

=============================================================================

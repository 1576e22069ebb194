---------------------------- MODULE MCPs2Devices ----------------------------
(***************************************************************************)
(* Ps2Devices with what may be plugged in.                                 *)
(***************************************************************************)
EXTENDS Ps2Devices

World(a, b, in_time) ==
  [attached |-> [ch \in Channel |-> IF ch = 0 THEN a ELSE b], prompt |-> in_time]

PromptMouse == {World("keyboard", "mouse", TRUE)}

SlowKeyboard == {World("keyboard", "none", FALSE)}

=============================================================================

----------------------------- MODULE MCPs2Boot -----------------------------
(***************************************************************************)
(* Ps2Boot with firmware, controllers and devices of several kinds.        *)
(***************************************************************************)
EXTENDS Ps2Boot

World(a, b, in_time) ==
  [attached |-> [ch \in Channel |-> IF ch = 0 THEN a ELSE b], prompt |-> in_time]

\* Anything but a mouse on channel 1, all of it prompt; and a slow keyboard.
MCWorlds ==
  {World(a, b, TRUE) : a \in Device, b \in Device \ {"mouse"}}
  \cup {World("keyboard", "none", FALSE)}

Chip(passes, resets, second, test1) ==
  [passes |-> passes, resets |-> resets, second |-> second,
   tests |-> [ch \in Channel |-> IF ch = 0 THEN CHANNEL_OK ELSE test1]]

TwoChannels == Chip(TRUE, FALSE, TRUE, CHANNEL_OK)
OddChips ==
  {Chip(FALSE, FALSE, TRUE, CHANNEL_OK), Chip(TRUE, FALSE, TRUE, 3),
   Chip(TRUE, FALSE, FALSE, CHANNEL_OK), Chip(TRUE, TRUE, TRUE, CHANNEL_OK)}
MCChips == OddChips \cup {TwoChannels}

Nothing == [signature |-> "other", checksum |-> 1, revision |-> 0]
Damaged == [signature |-> "RSD PTR ", checksum |-> 1, revision |-> 2]
Root(revision) == [signature |-> "RSD PTR ", checksum |-> 0, revision |-> revision]
FACP(checksum, has) == [signature |-> "FACP", checksum |-> checksum, has_8042 |-> has]
Other == [signature |-> "other", checksum |-> 0, has_8042 |-> FALSE]

\* Paragraphs 2 and 3 are searched, then 6 and 7.
Firmware(a, b, c, checksum, entry) ==
  [memory |-> [p \in Searched |-> CASE p = 3 -> a [] p = 6 -> b [] p = 7 -> c [] p = 2 -> Nothing],
   checksum |-> checksum, entry |-> entry]

Usual == Firmware(Damaged, Root(2), Root(0), 0, <<Other, FACP(1, FALSE), FACP(0, TRUE), FACP(0, FALSE)>>)
MCFirmwares ==
  {Usual,
   Firmware(Root(2), Nothing, Root(0), 0, <<FACP(0, FALSE)>>),
   Firmware(Nothing, Nothing, Root(0), 0, <<FACP(0, FALSE)>>),
   Firmware(Nothing, Root(2), Nothing, 1, <<FACP(0, FALSE)>>),
   Firmware(Nothing, Damaged, Nothing, 0, <<FACP(0, FALSE), Other>>)}

\* One thing out of the ordinary at a time.
Ordinary ==
  \/ firmware = Usual /\ chip = TwoChannels
  \/ /\ firmware = Usual \/ chip = TwoChannels
     /\ prompt /\ attached[0] = "keyboard" /\ attached[1] = "none"

\* Where answers come late anyway, a byte is misunderstood or a key is pressed,
\* once.
OneFault == ~prompt => garbled' + typed' <= 1

MCInit == BootInit /\ Ordinary
MCNext == BootNext /\ OneFault
MCSpec == MCInit /\ [][MCNext]_boot_vars /\ Fairness

=============================================================================

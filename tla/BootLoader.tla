----------------------------- MODULE BootLoader -----------------------------
(***************************************************************************)
(* The loop of boot.asm that reads the kernel behind the boot sector, one  *)
(* sector at a time through the BIOS, which addresses a floppy disk by     *)
(* cylinder, head and sector.  Nothing tells the kernel later whether what *)
(* it runs is the image in order.                                          *)
(*                                                                         *)
(* Memory is counted in sectors from 0x7C00, where the BIOS has put the    *)
(* first one.  check.sh keeps the image below 30 kB, so that the segment   *)
(* in es does not wrap.                                                    *)
(***************************************************************************)
EXTENDS Integers

CONSTANTS
  CYLINDERS_LIMIT,          \* the last cylinder (79); heads are 0 and 1
  SECTORS_PER_TRACK_LIMIT,  \* the last sector of a track (36)
  DriveSectors,             \* sectors per track of the disk that is in the drive
  kernel_size_sectors       \* __kernel_size_sectors of link.ld

ASSUME DriveAssumption ==
  /\ CYLINDERS_LIMIT \in Nat
  /\ SECTORS_PER_TRACK_LIMIT \in Nat /\ SECTORS_PER_TRACK_LIMIT >= 2
  /\ DriveSectors \in 1 .. SECTORS_PER_TRACK_LIMIT
  /\ kernel_size_sectors \in Nat \ {0}

VARIABLES
  at,          \* the step of the loop
  ch, dh, cl,  \* cylinder, head and sector to read next
  es,          \* where to
  di,          \* sectors left, and one
  image        \* what memory holds: [place -> number of the sector on the disk]

loader_vars == <<at, ch, dh, cl, es, di, image>>

LoaderInit ==
  /\ at = "count"
  /\ ch = 0 /\ dh = 0 /\ cl = 2
  /\ es = 1
  /\ di = kernel_size_sectors
  /\ image = [place \in {0} |-> 0]

count_sectors ==
  /\ at = "count"
  /\ di' = di - 1
  /\ at' = IF di' = 0 THEN "video_settings" ELSE "read"
  /\ UNCHANGED <<ch, dh, cl, es, image>>

\* The disk has such a sector, and its number, counted along the tracks.
OnDisk == ch <= CYLINDERS_LIMIT /\ cl <= DriveSectors
SectorNumber == (2 * ch + dh) * DriveSectors + (cl - 1)

\* int 0x13 with ah = 2, al = 1.
read ==
  /\ at = "read" /\ OnDisk
  /\ image' = [place \in DOMAIN image \cup {es} |->
                 IF place = es THEN SectorNumber ELSE image[place]]
  /\ at' = "advance"
  /\ UNCHANGED <<ch, dh, cl, es, di>>

\* Every read may fail, and is not tried again; one off the disk does.
read_error ==
  /\ at = "read"
  /\ at' = "read_error"
  /\ UNCHANGED <<ch, dh, cl, es, di, image>>

\* Mutant: jb for jbe, the last sector of each track is skipped.
TrackDone_early(sector) == sector >= SECTORS_PER_TRACK_LIMIT

TrackDone(sector) == sector > SECTORS_PER_TRACK_LIMIT

\* The next sector; behind the last of a track the other head, and behind
\* both heads the next cylinder.
advance ==
  /\ at = "advance"
  /\ es' = es + 1
  /\ IF TrackDone(cl + 1)
     THEN cl' = 1 /\ dh' = 1 - dh /\ ch' = IF dh' = 0 THEN ch + 1 ELSE ch
     ELSE cl' = cl + 1 /\ UNCHANGED <<dh, ch>>
  /\ at' = "count"
  /\ UNCHANGED <<di, image>>

LoaderStep == count_sectors \/ read \/ read_error \/ advance

LoaderStopped == at \in {"video_settings", "read_error"} /\ UNCHANGED loader_vars

LoaderNext == LoaderStep \/ LoaderStopped

LoaderSpec == LoaderInit /\ [][LoaderNext]_loader_vars

-----------------------------------------------------------------------------

\* The state stays within its types.
LoaderTypeOK ==
  /\ at \in {"count", "read", "advance", "video_settings", "read_error"}
  /\ ch \in Nat /\ dh \in {0, 1} /\ cl \in 1 .. SECTORS_PER_TRACK_LIMIT
  /\ es \in Nat /\ di \in 0 .. kernel_size_sectors
  /\ DOMAIN image \subseteq Nat

(***************************************************************************)
(* Memory holds the disk's first sectors in their order, without a gap,    *)
(* across the ends of tracks and cylinders and whatever disk is in the     *)
(* drive; and all of the image when the kernel is entered (boot.asm        *)
(* 33-85).                                                                 *)
(***************************************************************************)
ImageInOrder ==
  /\ \A place \in DOMAIN image : image[place] = place
  /\ DOMAIN image = 0 .. (IF at = "advance" THEN es ELSE es - 1)
  /\ at = "video_settings" => DOMAIN image = 0 .. kernel_size_sectors - 1

=============================================================================

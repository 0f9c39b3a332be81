------------------------------ MODULE AbUpdate ------------------------------
(***************************************************************************)
(* What an A/B firmware update over ESP-IDF's OTA partitions promises: the *)
(* chip runs the partition otadata selected at its last reset; an update   *)
(* writes only a partition that is neither running nor selected; otadata   *)
(* selects only a partition holding a bootable image; a reset starts the   *)
(* selected one.  A crash at any point therefore restarts into a bootable  *)
(* image.                                                                  *)
(***************************************************************************)
CONSTANT Part       \* the OTA app partitions

VARIABLES
  running,          \* partition the chip runs
  selected,         \* partition otadata selects for the next boot
  bootable          \* per partition: it holds a complete verified image

avars == <<running, selected, bootable>>

Init ==
  /\ bootable \in [Part -> BOOLEAN]
  /\ running \in Part /\ selected = running
  /\ bootable[selected]

(* Writing an image into partition p; the image may be left incomplete.   *)
Write(p) ==
  /\ p # running /\ p # selected
  /\ \E ok \in BOOLEAN : bootable' = [bootable EXCEPT ![p] = ok]
  /\ UNCHANGED <<running, selected>>

(* esp_ota_set_boot_partition on a bootable image.                         *)
Select(p) ==
  /\ bootable[p]
  /\ selected' = p
  /\ UNCHANGED <<running, bootable>>

(* Any reset: the second-stage bootloader starts the selected partition.   *)
Boot ==
  /\ running' = selected
  /\ UNCHANGED <<selected, bootable>>

Next == (\E p \in Part : Write(p) \/ Select(p)) \/ Boot

Spec == Init /\ [][Next]_avars

=============================================================================

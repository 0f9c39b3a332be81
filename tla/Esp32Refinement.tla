--------------------------- MODULE Esp32Refinement ---------------------------
(***************************************************************************)
(* Esp32Bootloader implements AbUpdate: seen through the running           *)
(* partition, otadata and whether each partition holds a complete image   *)
(* for this chip, every step of the application, of the bootloader HAL    *)
(* and of the resets is a step of an A/B update or leaves that view alone. *)
(***************************************************************************)
EXTENDS Esp32BootloaderProofs

(* The partitions holding a complete image for this chip.                  *)
Bootable == [p \in Parts |-> Valid(flash[p])]

AB == INSTANCE AbUpdate WITH Part <- Parts, selected <- bootPart,
                              bootable <- Bootable

(* The OTA discipline of esp32_bootloader_run, write_flash and            *)
(* flash_complete: the session writes only the partition that is neither  *)
(* running nor selected by otadata, otadata is switched only to a verified *)
(* image, and every reset runs the selected partition.                     *)
ImplementsAbUpdate == AB!Spec

-----------------------------------------------------------------------------
(* The strengthening both proofs need: outside application_entry the chip  *)
(* runs the partition otadata selects (flash_complete is the only step     *)
(* that changes otadata, and it moves to "entry" when it does), so the     *)
(* partition write_flash writes, Other(running), is never the selected one. *)
SelectedRunning == pc # "entry" => bootPart = running
ABIInv == BootIInv /\ SelectedRunning /\ BootImageValid

view == <<running, bootPart, Bootable>>

LEMMA TargetOther ==
  ASSUME TypeOK PROVE Target \in Parts /\ Target # running
BY OtherPart DEF TypeOK, Target

LEMMA InitABIInv == Init => ABIInv
<1> SUFFICES ASSUME Init PROVE ABIInv
  OBVIOUS
<1>1. Valid(flash["A"])
  BY DEF Init, Valid, ForThisChip, Parts
<1>. QED
  BY <1>1, InitBootIInv DEF Init, ABIInv, SelectedRunning, BootImageValid

(* A reset boots the selected partition and keeps flash and otadata.       *)
LEMMA RamResetStep ==
  ASSUME ABIInv, NEW k, RamReset(k)
  PROVE  SelectedRunning' /\ BootImageValid' /\ AB!Boot
<1>1. running' = bootPart /\ bootPart' = bootPart /\ flash' = flash /\ pc' = "start"
  BY DEF RamReset
<1>2. Bootable' = Bootable
  BY <1>1 DEF Bootable
<1>. QED
  BY <1>1, <1>2 DEF SelectedRunning, BootImageValid, ABIInv, AB!Boot

LEMMA WriteFlashStep ==
  ASSUME ABIInv, NEW a \in Addrs, NEW f \in Files, WriteFlash(a, f)
  PROVE  SelectedRunning' /\ BootImageValid' /\ [AB!Next]_view
<1>0. TypeOK /\ Target \in Parts /\ Target # running /\ pc = "loader"
  BY TargetOther DEF ABIInv, BootIInv, WriteFlash
<1>1. bootPart = running
  BY <1>0 DEF ABIInv, SelectedRunning
<1> DEFINE begun == a = 0 /\ HeaderAccepted(f)
           handle == IF begun THEN lastHandle + 1 ELSE otaHandle
           open == IF begun THEN openHandles \cup {handle} ELSE openHandles
<1>2. CASE a = 0 /\ (~begun \/ handle = 0)
  BY <1>2, RamResetStep DEF WriteFlash, Restart, AB!Next
<1>3. CASE ~(a = 0 /\ (~begun \/ handle = 0)) /\ handle \notin open
  BY <1>3, RamResetStep DEF WriteFlash, Restart, AB!Next
<1>4. CASE ~(a = 0 /\ (~begun \/ handle = 0)) /\ handle \in open
  <2>1. /\ \E img : flash' = [flash EXCEPT ![Target] = img]
        /\ UNCHANGED <<pc, running, bootPart>>
    BY <1>4 DEF WriteFlash
  <2>2. flash'[bootPart] = flash[bootPart]
    BY <2>1, <1>0, <1>1 DEF TypeOK
  <2>3. Bootable' = [Bootable EXCEPT ![Target] = Valid(flash'[Target])]
    BY <2>1, <1>0 DEF Bootable, TypeOK
  <2>4. AB!Write(Target)
    <3>1. Valid(flash'[Target]) \in BOOLEAN
      BY DEF Valid
    <3>2. \E ok \in BOOLEAN : Bootable' = [Bootable EXCEPT ![Target] = ok]
      BY <3>1, <2>3
    <3>. QED
      BY <3>2, <2>1, <1>0, <1>1 DEF AB!Write
  <2>. QED
    BY <2>1, <2>2, <2>4, <1>0 DEF ABIInv, SelectedRunning, BootImageValid, AB!Next
<1>. QED
  BY <1>2, <1>3, <1>4

LEMMA FlashCompleteStep ==
  ASSUME ABIInv, FlashComplete
  PROVE  SelectedRunning' /\ BootImageValid' /\ [AB!Next]_view
<1>0. TypeOK /\ Target \in Parts
  BY TargetOther DEF ABIInv, BootIInv
<1>1. PICK setOk \in BOOLEAN :
        LET res == otaHandle \in openHandles /\ Valid(flash[Target]) /\ setOk
        IN /\ bootPart' = IF res THEN Target ELSE bootPart
           /\ pc' = IF res THEN "entry" ELSE "loader"
  BY DEF FlashComplete
<1>2. UNCHANGED <<running, flash>>
  BY DEF FlashComplete
<1>3. Bootable' = Bootable
  BY <1>2 DEF Bootable
<1> DEFINE res == otaHandle \in openHandles /\ Valid(flash[Target]) /\ setOk
<1>4. CASE res
  <2>1. AB!Select(Target)
    BY <1>0, <1>1, <1>2, <1>3, <1>4 DEF AB!Select, Bootable
  <2>. QED
    BY <2>1, <1>0, <1>1, <1>2, <1>4 DEF SelectedRunning, BootImageValid, AB!Next
<1>5. CASE ~res
  <2>1. pc = "loader"
    BY DEF FlashComplete
  <2>. QED
    BY <2>1, <1>1, <1>2, <1>3, <1>5 DEF ABIInv, SelectedRunning, BootImageValid, view
<1>. QED
  BY <1>4, <1>5

(* Every step keeps the strengthening and is an A/B update step or leaves *)
(* the view alone.                                                          *)
LEMMA NextABStep ==
  ASSUME ABIInv, [Next]_vars
  PROVE  SelectedRunning' /\ BootImageValid' /\ [AB!Next]_view
<1>1. CASE \E a \in Addrs, f \in Files : WriteFlash(a, f)
  BY <1>1, WriteFlashStep
<1>2. CASE FlashComplete
  BY <1>2, FlashCompleteStep
<1>3. CASE BootloaderInit \/ Run \/ HwInit
  <2>1. UNCHANGED <<running, bootPart, flash>> /\ pc' # "entry"
    BY <1>3 DEF BootloaderInit, Run, HwInit
  <2>2. pc # "entry"
    BY <1>3 DEF BootloaderInit, Run, HwInit
  <2>. QED
    BY <2>1, <2>2 DEF ABIInv, SelectedRunning, BootImageValid, view, Bootable
<1>4. CASE \E k \in ResetKinds : EnvReset(k)
  BY <1>4, RamResetStep DEF EnvReset, Restart, AB!Next
<1>5. CASE AppRequest \/ ApplicationEntry
  BY <1>5, RamResetStep DEF AppRequest, ApplicationEntry, Restart, AB!Next
<1>6. CASE UNCHANGED vars
  BY <1>6 DEF vars, ABIInv, SelectedRunning, BootImageValid, view, Bootable
<1>. QED
  BY <1>1, <1>2, <1>3, <1>4, <1>5, <1>6 DEF Next

LEMMA NextABIInv == ABIInv /\ [Next]_vars => ABIInv'
BY NextABStep, NextBootIInv DEF ABIInv

-----------------------------------------------------------------------------
(* For every image size and bound on writes and resets, otadata always     *)
(* selects a partition holding a complete image for this chip: no crash,  *)
(* rejected header or failed esp_ota_end leaves the chip unbootable.       *)
THEOREM BootImageCorrect == Spec => []BootImageValid
<1>1. Spec => []ABIInv
  BY InitABIInv, NextABIInv, PTL DEF Spec
<1>. QED
  BY <1>1, PTL DEF ABIInv

LEMMA InitAB == Init => AB!Init
<1> SUFFICES ASSUME Init PROVE AB!Init
  OBVIOUS
<1>1. Valid(flash["A"])
  BY DEF Init, Valid, ForThisChip, Parts
<1>2. Bootable \in [Parts -> BOOLEAN]
  BY DEF Bootable, Valid
<1>3. running \in Parts /\ bootPart = running /\ Bootable[bootPart]
  BY <1>1 DEF Init, Bootable, Parts
<1>. QED
  BY <1>2, <1>3 DEF AB!Init

(* For every image size and bound, the bootloader HAL with the application *)
(* and the resets implements the A/B update discipline of AbUpdate.        *)
THEOREM ImplementsAbUpdateCorrect == Spec => ImplementsAbUpdate
<1>1. Spec => []ABIInv
  BY InitABIInv, NextABIInv, PTL DEF Spec
<1>2. ABIInv /\ [Next]_vars => [AB!Next]_view
  BY NextABStep
<1>. QED
  BY <1>1, <1>2, InitAB, PTL DEF Spec, ImplementsAbUpdate, AB!Spec, AB!avars, view

=============================================================================

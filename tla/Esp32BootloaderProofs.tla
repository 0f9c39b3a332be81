----------------------- MODULE Esp32BootloaderProofs -----------------------
(***************************************************************************)
(* Proofs about Esp32Bootloader for every image size and every bound on    *)
(* writes and resets.  The three checked properties rest on one inductive *)
(* invariant, BootIInv: beyond the properties, an OTA handle still open    *)
(* has already written the target's first block (so later writes append   *)
(* behind an accepted header), and the RTC flag holds RTC_BOOL_TRUE only   *)
(* on an application request or as power-on garbage.                       *)
(***************************************************************************)
EXTENDS Esp32Bootloader, TLAPS

USE BootConstants

-----------------------------------------------------------------------------
(* Lemmas about the data of the model.                                     *)

LEMMA OtherPart == ASSUME NEW p \in Parts PROVE Other(p) \in Parts /\ Other(p) # p
BY DEF Other, Parts

LEMMA ImageType ==
  ASSUME NEW f \in Files
  PROVE  ImageOf(f) \in Seq(Block) /\ Len(ImageOf(f)) = NumBlocks
         /\ ImageOf(f)[1] = [file |-> f, addr |-> 0]
BY DEF ImageOf, Block, Addrs

LEMMA BlockType ==
  ASSUME NEW f \in Files, NEW a \in Addrs
  PROVE  [file |-> f, addr |-> a] \in Block
BY DEF Block

(* Appending keeps the first element of a non-empty sequence.              *)
LEMMA AppendHead ==
  ASSUME NEW S, NEW s \in Seq(S), NEW x \in S, s # <<>>
  PROVE  Append(s, x)[1] = s[1] /\ Append(s, x) # <<>>
OBVIOUS

(* A reset of the volatile state keeps every strengthening conjunct that   *)
(* does not mention the RTC flag.                                          *)
LEMMA RamResetIInv ==
  ASSUME BootIInv, NEW k \in ResetKinds, RamReset(k),
         writes' \in 0 .. MaxWrites, resets' \in 0 .. MaxResets,
         request' \in RtcValues, requested' \in BOOLEAN,
         rtcGarbage' \in BOOLEAN
  PROVE  /\ TypeOK'
         /\ CompletionSelectsImage'
         /\ PartitionsStartWithOwnHeader'
         /\ HandleInv'
<1>0. TypeOK
  BY DEF BootIInv
<1>1. TypeOK'
  BY <1>0 DEF RamReset, TypeOK, PC
<1>2. CompletionSelectsImage'
  BY DEF RamReset, CompletionSelectsImage
<1>3. PartitionsStartWithOwnHeader'
  BY DEF RamReset, BootIInv, PartitionsStartWithOwnHeader
<1>4. HandleInv'
  BY DEF RamReset, HandleInv
<1>. QED
  BY <1>1, <1>2, <1>3, <1>4

(* The same for a restart, whose RTC flag keeps or loses its value.        *)
LEMMA RestartIInv ==
  ASSUME BootIInv, NEW k \in ResetKinds, Restart(k),
         writes' \in 0 .. MaxWrites, resets' \in 0 .. MaxResets
  PROVE  BootIInv'
<1>0. TypeOK
  BY DEF BootIInv
<1>1. /\ request' \in RtcValues /\ requested' \in BOOLEAN
      /\ rtcGarbage' \in BOOLEAN
      /\ RtcInv'
  BY <1>0 DEF Restart, BootIInv, RtcInv, TypeOK
<1>2. RamReset(k)
  BY DEF Restart
<1>. QED
  BY <1>1, <1>2, RamResetIInv DEF BootIInv

-----------------------------------------------------------------------------
(* The invariant holds initially and is kept by every step.                *)

LEMMA InitBootIInv == Init => BootIInv
<1> SUFFICES ASSUME Init PROVE BootIInv
  OBVIOUS
<1>1. ImageOf("old") \in Seq(Block) /\ ImageOf("old")[1] = [file |-> "old", addr |-> 0]
  BY ImageType DEF Files
<1>2. TypeOK
  <2>1. flash \in [Parts -> Seq(Block)]
    BY <1>1 DEF Init, Parts
  <2>2. writes \in 0 .. MaxWrites /\ resets \in 0 .. MaxResets
    BY DEF Init
  <2>. QED
    BY <2>1, <2>2 DEF Init, TypeOK, ResetKinds, PC, Parts
<1>3. PartitionsStartWithOwnHeader
  BY <1>1 DEF Init, PartitionsStartWithOwnHeader, ForThisChip, Parts
<1>. QED
  BY <1>2, <1>3 DEF Init, BootIInv, CompletionSelectsImage, HandleInv, RtcInv

LEMMA WriteFlashIInv ==
  ASSUME BootIInv, NEW a \in Addrs, NEW f \in Files, WriteFlash(a, f)
  PROVE  BootIInv'
<1>0. TypeOK /\ Target \in Parts
  BY OtherPart DEF BootIInv, TypeOK, Target
<1>1. writes' \in 0 .. MaxWrites
  BY <1>0 DEF WriteFlash, TypeOK
<1> DEFINE begun == a = 0 /\ HeaderAccepted(f)
           handle == IF begun THEN lastHandle + 1 ELSE otaHandle
           open == IF begun THEN openHandles \cup {handle} ELSE openHandles
           img == IF begun THEN <<>> ELSE flash[Target]
<1>2. CASE a = 0 /\ (~begun \/ handle = 0)
  <2>1. Restart("sw") /\ resets' = resets
    BY <1>2 DEF WriteFlash
  <2>. QED
    BY <2>1, <1>0, <1>1, RestartIInv DEF ResetKinds, TypeOK
<1>3. CASE ~(a = 0 /\ (~begun \/ handle = 0)) /\ handle \notin open
  <2>1. Restart("panic") /\ resets' = resets
    BY <1>3 DEF WriteFlash
  <2>. QED
    BY <2>1, <1>0, <1>1, RestartIInv DEF ResetKinds, TypeOK
<1>4. CASE ~(a = 0 /\ (~begun \/ handle = 0)) /\ handle \in open
  <2>1. /\ otaHandle' = handle /\ openHandles' = open
        /\ lastHandle' = IF begun THEN handle ELSE lastHandle
        /\ flash' = [flash EXCEPT ![Target] = Append(img, [file |-> f, addr |-> a])]
        /\ UNCHANGED <<request, requested, rtcGarbage, reason, pc, twaiInit,
                       running, bootPart, resets>>
    BY <1>4 DEF WriteFlash
  <2>2. [file |-> f, addr |-> a] \in Block
    BY BlockType
  <2>3. img \in Seq(Block) /\ (~begun => img # <<>>)
    BY <1>0, <1>4 DEF BootIInv, HandleInv, TypeOK
  <2>4. begun => f \in ForThisChip /\ a = 0
    BY DEF HeaderAccepted, ForThisChip, Files
  <2>5. Append(img, [file |-> f, addr |-> a]) # <<>>
        /\ Append(img, [file |-> f, addr |-> a])[1].addr = 0
        /\ Append(img, [file |-> f, addr |-> a])[1].file \in ForThisChip
    <3>1. CASE begun
      BY <3>1, <2>4
    <3>2. CASE ~begun
      <4>1. img = flash[Target] /\ img # <<>>
        BY <3>2, <2>3
      <4>2. img[1].addr = 0 /\ img[1].file \in ForThisChip
        BY <4>1, <1>0 DEF BootIInv, PartitionsStartWithOwnHeader
      <4>. QED
        BY <4>1, <4>2, <2>2, <2>3, AppendHead
    <3>. QED
      BY <3>1, <3>2
  <2>6. Target' = Target
    BY <2>1 DEF Target
  <2>7. TypeOK'
    <3>1. handle \in Nat \ {0}
      BY <1>0, <1>4 DEF TypeOK
    <3>. QED
      BY <1>0, <1>1, <2>1, <2>2, <2>3, <3>1 DEF TypeOK
  <2>8. CompletionSelectsImage'
    BY <2>1 DEF WriteFlash, CompletionSelectsImage
  <2>9. PartitionsStartWithOwnHeader'
    BY <1>0, <2>1, <2>5 DEF BootIInv, PartitionsStartWithOwnHeader, TypeOK
  <2>10. HandleInv'
    BY <1>0, <2>1, <2>5, <2>6 DEF HandleInv, TypeOK
  <2>11. RtcInv'
    BY <2>1 DEF BootIInv, RtcInv
  <2>. QED
    BY <2>7, <2>8, <2>9, <2>10, <2>11 DEF BootIInv
<1>. QED
  BY <1>2, <1>3, <1>4

LEMMA FlashCompleteIInv ==
  ASSUME BootIInv, FlashComplete
  PROVE  BootIInv'
<1>0. TypeOK
  BY DEF BootIInv
<1>1. PICK setOk \in BOOLEAN :
        LET res == otaHandle \in openHandles /\ Valid(flash[Target]) /\ setOk
        IN /\ openHandles' = openHandles \ {otaHandle}
           /\ bootPart' = IF res THEN Target ELSE bootPart
           /\ pc' = IF res THEN "entry" ELSE "loader"
  BY DEF FlashComplete
<1>2. UNCHANGED <<request, requested, rtcGarbage, reason, otaHandle, twaiInit,
                  lastHandle, running, flash, writes, resets>>
  BY DEF FlashComplete
<1>3. Target' = Target /\ Target \in Parts
  BY <1>0, <1>2, OtherPart DEF Target, TypeOK
<1>4. TypeOK'
  BY <1>0, <1>1, <1>2, <1>3 DEF TypeOK, PC
<1>5. CompletionSelectsImage'
  BY <1>1, <1>2, <1>3 DEF CompletionSelectsImage
<1>6. PartitionsStartWithOwnHeader'
  BY <1>2 DEF BootIInv, PartitionsStartWithOwnHeader
<1>7. HandleInv'
  BY <1>1, <1>2, <1>3 DEF BootIInv, HandleInv
<1>8. RtcInv'
  BY <1>2 DEF BootIInv, RtcInv
<1>. QED
  BY <1>4, <1>5, <1>6, <1>7, <1>8 DEF BootIInv

(* The steps of the start-up path and of the application.                   *)
LEMMA StartupIInv ==
  ASSUME BootIInv, BootloaderInit \/ Run \/ HwInit
  PROVE  BootIInv'
<1>0. TypeOK
  BY DEF BootIInv
<1>1. CASE BootloaderInit
  <2>1. UNCHANGED <<requested, reason, otaHandle, twaiInit, openHandles,
                    lastHandle, running, bootPart, flash, writes, resets>>
    BY <1>1 DEF BootloaderInit
  <2>2. pc' \in {"run", "app"} /\ request' \in RtcValues
    BY <1>0, <1>1 DEF BootloaderInit, TypeOK, RtcValues
  <2>3. rtcGarbage' \in BOOLEAN
    BY <1>1 DEF BootloaderInit
  <2>4. RtcInv'
    <3>1. CASE reason = "poweron"
      <4>1. request' = RtcFalse
        BY <1>1, <3>1 DEF BootloaderInit
      <4>. QED
        BY <4>1 DEF RtcInv, RtcFalse, RtcTrue
    <3>2. CASE reason # "poweron"
      <4>1. request' = request /\ rtcGarbage' = rtcGarbage
        BY <1>0, <1>1, <3>2 DEF BootloaderInit, TypeOK
      <4>. QED
        BY <4>1, <2>1 DEF BootIInv, RtcInv
    <3>. QED
      BY <3>1, <3>2
  <2>. QED
    BY <1>0, <2>1, <2>2, <2>3, <2>4 DEF BootIInv, TypeOK, PC,
       CompletionSelectsImage, PartitionsStartWithOwnHeader, HandleInv, Target
<1>2. CASE Run
  <2>1. UNCHANGED <<reason, openHandles, lastHandle, running, bootPart, flash,
                    writes, resets>>
    BY <1>2 DEF Run
  <2>2. /\ request' = RtcFalse /\ requested' = FALSE /\ rtcGarbage' = FALSE
        /\ otaHandle' = 0 /\ twaiInit' = FALSE /\ pc' = "loader_init"
    BY <1>2 DEF Run
  <2>3. TypeOK'
    BY <1>0, <2>1, <2>2 DEF TypeOK, PC, RtcValues
  <2>4. RtcInv'
    BY <2>2 DEF RtcInv, RtcFalse, RtcTrue
  <2>. QED
    BY <1>0, <2>1, <2>2, <2>3, <2>4 DEF BootIInv, CompletionSelectsImage,
       PartitionsStartWithOwnHeader, HandleInv, Target, TypeOK
<1>3. CASE HwInit
  <2>1. UNCHANGED <<request, requested, rtcGarbage, reason, otaHandle,
                    openHandles, lastHandle, running, bootPart, flash, writes,
                    resets>>
    BY <1>3 DEF HwInit
  <2>2. twaiInit' = TRUE /\ pc' = "loader"
    BY <1>3 DEF HwInit
  <2>. QED
    BY <1>0, <2>1, <2>2 DEF BootIInv, TypeOK, PC,
       CompletionSelectsImage, PartitionsStartWithOwnHeader, HandleInv, RtcInv,
       Target
<1>. QED
  BY <1>1, <1>2, <1>3

LEMMA ResetStepIInv ==
  ASSUME BootIInv,
         \/ \E k \in ResetKinds : EnvReset(k)
         \/ AppRequest
         \/ ApplicationEntry
  PROVE  BootIInv'
<1>0. TypeOK
  BY DEF BootIInv
<1>1. CASE \E k \in ResetKinds : EnvReset(k)
  <2>1. PICK k \in ResetKinds : EnvReset(k)
    BY <1>1
  <2>2. Restart(k) /\ writes' \in 0 .. MaxWrites /\ resets' \in 0 .. MaxResets
    BY <1>0, <2>1 DEF EnvReset, TypeOK
  <2>. QED
    BY <2>2, RestartIInv
<1>2. CASE AppRequest
  <2>1. RamReset("sw") /\ writes' \in 0 .. MaxWrites /\ resets' \in 0 .. MaxResets
    BY <1>0, <1>2 DEF AppRequest, TypeOK
  <2>2. request' = RtcTrue /\ requested' = TRUE /\ rtcGarbage' = FALSE
    BY <1>2 DEF AppRequest
  <2>3. request' \in RtcValues /\ RtcInv'
    BY <2>2 DEF RtcValues, RtcInv
  <2>. QED
    BY <2>1, <2>2, <2>3, RamResetIInv DEF ResetKinds, BootIInv
<1>3. CASE ApplicationEntry
  <2>1. Restart("sw") /\ writes' \in 0 .. MaxWrites /\ resets' \in 0 .. MaxResets
    BY <1>0, <1>3 DEF ApplicationEntry, TypeOK
  <2>. QED
    BY <2>1, RestartIInv DEF ResetKinds
<1>. QED
  BY <1>1, <1>2, <1>3

LEMMA NextBootIInv == BootIInv /\ [Next]_vars => BootIInv'
<1> SUFFICES ASSUME BootIInv, [Next]_vars PROVE BootIInv'
  OBVIOUS
<1>1. CASE \E a \in Addrs, f \in Files : WriteFlash(a, f)
  BY <1>1, WriteFlashIInv
<1>2. CASE FlashComplete
  BY <1>2, FlashCompleteIInv
<1>3. CASE BootloaderInit \/ Run \/ HwInit
  BY <1>3, StartupIInv
<1>4. CASE \/ \E k \in ResetKinds : EnvReset(k)
           \/ AppRequest
           \/ ApplicationEntry
  BY <1>4, ResetStepIInv
<1>5. CASE UNCHANGED vars
  BY <1>5 DEF vars, BootIInv, TypeOK, CompletionSelectsImage,
     PartitionsStartWithOwnHeader, HandleInv, RtcInv, Target
<1>. QED
  BY <1>1, <1>2, <1>3, <1>4, <1>5 DEF Next

-----------------------------------------------------------------------------
(* Every reachable state satisfies the inductive invariant.                *)
THEOREM BootIInvCorrect == Spec => []BootIInv
BY InitBootIInv, NextBootIInv, PTL DEF Spec

(* For every image size and bound, flash_complete reports success only    *)
(* when otadata selects the target and the target holds a verified image: *)
(* application_entry always reboots into the image just received.         *)
THEOREM CompletionCorrect == Spec => []CompletionSelectsImage
BY BootIInvCorrect, PTL DEF BootIInv

(* For every image size and bound, every partition with data starts with   *)
(* a header block for this chip: write_flash's header tests guard every   *)
(* OTA session.                                                            *)
THEOREM HeaderCorrect == Spec => []PartitionsStartWithOwnHeader
BY BootIInvCorrect, PTL DEF BootIInv

(* For every bound, BootloaderInit enters esp32_bootloader_run only on an  *)
(* application request or on power-on garbage in the RTC flag: the flag   *)
(* is cleared before every session, so a session that crashes is not      *)
(* entered again.                                                           *)
LEMMA StartStep ==
  ASSUME BootIInv, [Next]_vars
  PROVE  pc = "start" /\ pc' = "run" => requested \/ rtcGarbage
<1> SUFFICES ASSUME pc = "start", pc' = "run" PROVE requested \/ rtcGarbage
  OBVIOUS
<1>1. BootloaderInit
  BY DEF Next, vars, EnvReset, Restart, RamReset, AppRequest, Run, HwInit,
     WriteFlash, FlashComplete, ApplicationEntry
<1>2. request = RtcTrue
  BY <1>1 DEF BootloaderInit, RtcFalse, RtcTrue
<1>. QED
  BY <1>2 DEF BootIInv, RtcInv

THEOREM OnlyOnRequestCorrect == Spec => BootloaderOnlyOnRequest
<1>1. BootIInv /\ [Next]_vars => [pc = "start" /\ pc' = "run" => requested \/ rtcGarbage]_vars
  BY StartStep
<1>. QED
  BY <1>1, BootIInvCorrect, PTL DEF Spec, BootloaderOnlyOnRequest

=============================================================================

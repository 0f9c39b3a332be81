--------------------------- MODULE Esp32Bootloader ---------------------------
(***************************************************************************)
(* The ESP32 HAL of the OpenLCB bootloader (Esp32BootloaderHal.hxx) across *)
(* resets: the RTC-retained request flag, esp32_bootloader_init and _run,  *)
(* write_flash and flash_complete over the ESP-IDF OTA API, and the boot   *)
(* partition selection they leave in flash.                                *)
(*                                                                         *)
(* Firmware is abstracted to NumBlocks blocks; block a of a file f is the  *)
(* record [file |-> f, addr |-> a].  "old" is the running firmware, "good" *)
(* a new image for this chip, "foreign" an image for another chip (valid   *)
(* magic), "corrupt" one with a wrong image magic.                         *)
(*                                                                         *)
(* The environment: the application (which reads the request flag after   *)
(* init and sets it before restarting), the bootloader core that calls the *)
(* HAL (not in this tree; it calls write_flash with the host's blocks and, *)
(* once flash_complete succeeds, application_entry), ESP-IDF's OTA         *)
(* handles, and resets of three kinds.                                     *)
(***************************************************************************)
EXTENDS Naturals, Sequences

CONSTANTS
  NumBlocks,   \* blocks of a firmware image
  MaxWrites,   \* write_flash calls per boot
  MaxResets    \* resets in a behaviour

ASSUME BootConstants ==
  NumBlocks \in Nat \ {0} /\ MaxWrites \in Nat /\ MaxResets \in Nat

Parts == {"A", "B"}                       \* the two OTA app partitions
Other(p) == IF p = "A" THEN "B" ELSE "A"  \* esp_ota_get_next_update_partition
Files == {"old", "good", "foreign", "corrupt"}
Addrs == 0 .. NumBlocks - 1
Block == [file : Files, addr : Addrs]

(* bootloader_request in RTC no-init memory: RTC_BOOL_FALSE, RTC_BOOL_TRUE *)
(* or any other bit pattern left after power-on.                           *)
RtcFalse == 0
RtcTrue == 1
RtcValues == {RtcFalse, RtcTrue, 2}

(* The complete image of file f, block 0 first.                           *)
ImageOf(f) == [k \in 1 .. NumBlocks |-> [file |-> f, addr |-> k - 1]]

(* The files built for this chip.                                          *)
ForThisChip == {"old", "good"}

(* esp_image_verify: a complete image with header and app description for  *)
(* this chip.                                                               *)
Valid(img) == \E f \in ForThisChip : img = ImageOf(f)

ResetKinds == {"poweron", "sw", "panic"}
PC == {"start", "app", "run", "loader_init", "loader", "entry"}

VARIABLES
  request,     \* bootloader_request (RTC no-init)
  requested,   \* history: the application asked for the bootloader
  rtcGarbage,  \* history: request holds power-on garbage, not a value written
  reason,      \* reset reason passed to esp32_bootloader_init
  pc,          \* what the chip is executing
  otaHandle,   \* esp_bootloader_state.ota_handle
  twaiInit,    \* esp_bootloader_state.twai_initialized
  openHandles, \* ESP-IDF: OTA handles begun and not ended
  lastHandle,  \* ESP-IDF: s_ota_ops_last_handle
  running,     \* partition the firmware runs from
  bootPart,    \* otadata: partition selected for the next boot
  flash,       \* contents of each app partition
  writes,      \* write_flash calls in this boot
  resets       \* resets so far

vars == <<request, requested, rtcGarbage, reason, pc, otaHandle, twaiInit, openHandles,
          lastHandle, running, bootPart, flash, writes, resets>>

(* A target chosen as the running partition (esp_ota_get_running_partition *)
(* in place of esp_ota_get_next_update_partition).                          *)
TargetRunning == running

Target == Other(running)

TypeOK ==
  /\ request \in RtcValues
  /\ requested \in BOOLEAN
  /\ rtcGarbage \in BOOLEAN
  /\ reason \in ResetKinds
  /\ pc \in PC
  /\ otaHandle \in Nat
  /\ twaiInit \in BOOLEAN
  /\ openHandles \in SUBSET (Nat \ {0})
  /\ lastHandle \in Nat
  /\ running \in Parts /\ bootPart \in Parts
  /\ flash \in [Parts -> Seq(Block)]
  /\ writes \in 0 .. MaxWrites
  /\ resets \in 0 .. MaxResets

(* First power-on: RTC memory holds any value, esp_bootloader_state is     *)
(* zero (.bss), partition A holds the running firmware and is selected.    *)
Init ==
  /\ request \in RtcValues
  /\ requested = FALSE
  /\ rtcGarbage = TRUE
  /\ reason = "poweron"
  /\ pc = "start"
  /\ otaHandle = 0
  /\ twaiInit = FALSE
  /\ openHandles = {}
  /\ lastHandle = 0
  /\ running = "A" /\ bootPart = "A"
  /\ flash = [p \in Parts |-> IF p = "A" THEN ImageOf("old") ELSE <<>>]
  /\ writes = 0
  /\ resets = 0

-----------------------------------------------------------------------------
(* A reset of kind k: RAM and ESP-IDF state are lost, flash is kept, the   *)
(* second-stage loader boots the selected partition, RTC memory is kept    *)
(* except on power-on, where it is arbitrary.                              *)
RamReset(k) ==
  /\ reason' = k
  /\ pc' = "start"
  /\ otaHandle' = 0 /\ twaiInit' = FALSE
  /\ openHandles' = {} /\ lastHandle' = 0
  /\ running' = bootPart
  /\ UNCHANGED <<bootPart, flash>>

Restart(k) ==
  /\ RamReset(k)
  /\ IF k = "poweron"
       THEN request' \in RtcValues /\ requested' = FALSE /\ rtcGarbage' = TRUE
       ELSE UNCHANGED <<request, requested, rtcGarbage>>

(* Power loss or a crash (watchdog, panic) at any point.                   *)
EnvReset(k) ==
  /\ resets < MaxResets
  /\ resets' = resets + 1
  /\ Restart(k)
  /\ UNCHANGED writes

(* esp32_bootloader_init(reset_reason), then the application's test of     *)
(* bootloader_request == RTC_BOOL_TRUE.                                     *)
BootloaderInit ==
  /\ pc = "start"
  /\ request' = IF reason = "poweron" THEN RtcFalse ELSE request
  /\ rtcGarbage' = (rtcGarbage /\ reason # "poweron")
  /\ pc' = IF request' = RtcTrue THEN "run" ELSE "app"
  /\ UNCHANGED <<requested, reason, otaHandle, twaiInit, openHandles,
                 lastHandle, running, bootPart, flash, writes, resets>>

(* The application asks for the bootloader: flag set, then esp_restart.    *)
AppRequest ==
  /\ pc = "app"
  /\ resets < MaxResets
  /\ resets' = resets + 1
  /\ RamReset("sw")
  /\ request' = RtcTrue /\ requested' = TRUE /\ rtcGarbage' = FALSE
  /\ UNCHANGED writes

(* Mutant: esp32_bootloader_run without clearing bootloader_request.      *)
RunKeepsRequest ==
  /\ pc = "run"
  /\ requested' = FALSE /\ rtcGarbage' = FALSE
  /\ otaHandle' = 0 /\ twaiInit' = FALSE
  /\ pc' = "loader_init"
  /\ UNCHANGED <<request, reason, openHandles, lastHandle, running, bootPart,
                 flash, writes, resets>>

(* esp32_bootloader_run up to bootloader_entry: clear the flag, zero the   *)
(* state, take the chip id, the running and the next update partition.    *)
(* With two OTA slots the target exists and differs from the running one, *)
(* so bootloader_entry is called; it never returns (application_entry     *)
(* restarts), so the TWAI shutdown and reboot_on_exit after it are not    *)
(* reached.                                                                *)
Run ==
  /\ pc = "run"
  /\ request' = RtcFalse
  /\ requested' = FALSE /\ rtcGarbage' = FALSE
  /\ otaHandle' = 0 /\ twaiInit' = FALSE
  /\ pc' = "loader_init"
  /\ UNCHANGED <<reason, openHandles, lastHandle, running, bootPart, flash,
                 writes, resets>>

(* bootloader_hw_init: install and start the TWAI driver.                  *)
HwInit ==
  /\ pc = "loader_init"
  /\ twaiInit' = TRUE
  /\ pc' = "loader"
  /\ UNCHANGED <<request, requested, rtcGarbage, reason, otaHandle,
                 openHandles, lastHandle, running, bootPart, flash, writes,
                 resets>>

(* Mutant: only the image magic is tested.                                 *)
HeaderMagicOnly(f) == f # "corrupt"

(* The tests of write_flash on the block at address 0: the image magic,   *)
(* then the chip id (valid and equal to the running chip) and the app      *)
(* description magic.                                                      *)
HeaderAccepted(f) ==
  /\ f # "corrupt"
  /\ f # "foreign"

(* write_flash(a, block a of file f).  At address 0 an accepted header     *)
(* begins a new OTA session on the target (erasing it, new handle), a      *)
(* rejected one restarts the chip.  Then esp_ota_write appends at the      *)
(* session's offset; an unknown handle makes ESP_ERROR_CHECK abort.        *)
WriteFlash(a, f) ==
  /\ pc = "loader"
  /\ writes < MaxWrites
  /\ writes' = writes + 1
  /\ LET begun == a = 0 /\ HeaderAccepted(f)
         handle == IF begun THEN lastHandle + 1 ELSE otaHandle
         open == IF begun THEN openHandles \cup {handle} ELSE openHandles
         img == IF begun THEN <<>> ELSE flash[Target]
     IN IF a = 0 /\ (~begun \/ handle = 0)
          THEN Restart("sw") /\ UNCHANGED resets
        ELSE IF handle \notin open
          THEN Restart("panic") /\ UNCHANGED resets
        ELSE /\ otaHandle' = handle
             /\ openHandles' = open
             /\ lastHandle' = IF begun THEN handle ELSE lastHandle
             /\ flash' = [flash EXCEPT ![Target] =
                            Append(img, [file |-> f, addr |-> a])]
             /\ UNCHANGED <<request, requested, rtcGarbage, reason, pc, twaiInit,
                            running, bootPart, resets>>

(* Mutant: the result of esp_ota_set_boot_partition is not assigned to res.*)
FlashCompleteEndOnly ==
  /\ pc = "loader"
  /\ \E setOk \in BOOLEAN :
       LET endOk == otaHandle \in openHandles /\ Valid(flash[Target])
       IN /\ openHandles' = openHandles \ {otaHandle}
          /\ bootPart' = IF endOk /\ setOk THEN Target ELSE bootPart
          /\ pc' = IF endOk THEN "entry" ELSE "loader"
  /\ UNCHANGED <<request, requested, rtcGarbage, reason, otaHandle, twaiInit,
                 lastHandle, running, flash, writes, resets>>

(* flash_complete: esp_ota_end (unknown handle: ESP_ERR_NOT_FOUND; else    *)
(* the handle is freed and the image verified), and on success             *)
(* esp_ota_set_boot_partition(target), which may still fail writing        *)
(* otadata.  It returns res != ESP_OK; the caller enters the application   *)
(* on success and keeps serving the host on failure.                        *)
FlashComplete ==
  /\ pc = "loader"
  /\ \E setOk \in BOOLEAN :
       LET endOk == otaHandle \in openHandles /\ Valid(flash[Target])
           res == endOk /\ setOk
       IN /\ openHandles' = openHandles \ {otaHandle}
          /\ bootPart' = IF res THEN Target ELSE bootPart
          /\ pc' = IF res THEN "entry" ELSE "loader"
  /\ UNCHANGED <<request, requested, rtcGarbage, reason, otaHandle, twaiInit,
                 lastHandle, running, flash, writes, resets>>

(* application_entry: esp_restart.                                          *)
ApplicationEntry ==
  /\ pc = "entry"
  /\ Restart("sw")
  /\ UNCHANGED <<writes, resets>>

Next ==
  \/ \E k \in ResetKinds : EnvReset(k)
  \/ BootloaderInit
  \/ AppRequest
  \/ Run
  \/ HwInit
  \/ \E a \in Addrs, f \in Files : WriteFlash(a, f)
  \/ FlashComplete
  \/ ApplicationEntry

Spec == Init /\ [][Next]_vars

-----------------------------------------------------------------------------
(* Whatever write_flash, flash_complete and the resets do, otadata always *)
(* selects a partition that holds a complete image for this chip: a        *)
(* session writes only the partition the chip is not running, and          *)
(* flash_complete selects it only after esp_ota_end has verified it, so a  *)
(* crash or a failed update never leaves the chip without a bootable image. *)
BootImageValid == Valid(flash[bootPart])

(* When flash_complete reports success, the caller's application_entry     *)
(* reboots into the image just received: otadata selects the target and   *)
(* the target holds a complete image for this chip.  Both esp_ota_end and *)
(* esp_ota_set_boot_partition must have succeeded.                         *)
CompletionSelectsImage ==
  pc = "entry" => bootPart = Target /\ Valid(flash[Target])

(* Every partition that holds data starts with a header block for this     *)
(* chip: write_flash begins an OTA session only after checking the magic,  *)
(* the chip id and the app description, and later writes only append.      *)
PartitionsStartWithOwnHeader ==
  \A p \in Parts :
    flash[p] # <<>> => flash[p][1].addr = 0 /\ flash[p][1].file \in ForThisChip

(* The bootloader runs only when the application asked for it since the   *)
(* last session, or while the flag still holds power-on garbage:          *)
(* esp32_bootloader_run clears the flag before a session that may end in   *)
(* a crash or a restart, so no session is entered twice for one request.  *)
BootloaderOnlyOnRequest ==
  [][pc = "start" /\ pc' = "run" => requested \/ rtcGarbage]_vars

(* The inductive strengthening of the three properties above: an OTA      *)
(* handle still open has written the target's first block, and the flag    *)
(* holds RTC_BOOL_TRUE only on a request or as power-on garbage.           *)
HandleInv == otaHandle \in openHandles => flash[Target] # <<>>
RtcInv == request = RtcTrue => requested \/ rtcGarbage
BootIInv ==
  /\ TypeOK
  /\ CompletionSelectsImage
  /\ PartitionsStartWithOwnHeader
  /\ HandleInv
  /\ RtcInv

(* The header comment of bootloader_request and the note on               *)
(* esp32_bootloader_init: clearing the flag on POWERON_RESET is enough for *)
(* the bootloader never to run on garbage.                                 *)
NoSpuriousBootloader ==
  [][pc = "start" /\ pc' = "run" => requested]_vars

=============================================================================

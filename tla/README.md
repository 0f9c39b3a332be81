# Formal models of openmrn (RobertPHeller fork)

TLA+ models, TLC runs and TLAPS proofs for the code under `src/`. The
centre of the project is the multi-channel RailCom cutout decoder,
`src/src/freertos_drivers/st/Stm32Railcom.hxx`. The ESP32 bootloader HAL,
the BitRangeEventPC event handler with its `EncodeRange`, the CRC routines
and the CDI layout engine have modules of their own (sections 5 to 9).

## 1. The system and its parts

| Part | Source | State | Operations | Interacts with |
|---|---|---|---|---|
| STM32 RailCom driver | `freertos_drivers/st/Stm32Railcom.hxx` | `returnedPackets_[i]` (per-channel record handle); per-UART UE, direction, RDR, FE flag; measurement mode | `enable`, `disable`, `feedback_sample`, `start_cutout`, `middle_cutout`, `end_cutout`, `no_cutout`, `int_set_pending` | the DCC timer ISR (caller); the UART hardware; the allocator, feedback queue and consumer of `RailcomDriverBase` |
| Packet pool, feedback queue, consumer | `RailcomDriverBase` (not under `src/`) | free records; committed records; pending flag of `OS_INTERRUPT` | `alloc_new_packet`, `commit_back`, the consumer interrupt | the driver |
| BitRangeEventPC | `nmranet/EventHandlerTemplates.cxx` | a bit array `data_[]`, `event_base_`, `size_` | `Set`, `HandleEventReport`, `HandleIdentifyProducer/Consumer`, `HandleIdentifyGlobal` | the event bus (write helpers) |
| EncodeRange | `nmranet/EventHandlerTemplates.cxx` | none (pure) | range identifier of `[begin, begin + 2*size)` | `HandleIdentifyGlobal` |
| CRC-16-IBM / CRC3 | `utils/Crc.cxx` | none (pure) | `crc_16_ibm`, `crc3_crc16_ibm` (`reverse` is only used by commented-out code) | its callers (none in the tree) |
| ESP32 bootloader HAL | `freertos_drivers/esp32/Esp32BootloaderHal.hxx`, `include/freertos/bootloader_hal.h` | RTC-retained `bootloader_request`; OTA handle and target partition; TWAI state | `esp32_bootloader_init/run`, `write_flash`, `flash_complete`, CAN frame I/O | the generic bootloader (outside `src/`); the ESP-IDF OTA API |
| CDI layout | `openlcb/CDIUtils.hxx` | per-node `NodeInfo` (offset, size) | `layout_segment` (an iterative tree walk), `CDINodeRep` addressing | the configuration UI |
| WS2812 GPIO | `freertos_drivers/esp32/Esp32WS2812.hxx` | LED colour buffer | `write`, `read`, `toggle` (read, then write) | the RMT update thread |
| SNIP handler | `nmranet/SimpleNodeInfo.hxx` | none of its own | allocate a response buffer and send | the StateFlow framework |

### How the RailCom driver works

1. The DCC timer ISR calls the driver in the order `start_cutout →
   middle_cutout → end_cutout` (or `start_cutout → no_cutout`, or
   `no_cutout` alone), at fixed instants of the track signal.
2. Each call loops over the channels. Inside a channel, it loops over the
   bytes the UART has buffered (`while (RXNE)`).
3. The first byte of a channel in a cutout allocates a record from a bounded
   pool. Window-1 bytes go to `ch1`, window-2 bytes to `ch2`.
4. A byte with a framing error (FE) is dropped.
5. `end_cutout` commits every channel's record to the feedback queue and
   sets the consumer interrupt `OS_INTERRUPT` pending. If no channel had a
   record, it commits one empty record for channel 0.
6. The consumer runs at the lowest priority (lines 140-145). So it only runs
   when the timer ISR is not running.

The UART keeps receiving while the ISR runs. The hard behaviours are:

- **A byte completing during the drain loop.** In particular, one can
  complete between the read of RDR and the test of FE (lines 244/245 and
  292/293).
- **The sticky FE flag.** Reading RDR does not clear it.
- **Pool exhaustion.** The drain loop breaks and leaves bytes in RDR, and
  the synthetic record is skipped.
- **The hand-off to the consumer.**

UART semantics assumed (STM32 USARTv2, the `LL_USART_*` calls the driver
makes):

- RDR holds `Depth` bytes, and RXNE means "RDR not empty".
- FE is set with an errored byte and cleared only by `ClearFlag_FE`,
  `Disable` or a re-init.
- With the direction NONE nothing is received.

## 2. Modules

| Module | Models | Notes |
|---|---|---|
| `RailcomDriver` | the driver, the UART, and the pool, queue and consumer (modelled from the spec) | core module |
| `MC_RailcomDriver` | model values for the pool and a symmetry set | TLC instance |
| `RailcomDriverProofs` | TLAPS proofs about `RailcomDriver` | proofs |
| `RailcomDeliveryProofs` | `DeliveryInv` and the proof of `DeliveriesPerCutout` | proofs (section 4) |
| `MC_RailcomInductive` | the driver instance with the proofs' inductive invariants and the refinement in scope | TLC instance of the safety and liveness runs |
| `RecordLifecycle` | the feedback-record lifecycle of spec §3, abstractly | abstract specification (section 4) |
| `RailcomRefinement` | the mapping from `RailcomDriver` to `RecordLifecycle` and its proof | proofs (section 4) |
| `Esp32Bootloader`, `MC_Esp32Bootloader`, `Esp32BootloaderProofs` | the ESP32 bootloader HAL over ESP-IDF's OTA API and resets | section 5 |
| `AbUpdate` | the A/B update discipline over two OTA partitions, abstractly | abstract specification (section 4) |
| `Esp32Refinement` | the mapping from `Esp32Bootloader` to `AbUpdate`, `BootImageValid` and their proofs; `MC_Esp32Bootloader` extends it | proofs (section 4) |
| `EventRange`, `MC_EventRange` | `EncodeRange` with 64-bit wrap | section 6 |
| `BitRangeEventPC`, `MC_BitRangeEventPC` | the BitRangeEventPC handler and its event dispatch | section 7 |
| `BitRangeEventPCProofs` | the proof of `SettledHoldsPublished`, with its strengthening `PendingInv`; `MC_BitRangeEventPC` extends it | proofs (section 4) |
| `Crc`, `MC_Crc` | `crc_16_ibm`, `crc3_crc16_ibm` | section 8 |
| `CdiLayout`, `MC_CdiLayout` | `layout_segment` and `CDINodeRep` | section 9 |

### State of `RailcomDriver`

- `pc` and `ci`: the program point and the loop index `i` of the phase call
  in progress.
- `needCh1Cutout`, `data` and `havePackets`: the locals of the phase calls.
- `returnedPackets`: the per-channel record handles (`NoPacket` is nullptr).
- `rec`: the contents of each pool record.
- `feedbackQueue` and `pending`: the committed records and the pending flag.
- `ue`, `dir`, `rdr` and `fe`: the UART registers.
- `meas`: the measurement mode.
- `window` and `cut`: the scheduler's timeline.
- `sent`, `delivered` and `touched`: history variables. They bound the bytes
  the line delivers per window, and count the commits and the channels with
  a record in the current slot.

A byte is abstracted to the cutout it was received in and its error bit.
That is what the properties tell apart.

### Actions

One action per statement group of the loops. The UART can therefore
interleave with them:

- `start_cutout`: `StartCutout`, `StartSetDirection`, `StartFlushByte`,
  `StartChannelDone`.
- The drain loop shared by `middle_cutout` and `end_cutout`:
  `DrainAllocFailed`, `DrainRead` (allocate if needed, then `data = RDR`)
  and `DrainEmpty`.
- The FE test: `MiddleFramingError` / `MiddleStoreByte` and
  `EndFramingError` / `EndStoreByte`.
- The channel tails: `MiddleChannelDone` (Disable, RX, Enable) and
  `EndChannelDone` (direction NONE, commit, clear the handle).
- `EndFinal`: the synthetic record.
- The other calls: `NoCutout`, `FeedbackSample`, `Enable`, `Disable`.
- `Consume`: the consumer interrupt.
- `ReceiveByte(i, e)`: the line delivers a byte with or without a framing
  error.

### Fairness

- `WF_vars(PhaseStep)`: the ISR runs a phase call to completion, since
  nothing of lower priority preempts it.
- `SF_vars(Consume)`: the consumer interrupt is pending and is enabled
  whenever no phase call is active. That happens infinitely often but not
  continuously, hence strong fairness.

The scheduler and the line get no fairness: the model does not assume that
cutouts keep coming.

## 3. Runs

Bounds: `NumChannels = 2`, a pool of 2 records (`s1`, `s2`), `Depth = 1`,
`MaxCutouts = 2`, and `MaxBytes = 2` bytes per channel per window (1 for the
liveness run).

- Two channels make records compete for the pool.
- Two records let the pool run out with one channel or over two slots.
- Two cutouts let a byte or a flag of one cutout meet the next.
- A depth of 1 already lets a byte complete between the RDR read and the FE
  test.

The pool's records are symmetric in the safety run. The symmetry is not used
with the liveness properties.

| Run | cfg | Expect | Checks |
|---|---|---|---|
| `railcom_safety` | `MC_RailcomDriver.cfg` on `MC_RailcomInductive` | pass | `TypeOK`; `OwnershipInv` (I1, I2: no record held twice, committed records held by nobody, no double commit); `NoStaleBytes` (a record only holds bytes of its own cutout); `DeliveriesPerCutout` (each slot closes with one commit per channel that got a record, else one synthetic record unless the pool is empty); `StaleIInv`, the inductive invariant of the `NoStaleBytes` proof (section 4); `DeliveryInv`, the invariant of the `DeliveriesPerCutout` proof |
| `railcom_liveness` | `MC_RailcomLive.cfg` on `MC_RailcomInductive` | pass | `PhaseCompletes`, `RecordsConsumed`; `ImplementsLifecycle` (the driver follows the abstract record lifecycle, section 4) |
| `railcom_errored_byte` | `MC_Railcom_ErroredByteNeverStored.cfg` | violation | spec 8: an errored byte is never stored |
| `railcom_orphan_fe` | `MC_Railcom_NoOrphanFramingError.cfg` | violation | spec 4.1: stale data does not affect the new cutout |
| `railcom_every_cutout` | `MC_Railcom_EveryCutoutDelivers.cfg` | violation | spec I3: never zero deliveries |

The safety run takes about 2.5 minutes (3.2 million states), the liveness run
about 1.5 minutes. Checking the liveness properties on the safety instance
(without symmetry, `MaxBytes = 2`) takes 17 minutes, so they keep their own
smaller instance.

`RailcomDriver` also defines `CleanByteNeverRejected` (spec 4.1: a clean
byte is appended) and `CommittedRecordsCarryData` (spec 8 bullet 1). Both
are violated too. TLC finds the first by the same read/test race as
`ErroredByteNeverStored`. The second is where the spec contradicts itself
(below). Neither has a run of its own.

### What the violations show

- **Read/test race.** The RDR read and the FE test are two accesses. A byte
  that completes between them can do two things:
  - pair a clean byte with an FE flag, so the clean byte is dropped;
  - get its own FE cleared by that drop, so on the next pass the errored
    byte is stored.

  Spec §9 asks for an atomic read-with-status for exactly this reason.
- **FE survives the start flush.** The start flush (lines 218-221) reads
  stale bytes but never clears FE. So an errored stale byte makes
  `middle_cutout` drop the first clean byte of window 1 and turn the
  receiver off.
- **No synthetic record.** The synthetic record is skipped silently when the
  pool is empty (lines 320 and 336). The spec assumes a reserved slot that
  nothing under `src/` provides.
- **The spec contradicts itself.** On an errored-only channel, §4.1 and
  Scenario B prescribe an empty committed record, which is what the code
  does. §8 bullet 1 forbids it.

### Mutants

Each property of a passing run is broken by a plausible bug in a mapped
definition:

| Mutant | Breaks |
|---|---|
| the channel loop's exit moved by one | `TypeOK` |
| the handle not cleared after commit | `OwnershipInv` |
| no flush in `start_cutout` | `NoStaleBytes`, `StaleIInv` |
| `have_packets` not set | `DeliveriesPerCutout`, `DeliveryInv` |
| `continue` instead of `break` on pool exhaustion | `PhaseCompletes` |
| commit without setting the interrupt pending | `RecordsConsumed` |
| the handle not cleared after `end_cutout`'s commit | `ImplementsLifecycle` |

## 4. Proofs

`RailcomDriverProofs` proves `THEOREM TypeCorrect == Spec => []TypeOK` for
every number of channels, pool, RDR depth and bounds. It uses only the
assumptions declared in `RailcomDriver`:

- `NumChannels` and `Depth` are positive;
- `Slots` is finite and does not contain `NoPacket`;
- the bounds are naturals.

`TypeOK` is not inductive. `MiddleStoreByte` appends to
`rec[returnedPackets[ci]]`, which is a record only because `DrainRead` never
reaches the FE test without a record in hand. The strengthening is therefore:

```
CheckHasRecord == pc \in {"m_check","e_check"} => returnedPackets[ci] \in Slots
```

The proof is split by what the provers can do:

- `TypeIInv == StateOK /\ CheckHasRecord`, with `StateOK` free of Boolean
  values, is proved one action per step by SMT, with `Byte` and `Record`
  kept opaque.
- The facts that need their definitions are lemmas proved by Zenon
  (`ByteLemma`, `AppendPayload`, `StorePayload`, `SyntheticRecordType`).
- `FlagsOK` covers the Boolean locals, the pending flag, UE and FE. It is
  proved by Zenon (`NextFlagsOK`).

### `OwnershipCorrect`

`THEOREM OwnershipCorrect == Spec => []OwnershipInv` is proved relative to
`TypeIInv`: `TypeIInv /\ OwnershipInv` is inductive.

- Allocation takes a slot of `FreeSlots`, which is neither held nor queued.
- `EndChannelDone` appends the held record to the queue and clears the
  handle in the same step. The lemmas `AppendRange` and `AppendInjective`
  state what `Append` adds to the queue's range and that it keeps the queue
  free of duplicates.
- `Consume` empties the queue.

### `NoStaleBytesCorrect`

`THEOREM NoStaleBytesCorrect == Spec => []NoStaleBytes` says that no live
record ever holds a byte from an earlier cutout. `NoStaleBytes` alone is far
from inductive: whether the next appended byte is current depends on RDR,
on `data` and on the handles. The proof uses `StaleIInv`, which is
`TypeIInv` and `OwnershipInv` together with:

- `PhaseWindow`: `middle_cutout` runs in window 2, and `end_cutout` runs
  after the window has closed.
- `HandlesClear`: no channel holds a record during `start_cutout`, between
  slots, or in window 1. During `end_cutout` the channels already committed
  hold none.
- `CurrentBytes`, made of four conjuncts:
  - a held record, and every byte in it, is of the current cutout
    (`HeldCurrent`);
  - `data` at the FE test is of the current cutout (`DataCurrent`);
  - every RDR that the current `start_cutout` has drained holds only
    current bytes (`RdrCurrent`);
  - every queued record holds only bytes of its own cutout
    (`QueuedOwnCut`).

`StaleIInv` was model-checked first (it is an invariant of run `railcom_safety`). It is then
proved in three lemmas, and `StaleIInvCorrect` states `Spec => []StaleIInv`:

- `NextControl` proves `PhaseWindow` and `HandlesClear`.
- `NextCurrentBytes` proves `CurrentBytes`, with one step per action.
  - `StartCutout` advances `cut` only when every handle is clear, and it
    marks every RDR undrained.
  - `DrainRead` takes `data` from a drained RDR.
  - The store steps append `data` to a record that no other channel holds
    and that is not queued (`HeldAlone`).
  - A commit moves a record whose bytes are current into the queue
    (`QueuedCommit`, `SyntheticCurrent`).
- `StaleIInvNoStale` concludes, using `PayloadCut`, which lifts the facts on
  the two payloads to their concatenation.

The byte facts are stated with `AllCut(q, c)`, meaning every byte of `q` is
of cutout `c`, rather than with `PayloadBytes`. This keeps the sequence
reasoning in small lemmas (`AllCutAppend`, `AllCutTail`, `AllCutConcat`).

### `DeliveriesCorrect` (`RailcomDeliveryProofs`)

`THEOREM DeliveriesCorrect == Spec => DeliveriesPerCutout` proves the action
property for every number of channels and every pool size. The step that
closes a slot compares `delivered` with `Cardinality(touched)`. That count is
built up over the whole of `end_cutout`'s channel loop, so it needs the
invariant `DeliveryInv`. It is stated with `Held`, the channels holding a
record, and `Committed == touched \ Held`:

- `Held \subseteq touched`;
- in `start_cutout` and in window 1, `touched = {}`;
- before `end_cutout`'s loop, within a slot, `touched = Held` and
  `delivered = 0`;
- in the loop and at its last step, `delivered = Cardinality(Committed)` and
  `have_packets` holds exactly when `Committed # {}`;
- in the loop, a channel that got a record holds it exactly when it is at or
  above the loop index.

`StaleIInv /\ DeliveryInv` is inductive (`NextDelivery`, with one step per
action). `HandlesClear` of `StaleIInv` gives `Held = {}` where it is needed.

- The commit of `EndChannelDone` adds `ci` to `Committed`, and `ci` was not
  in it. `FS_AddElement` then gives the count plus one. `Committed` is finite
  because it is a subset of `Channels` (`ChannelSetFinite`).
- `DrainRead` in `end_cutout` allocates only for a channel at the index that
  holds nothing. By the last conjunct, that channel is not in `touched` yet,
  so `Committed` is unchanged.

`CloseStep` concludes. The lemma `EndFinalCloses` shows that only `EndFinal`
goes from `e_final` to `idle`. There, `Held = {}`, so `Committed = touched`.
`SyntheticCount` gives the synthetic record's count.

`DeliveryInv` was model-checked on `railcom_safety` before it was proved.
`DeliveryInvCorrect` states `Spec => []DeliveryInv` itself.

### `BitRangeEventPCProofs`

`THEOREM SettledCorrect == ASSUME BlockFits PROVE Spec => []SettledHoldsPublished`
holds for every `Size`, `Base`, `EventWidth`, `SizeWidth` and bound that
satisfy `BitRangeConstants`, for every block that fits:

```
BlockFits == 2 * (Size - 1) < 2 ^ SizeWidth /\ Base + 2 * Size <= M
```

The hypothesis is needed. For a block whose events pass the top of the event
space, `Set`'s report wraps below `event_base_`, `HandleEventReport` ignores
it, and the bit never takes the value `Set` was called with. TLC shows this
with `Base = 29` in the 5-bit space. The property is not inductive: a queued report of a bit
lets `data` and `published` differ. The strengthening `PendingInv` adds:

- `IdleInv`: a bit with no report of it on the bus has `data = published`;
- `LastInv`: a bit with reports on the bus has `published` equal to the value
  of the last one.

Dispatch removes the head. If it was the last report of its bit, the
handler's decoding sets `data` to the published value. `Set` and foreign
reports append a report that becomes the last one of its bit. For `Set`,
`SetEncoding` shows that the event written means the bit and value `Set` was
called with; this is where `BlockFits` is used.

The arithmetic is pinned down by lemmas:

- `MeaningExact`: the decoding of an event is the pair
  `<<(e - Base) \div 2, (e - Base) % 2 = 0>>` inside the block, and nothing
  outside it;
- `PublishExact` and `HandleExact`: the history variable and
  `HandleEventReport` agree on that decoding;
- `PowPos`: `2^k > 0`, derived from `Cardinality(SUBSET (1..k)) = 2^k`,
  because the SMT backend treats `^` as uninterpreted.

`PendingInv` was model-checked before it was proved. It is not a property
of the run: besides `SettledHoldsPublished` itself it only says how the
history variable is built.

### `Esp32BootloaderProofs`

The proofs of section 5's properties hold for every `NumBlocks`, `MaxWrites`
and `MaxResets` (assumption `BootConstants`). None of the three properties is
inductive alone, so they are proved from one strengthening:

```
HandleInv == otaHandle \in openHandles => flash[Target] # <<>>
RtcInv    == request = RtcTrue => requested \/ rtcGarbage
BootIInv  == TypeOK /\ CompletionSelectsImage
             /\ PartitionsStartWithOwnHeader /\ HandleInv /\ RtcInv
```

- `HandleInv` is needed because `write_flash` at a non-zero address appends to
  the target. That keeps the header block first only if a session still open
  has already written block 0.
- `RtcInv` is needed because `esp32_bootloader_run` is entered whenever the
  flag reads `RTC_BOOL_TRUE`. The flag can only hold that value after the
  application's request or as untouched power-on garbage.

`NextBootIInv` has one lemma per group of actions:

- `RamResetIInv` and `RestartIInv` cover resets, which keep flash and lose
  the OTA handles;
- `WriteFlashIInv` covers `write_flash`, using `AppendHead`: appending keeps
  the first element;
- `FlashCompleteIInv` covers `flash_complete`;
- `StartupIInv` covers init, run, the request and TWAI init.

`BootIInvCorrect` is `Spec => []BootIInv`. `CompletionCorrect` and
`HeaderCorrect` follow from it. `OnlyOnRequestCorrect` proves the action
property `BootloaderOnlyOnRequest` from `RtcInv`, using the step lemma
`StartStep`.

### Refinement: `RailcomRefinement` implements `RecordLifecycle`

`RecordLifecycle` states what spec §3 ("Feedback Record") promises, with no
program points, hardware or cutout numbers. Its state is the owner handle
of each channel, the delivery queue and the contents of every record
(`key`, `w1`, `w2`). Its actions are:

- `Alloc(i, s)`: a free record becomes channel `i`'s, blank;
- `Append1` / `Append2`: a byte is appended to the held record;
- `Commit(i)`: the held record is queued and the handle cleared, in one step;
- `CommitEmpty(s)`: a free record, blank for channel 0, is queued;
- `Reclaim`: the consumer drains the queue and may reuse what it took.

The mapping is `owner <- returnedPackets`, `queue <- feedbackQueue`, and
`records <- RecordView`, the `chan`, `ch1` and `ch2` fields of `rec`.
`THEOREM ImplementsLifecycleCorrect == Spec => ImplementsLifecycle` and
`RefinementCorrect == Spec => Lifecycle!Spec` are proved step by step
(`RefinementStep`, one case per group of actions) from `StaleIInv`:

- the store steps are appends because `CheckHasRecord` gives a record in
  hand at the FE test;
- `start_cutout`'s handle clearing is a stutter because `HandlesClear` says
  every handle is already clear there;
- the synthetic record is `CommitEmpty` because the allocated slot is free
  (`FreeSame`: the driver's free set is the abstract one).

`ImplementsLifecycle` writes the abstract specification with the stutter
tested first (`[][UNCHANGED <<returnedPackets, feedbackQueue, rec>> \/
Lifecycle!Next]_...`). This is the same formula, since an unchanged `rec`
leaves `RecordView` unchanged; TLC evaluates it in half the time. It is a
property of run `railcom_liveness`.

### Refinement: `Esp32Refinement` implements `AbUpdate`

`AbUpdate` states the discipline that makes an A/B update safe against
crashes. Its state is the running partition, the one otadata selects, and
whether each partition holds a bootable image. Its actions are:

- `Write(p)`: only a partition neither running nor selected is written;
- `Select(p)`: only a bootable partition is selected;
- `Boot`: any reset runs the selected partition.

The mapping is `selected <- bootPart` and `bootable <- Bootable`, where
`Bootable[p]` is `Valid(flash[p])`. `BootImageValid == Valid(flash[bootPart])`
is the property a user cares about most: no crash leaves the chip
unbootable. It is not inductive with `BootIInv`: `write_flash` writes
`Other(running)`, which is harmless only if otadata selects the running
partition. The strengthening is

```
SelectedRunning == pc # "entry" => bootPart = running
ABIInv == BootIInv /\ SelectedRunning /\ BootImageValid
```

Only a successful `flash_complete` changes `bootPart`, and it moves to
`entry`. Every reset sets `running` to `bootPart`. `NextABStep` proves, one
lemma per group of actions, that a step keeps `SelectedRunning` and
`BootImageValid` and is an `AbUpdate` step or a stutter of the view:

- a reset is `Boot`;
- a write in a session is `Write(Target)`;
- a successful `flash_complete` is `Select(Target)`;
- everything else leaves the view alone.

`BootImageCorrect` (`Spec => []BootImageValid`) and
`ImplementsAbUpdateCorrect` (`Spec => ImplementsAbUpdate`) follow. `ABIInv`
was checked by TLC on the `boot_safety` instance before it was proved.

### Only model-checked

- the liveness properties, which TLAPS does not handle (fairness and
  `ENABLED`);
- `EncodeRangeCovers` (`EventRange`), and everything in `Crc` and
  `CdiLayout`. These are statements about what a loop or a recursive
  definition computes for every input (`EncodeLoop`'s pass function, the CRC
  bit loop over `Bitwise`, the tree sums of the CDI reference). Proving them
  needs induction over the data, which the installed provers cannot do.
  TLC checks them exhaustively over bounded inputs instead.


## 5. The ESP32 bootloader HAL (`Esp32Bootloader`)

Source: `src/src/freertos_drivers/esp32/Esp32BootloaderHal.hxx` and the
contract in `src/include/freertos/bootloader_hal.h`. The application calls
`esp32_bootloader_init(reset_reason)` early on, then tests the flag
`bootloader_request`, which lives in RTC memory and survives every reset
except power-on. When the flag is set, `esp32_bootloader_run` clears it and
enters the generic bootloader. That bootloader is not in this tree, and the
model plays its part. It calls:

- `write_flash` for each block the host sends;
- `flash_complete` when the host is done;
- `application_entry`, which restarts the chip.

`write_flash` checks the header at address 0 (image magic, chip id, app
description) and begins an OTA session on the partition it is not running
from. Every call then appends through `esp_ota_write`. `flash_complete` calls
`esp_ota_end`, which verifies the image, and then
`esp_ota_set_boot_partition`.

State:

- the flag, with two history variables: `requested` (the application asked)
  and `rtcGarbage` (the flag still holds power-on contents);
- the reset reason and a program counter over the boot;
- the HAL's OTA handle and TWAI flag;
- ESP-IDF's open handles and last handle;
- the running and the selected partition;
- each partition's contents as a sequence of blocks.

A firmware image is `NumBlocks` blocks of one of four files:

- `old`, the running firmware;
- `good`, a new image for this chip;
- `foreign`, an image for another chip;
- `corrupt`, an image with a bad magic.

Actions:

- `EnvReset(k)`: power-on, software or panic reset at any point. Power-on
  makes the flag arbitrary.
- `BootloaderInit`, `AppRequest`, `Run`, `HwInit`.
- `WriteFlash(a, f)`. A rejected header restarts the chip, and so does a
  handle value of 0. An unknown handle makes `ESP_ERROR_CHECK` abort.
- `FlashComplete`, where `esp_ota_set_boot_partition` may fail.
- `ApplicationEntry`.

| Run | cfg | Expect | Checks |
|---|---|---|---|
| `boot_safety` | `MC_Esp32Bootloader.cfg` | pass | `CompletionSelectsImage` (a successful `flash_complete` leaves otadata selecting a verified image of this chip); `PartitionsStartWithOwnHeader` (every partition with data starts with a header block for this chip); `BootImageValid` (otadata always selects a complete image for this chip, whatever crashes); `BootloaderOnlyOnRequest` (the bootloader runs only on a request or on power-on garbage); `ImplementsAbUpdate` (the system follows the A/B update discipline, section 4) |
| `boot_rtc_garbage` | `MC_Esp32Bootloader_Garbage.cfg` | violation | `NoSpuriousBootloader`: the header comment says the power-on check suffices for the bootloader never to run without a request |

Bounds: `NumBlocks = 2`, `MaxWrites = 4`, `MaxResets = 3`, which gives 13,546
states. Two blocks separate "block 0 first" from "complete". Four writes
cover two things:

- a second header in the middle of an upload;
- a restart of the upload after a rejected one.

Three resets reach the garbage case: a power-on, then a panic before the
application's init.

Deadlock is not checked because a boot may end with the application
running. No fairness is assumed; the properties are safety properties.

**Finding.** `esp32_bootloader_init` clears the flag only when the reset
reason is `POWERON_RESET`. A panic or brownout reset after power-on, but
before the application reaches init, keeps the garbage under another reason.
If the garbage reads `RTC_BOOL_TRUE`, the bootloader runs without a request.

**Remarks.**

- `bootloader_hal.h` (lines 150-157) says `write_flash` writes at the given
  address. The ESP32 HAL appends at the session's offset whatever the
  address. The model follows the code: a host that resends a block duplicates
  it in flash, and `esp_ota_end` then rejects the image.
- The `memset` in `esp32_bootloader_run` (line 488) takes
  `sizeof(Esp32BootloaderVars)`, but the type declared in the file is
  `Esp32BootloaderState` (line 89), so the file does not compile as written.
  The model takes the intended zeroing of the whole state.
- The mutants are:
  - `esp_ota_set_boot_partition`'s result not kept (`CompletionSelectsImage`);
  - only the image magic tested (`PartitionsStartWithOwnHeader`);
  - the flag not cleared by `run` (`BootloaderOnlyOnRequest`);
  - the running partition taken as the update target (`BootImageValid`,
    `ImplementsAbUpdate`).

## 6. `EncodeRange` (`EventRange`)

Source: `EventHandlerTemplates.cxx` lines 149-165. `EncodeRange` computes the
range identifier that `BitRangeEventPC` announces for its `2 * size` events.
An OpenLCB range identifier stands for the events that agree with it above
its trailing run of equal bits. `EncodeLoop` is the loop, with every addition
and the shift wrapping. Pass `i`'s value of `begin` is a recursive function
`b[i]`, and the bit operations are arithmetic (`BitSet`, `ClearBit`,
`FillBelow`). The module therefore reaches neither `RECURSIVE` nor
`Bitwise`, and `BitRangeEventPCProofs`, which reaches it through
`BitRangeEventPC`, can be checked by TLAPS:

- the 64-bit event space is scaled to `EventWidth` bits;
- `unsigned` is scaled to `SizeWidth` bits.

The reference `RangeEvents(r)` is the protocol's definition of a range.
`Block(b, n)` is the handler's events. The state is just the handler's
`(eventBase, bitCount)`, and every step picks another, so a run visits every
input.

| Run | cfg | Expect | Checks |
|---|---|---|---|
| `event_range` | `MC_EventRange.cfg` | pass | `EncodeRangeCovers`: for every block below the middle of the event space the range covers the block |
| `event_range_top` | `MC_EventRange_Top.cfg` | violation | `EncodeRangeCoversAll`: the same for every block, as the comment at line 150 says |

Bounds: `EventWidth = 6`, `SizeWidth = 5`, `MaxSize = 8`. That is all 64
bases against 8 sizes, exhaustively. The lower half of the scaled space
stands for event IDs below 2^63, i.e. node IDs below 80.00.00.00.00.00.

**Finding.** When `begin + 2 * size` reaches the top bit, the loop clears that
bit. The shift then overflows to 0, and `begin + 0 <= end` holds forever, so
`HandleIdentifyGlobal` hangs. A block that wraps past 2^64 gets a range that
misses its events.

**Remark.** Below the top the range is correct, but it may announce up to
twice the block. That is allowed, since a range may over-claim.

**Mutant.** The factor 2 is dropped from `end`.

## 7. `BitRangeEventPC` (`BitRangeEventPC`)

Source: `EventHandlerTemplates.cxx` lines 39-182. A block of `Size` bits, each
produced and consumed as two events: `base + 2*bit` (on) and
`base + 2*bit + 1` (off). `Set` does not change the bit; it reports the change
on the bus. The bit changes when the report comes back through the node's
dispatcher, as every report of another node does.

The bus is one FIFO of the messages the dispatcher hands to the handler:

- the node's own reports;
- the reports of other nodes;
- identify requests.

`Dispatch` is the handler's switch over the message kinds:

- `HandleEventReport`;
- `HandleIdentifyBase` for producer and consumer;
- `HandleIdentifyGlobal`, which reuses `EncodeRange` through an
  `INSTANCE EventRange`. Its guard excludes the inputs on which the loop
  never returns (section 6): there the handler does not finish, and the
  dispatcher is stuck on the request.

The word/mask addressing of `GetBitAndMask` is abstracted to a bit index. The
`bit * 2` product keeps its `unsigned` width (`SizeWidth`). The history
variable `published` is the value of each bit last reported on the bus: for
the node's own reports, the value the caller passed to `Set`; for another
node's report, the value its event means under the protocol. So
`SettledHoldsPublished` checks `Set`'s encoding as well as the decoding of
`HandleEventReport`.

| Run | cfg | Expect | Checks |
|---|---|---|---|
| `bitrange_settled` | `MC_BitRangeEventPC.cfg` | pass | `SettledHoldsPublished`: once no report of a bit is waiting, the node holds the value of the last report of it: the value passed to the last `Set` that wrote one, or the value another node's event means |

Bounds:

- `Size = 2`, `Base = 4`, `EventWidth = 5`, `SizeWidth = 3`. The block
  ends at 8, below the middle (16) of the scaled space, where `EncodeRange`
  returns, as for every node ID below 80.00.00.00.00.00. With
  `EventWidth = 4`, 8 would be the middle, and a global identify would hang;
- other nodes' events `{3, 5, 7, 8}`: below the block, in it, and its last
  and first-past event;
- `MaxSets = 3`, `MaxForeign = 2`, `MaxBus = 3`.

This gives 64,736 states, with own and foreign reports interleaved on the
bus. Deadlock is not checked: once the call bounds are used up and the bus
drains, nothing is left to do.

**Remark (hazard, not a finding).** `Set` compares with `data`, which changes
only when the report comes back. Two `Set` calls before the echo can
therefore both see the old value. A `Set` back to the old value after a
change that is still in flight then reports nothing. That is a lost update
if the first report is lost, and the property assumes the bus delivers.

**Mutant.** The new value is decoded inverted. This breaks `SettledHoldsPublished`; so does a `Set` that swaps the on and off events.

## 8. CRC (`Crc`)

Source: `utils/Crc.cxx` lines 39-126.

- `Crc16IbmAdd` is the bit loop of `crc_16_ibm_add`, with reflected
  polynomial `0xA001` and `^^` from `Bitwise`.
- `Crc16Ibm` folds it over a byte sequence (`FoldLeft`).
- `Crc3Crc16Ibm` is the three-CRC split: the whole buffer, the odd-indexed
  and the even-indexed bytes.

The reference `ArcReference` is the textbook definition, independent of the
code. It is polynomial division over GF(2) by `x^16+x^15+x^2+1` on
bit-reflected input, read back reflected. The `ASSUME ReferenceCheckValue`
makes TLC confirm that it gives the catalogue check value `0xBB3D` for
`"123456789"`.

The state is the buffer under test, and every step picks another.

| Run | cfg | Expect | Checks |
|---|---|---|---|
| `crc` | `MC_Crc.cfg` | pass | `Crc16IbmIsArc` (the code's CRC is CRC-16/ARC); `Crc3Split` (the three CRCs are those of the whole buffer and of its 1-based odd and even positions, as the header says) |

Bounds: bytes `{0, 1, 49, 128, 255}` (zero, the low and the high bit, an
ASCII digit, all ones), in buffers of length up to 3. That is 156 buffers.
Length 3 already gives the odd and the even halves different lengths.

**Mutants.**

- the non-reflected polynomial `0x8005`;
- the odd and even halves counted from index 0.

## 9. CDI layout (`CdiLayout`)

Source: `openlcb/CDIUtils.hxx` lines 114-359.

`layout_segment` walks the XML tree of one segment without recursion. It
keeps the current parent and child and the `NodeInfo` of the parent, and
writes the offset and size of every data element. The walk has three steps,
which are the model's actions:

- `LayoutStart`: the segment's origin;
- `Visit`: the loop body;
- `MoveNext`: the move to the next child, which climbs out of finished
  groups and multiplies their size by their replication on the way.

`CDINodeRep` then computes absolute addresses from the offsets
(`SegmentRep`, `GetChildAddress`, `GroupRep`, `ReplicaRep`), and
`CodeAddress` composes them along a path.

Every document of `K` elements below the segment is an initial state:

- elements numbered in document order;
- only groups hold elements;
- elements are `name`, `eventid`, `int` (offset attribute absent or 1, size
  absent or 2) and `group` (offset absent or 1, replication absent or 2).

The reference `RefSize`, `RefOffset` and `RefAddress` is the recursive layout
the `NodeInfo` comment describes.

| Run | cfg | Expect | Checks |
|---|---|---|---|
| `cdi_layout` | `MC_CdiLayout.cfg` | pass | `LayoutMatchesReference` (when the walk ends, every data element's offset and size, and the segment's size, are those of the recursive layout, and name elements get none); `AddressesMatchReference` (in every replica of every repeated group, every data element's address is the reference address) |

Bounds: `K = 4` and `Origin = 5`, which gives 442,400 states. Four elements
give nested groups, a group after a group, a repeated group inside a repeated
group, and empty groups. Deadlock is not checked: `layout_segment` returns.

**Mutants.**

- the replication factor left out when climbing out of a group;
- the replica stride taken as the whole repeated size.

## 10. Remaining work

1. **`CutoutDelivery`, a per-slot abstract specification of the RailCom
   driver.** `RecordLifecycle` covers the life of each record. A second
   abstraction could say how many records each slot adds to the queue. That
   is what `DeliveriesPerCutout` states today as an action property.
2. **Per-channel `enable`/`disable`.** Splitting the thread-side loops into
   one step per channel would let the timer ISR preempt them. That would
   reopen the `RailcomDriverProofs` invariants.

## 11. Not modelled

- **RailCom:**
  - debug pin toggles, logging and the register-level UART initialisation
    (baud rate, word length), which are layout and I/O;
  - the occupancy sample value (`HW::sample()`, `add_sample`); only its
    effect on the measurement mode is modelled.
- **Bootloader:**
  - the TWAI frame copies (`read_can_frame`, `try_send_can_frame`), which are
    data conversion;
  - `get_flash_boundaries` and `get_flash_page_info`, which return constants
    from the partition table;
  - the exit path after `bootloader_entry`, which is not reached, since
    `application_entry` restarts the chip.
- **CDI:** the XML parsing and the name lookups of `CDIUtils`
  (`find_child_or_null`, `find_node`, the string helpers). They are string
  handling; the layout reads only the tags and the numeric attributes.
- **WS2812 GPIO** (`Esp32WS2812.hxx`). The header only declares the colour
  buffer's accessors. Their bodies, and the RMT update thread they race with,
  are in a `.cpp` that is not in this tree.
- **The SNIP handler** (`SimpleNodeInfo.hxx`). It has no state of its own: it
  allocates a response buffer and sends. Its behaviour is the StateFlow
  framework's, which is outside `src/`.

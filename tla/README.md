# A verification of the XR806 SDK

The repository is the SDK of the XR806, a Wi-Fi and BLE microcontroller, on its
way from FreeRTOS to RT-Thread.  Most of its files are vendored (RT-Thread,
FreeRTOS, lwIP, mbed TLS, the Zephyr BLE host, FatFs, littlefs, cJSON, ...) or
register access.  What is its own and has state worth a proof is small: flash
records that survive a power failure, over-the-air update and the bootloader,
wakelocks, the PM thread and the suspend core, the event system of the
applications, the work queue under the BLE host, and the OS layer below all of
these.  This directory models that core in TLA+, checks it
with TLC and proves parts of it with TLAPS.

Paths below are relative to `src/`; `rom/` is `src/rom/rom_bin/src/`, `fw/` is
`project/common/framework/`.

## 1. Inventory

| Component | State it keeps | Operations | Talks to |
| --- | --- | --- | --- |
| **FDCM**, `rom/image/fdcm.c`: one small record in a flash area | in flash: header, bitmap of used slots, slots; in RAM only the handle | `fdcm_open`, `_read`, `_write` (append or rewrite), `_erase` | flash; used by the image configuration and sysinfo |
| **Flash**, `rom/image/flash.c` | the chip | `flash_rw`, `flash_erase` (a range split into 4K, 32K and 64K blocks) | HAL |
| **Wakelocks**, `src/pm/wakelock.c`, `rom/pm/wakelock.c` | list of locks, each with `ref` and `expires`; `_wl_null`, `_wl_touch`, one timer, a semaphore | `pm_wake_lock`, `_lock_timeout`, `_unlock`, the timer's callback, `_wait`, `_touch` | every driver and application; the PM thread |
| **PM thread**, `src/pm/pm.c` | `_pm_state`, `_pm_tmo`, `_pm_step`, the semaphore `wait` and `wake_ret` | `pm_task`, `pm_enter_mode(_timeout)`, `pm_suspend_abort`, `pm_start`, `pm_stop` | wakelocks, the suspend core |
| **Suspend core**, `rom/pm/pm.c` | four lists of devices | `dpm_suspend*`, `dpm_resume*`, `suspend_enter`, `check_wakeup_irqs` | drivers |
| **Image**, `rom/image/image.c` | the configuration (an FDCM record: which image, verified or not), `running_seq` | `image_init`, `_get_cfg`, `_set_cfg`, the section checks | FDCM, flash |
| **OTA**, `src/ota/ota.c` | sizes and verification state of the stream in RAM, an image area in flash | `ota_get_image`, `ota_push_*`, `ota_verify_image`, `ota_reboot` | image, flash; HTTP and file clients deliver the stream |
| **Bootloader**, `project/bootloader/main.c` | `cfg_seq`, `load_seq`; both image areas and the configuration | `bl_load_bin`, `bl_uncompress_image`, `bl_xz_image` | image, flash |
| **System events**, `fw/sys_ctrl/` | publisher with its list of observers and its state; a bounded queue | attach, touch, detach, notify; send, send-and-wait; the looper thread | network, file system, audio and Bluetooth control |
| **BLE porting layer**, `src/ble/porting/` | works with their pending bits, a queue, delayed works with timers, a poller | `k_work_submit`, `k_delayed_work_submit`, `_cancel`, `k_queue_*`, `k_poll`; the work queue's thread | the vendored BLE host |
| **OS layer**, `src/kernel/os/RT-Thread/` | handles over RT-Thread's objects | semaphores, mutexes, queues, timers, threads | everything above |
| **sysinfo**, `fw/sysinfo.c` | a RAM copy of one record | init, save, load | FDCM; console and AT threads |

How they fit together.  An application is told of events by the looper thread;
it asks for low power with `pm_enter_mode`, which releases the PM thread's own
wakelock and waits; the PM thread waits until no wakelock is left, suspends
devices and puts the processor to sleep, and answers.  An update writes the
image area the application does not run from, checks it, and has the image
configuration name it; the bootloader reads that configuration after the
reset.  The configuration itself is one FDCM record, so the update is as safe
as FDCM is against power failures.

What is hard here, and what makes each part correct:

* **FDCM**: power may go at every flash operation, flash bits can only be
  cleared, record sizes change with the firmware.  A record whose write
  returned is read until the next write; nothing that nobody wrote is read;
  no byte outside the area is touched.
* **Wakelocks**: each call is a critical section, then an update whose parts
  run with interrupts on; the timer's callback and the tick interrupt come in
  anywhere.  While a lock is held or its timeout runs, the system stays awake;
  when none is, it may sleep.
* **PM thread**: its callers and `pm_suspend_abort` share four variables with
  it without a lock.  The system sleeps only inside a call and with no lock
  held; every call gets its own answer, and gets one.
* **OTA and boot**: an update is thousands of flash operations, unpacking
  erases the only runnable application.  The area an application runs from is
  never erased by it; the configuration never names an image that is not
  whole; something always boots; a committed update is booted.
* **System events**: the publisher's list changes under the notification that
  walks it; a call that waits for an event can only be served by the looper.
  Every event sent reaches every observer attached, once.
* **Suspend core**: any callback may fail, a reason to wake may come at any
  point, and drivers come and go meanwhile.  The mode is entered with every
  device down, and every way back resumes every device, in the reverse order.
* **OTA stream, flash split**: unsigned arithmetic on sizes and on chunks of
  any length, over five pieces of three block sizes.  Every byte comes to its
  place, none outside the area is touched.
* **BLE work queue**: submissions, cancellations, timers in the tick interrupt
  and the thread that polls meet in one queue.  No work is lost, none runs that
  was cancelled, the thread does not sleep on a work.

`PROJECT.json` lists the places where each of these bites (`hazards`), with the
properties that cover it or the module planned for it.

## 2. Modules

    RecordStore  <--implements--  Fdcm      <-- FdcmProofs, MCFdcm
    Wakelock     <-- MCWakelock, MCWakelockEarly.cfg
       ^-- PmThread  <-- PmThreadProofs (of Wakelock, too), MCPmThread
    SleepCall    <--implements--  Suspend   <-- SuspendProofs, MCSuspend
                                               (PmThread has it as one step)
    AtomicUpdate <--implements--  OtaBoot   <-- OtaBootProofs, MCOtaBoot
                                               (its configuration behaves as
                                                RecordStore)
    FlashErase
       ^-- OtaPush   <-- OtaPushProofs, MCOtaPush
    SysCtrl      <-- SysCtrlProofs, MCSysCtrl
    BleWork      <-- BleWorkProofs, MCBleWork
    Lists        (list_del; used by Suspend and SysCtrl)
       ^-- ListLemmas  (used by SuspendProofs, SysCtrlProofs, BleWorkProofs)

### Fdcm, RecordStore

`Fdcm` is one FDCM area.  `hdr`, `bitmap` and `slots` are the flash: `bitmap`
is the set of bits *cleared*, `slots` one cell per record.  `pc` and `req` are
the call in progress, `ret` what the last one returned.  A write decides once,
from header and bitmap, whether it appends, starts the area again or is
refused (`WriteAppend`, `WriteRewrite`, `WriteRefused`), and then does one
flash operation per step: `Erase`, `ProgramHeader`, `ProgramBit`,
`ProgramData`.  `CutErase`, `CutHeader`, `CutBit` and `CutData` end the call in
the middle of one, with anything in flash the operation can have reached: a
header field not fully programmed reads at least its value, an erase has done
blocks from both ends inwards, a data cell is torn.  A power failure and a
flash error are the same action because FDCM keeps nothing in RAM between
calls.  `BitmapSize`, `BitCount`, `SlotOffset` are the code's arithmetic, the
16-bit wrap and the clamp included; `BitCount` is stated as what
`fdcm_bit_count` finds (full bytes, then the highest used bit of one byte)
and not as a cardinality, which it equals only while the used bits are a
prefix.

`RecordStore` is what users rely on: a register.  A completed write replaces
the record; a cut one leaves the old record, the new one, or nothing usable,
and *for no record size a value nobody wrote*, garbage being marked as such.
`ImplementsStore` maps `Fdcm` to it by what a read of each record size would
return.

### Wakelock

`Locks` with `ref` and `expires`, the set `listed`, `_wl_null`, the one timer
and the lock it is armed for (`arg`, `argTick`).  Each thread's call is a
critical section (`Lock`, `LockTimeout`, `Unlock`, `Cancel`), then
`_wakelock_update` in three steps, `ReadTicks`, the walk of the list
(`UpdateHeld`, `UpdateNone`, `UpdatePending`) and `ArmTimer`, because
interrupts are enabled between them.  `TimerExpires` and `TimerCallback` are
two steps: the timer task may run its callback late.  `locking` and `owed` are
history variables: who is inside `pm_wake_lock`, and until when the last
timeout was promised.  The timer is the one-shot timer `os_timer.h` documents,
where changing the period starts it; that the RT-Thread layer does not do so
is a hazard of that layer.

### PmThread

Extends `Wakelock`.  `pm_task` (`PmCall` ... `PmHold`), a caller
(`EnterMode` ... `LeaveMode`) and `pm_suspend_abort` (`Abort`), one access to a
shared variable per step.  Device suspend and the processor's sleep are one
step, `PmSuspend`, that sleeps if the check with interrupts off still finds no
wakelock and no touch, fails, or starts again because of an event of the WLAN
or BLE core.  While the system sleeps only `PmWake` is possible.  Locks other
than the PM thread's are taken and released by further threads throughout.

### OtaBoot

Two image areas (`img`: of which download, and how much of it is there), the
configuration `cfg`, and what the processor executes (`mode`): the bootloader,
then the application.  `Reset` is possible in every mode and is at once
`ota_reboot`, a power failure and a power cycle.  `policy` is the build's OTA
policy; under `xz` area 1 holds a compressed image, which `ReadCfg` sends to
`UnpackErase`, `Decompress` and `UnpackedCfg`.  Flash errors that do not end
the program are actions enabled by the constant `Faults` and recorded in
`faults`, so that a property can say which errors it excludes.  Setting the
configuration passes through a state in which none can be read (`CfgSpoilt`):
an FDCM write may rewrite the area, and `RecordStore` allows no more than
that.  `"boot"` stands for the bootloader's flash and memory, `"appread"` and
`"cfgwrite"` for the application's reads and any write of the configuration,
`"stream"` for an image that passed its check and does not unpack, `"again"` for
a second update.  The loop that unpacks ends in the same way at its end
(`DecompressDone`) and at an error (`DecompressBreaks`): by a second check of the
compressed image in area 1 (`CheckedAgain`), after which the configuration names
area 0, which nothing has checked.

`AtomicUpdate` is what all of this is for: a device whose next version changes
in one step, by a running application that downloaded it, while power may go
at any time.  `ImplementsUpdate` maps `OtaBoot` to it: the version the next boot
starts is that of the area the configuration names (of area 0 when none can be
read), and that area must be whole.  So the erases, the unpacking and every cut
in it are stutters, and the one write of the configuration is `Switch`.  After
a flash error, a second update before the reset, or an image that was checked
and does not unpack, nothing more is promised (`Break`).

### Suspend

The four lists of `rom/pm/pm.c`, from head to tail, and
`suspend_devices_and_enter` with one step per callback: `SuspendDevice` and
`Suspended` call and return from a device's `suspend`, `NoirqSuspended`,
`NoirqFails` and `NoirqUnmasks` are the outcomes of a `suspend_noirq`.  After the
last of them, where it returned 0 with interrupts enabled, the device is
suspended but stays in the list of devices to suspend; `left` is the set of
those.  Every
check of `check_wakeup_irqs` (`DisableIrqs`, `NoirqSuspended`, `Enter`) reads
`pending`, which `Arrives` sets at any time; with it, a hibernation reboots
(`Reboot`).  `Register`, `RegisterNoirq` and `Unregister` come from other
threads while the scheduler runs; `pm_register_ops` links a device into its two
lists with interrupts enabled in between (`half`).  `down` and `downNoirq` are
history: the devices that are down, the last one first.

`SleepCall` is what `pm_task` relies on: within a call devices go down and up
one at a time, the system sleeps with all registered devices down, interrupts
masked and the threads stopped, no driver comes or goes meanwhile, and the call
returns with every device up but one that went down and unmasked interrupts
(`left`), which the next call takes down once more, and up again if the same
does not happen twice.  `ImplementsSleepCall` maps `Suspend` to it; a
device is `"part"` down while one of its two callbacks has brought it down.  A
registration that came after its phase, or a callback that unmasked interrupts,
is recorded (`Missed`), and is all that excuses a sleep with a device up.

### FlashErase, OtaPush

`FlashErase` has `rom_flash_erase` as six cuts of a range (`Cuts`) and the five
pieces between them in the order they are erased, and `HAL_Flash_Erase` block
by block, with the three attempts that all blocks of a piece share.  `OtaPush`
extends it by the two ways an image is streamed: `ota_push_*` (`Push...`) and
`ota_get_image` (`Get...`), each with its own arithmetic.  A byte of flash
holds the number of the stream's byte written there, so that a property can
say which byte is where.  `Reset` at any point, updates one after another,
`ota_set_skip_size` in between.

### SysCtrl

The list of observers with their states (`publisher.c`), the bounded queue
(`event_queue.c`), the looper thread with the notification as two walks of the
list step by step (`looper.c`): one that triggers, and the sweep that unlinks
what was marked meanwhile (`Keep`, `Unlink`), each node by `list_del`.  Beside it
are threads that send, attach and detach.  A
handler or trigger that runs in the looper may do all that, too, and may call
the network task and wait for it (`NetCall`), which itself sends events
(`net_ctrl.c`).  `asked`, `due`, `told` and `odd` are history: what was asked
for each observer, who is still to be told, who has been, and the set of the
observers for which one of the two odd calls of section 5 was made, until they
are linked anew or detached.

### BleWork

The queue `data_q` with the pointers its nodes keep after they left it
(`after`), the pending bits, the delayed works and their timers, and the
work queue's thread in `k_queue_get` and `k_poll`.  What runs between
`irq_lock` and `irq_unlock` is one step; `k_work_submit` is three, because
`k_queue_append` reads the queue's tail before it takes the lock, and
`k_delayed_work_cancel` is two (`CancelTest`, then `Cancel` or `CancelFails`),
because it tests `work_q` before it does.  `AddTimeout` may fail to create or
start the timer, which the caller is not told; `unarmed` is history and holds
the works to which that happened.

## 3. Runs

| Run | Shows | Bounds |
| --- | --- | --- |
| `fdcm` | type, `CommittedReadable`, `FreeSlotsErased`, `BitmapIsPrefix`, `WritesStayInArea`, refinement of `RecordStore` | 9-byte area, 2-byte header, 2-bit bytes, record sizes 1, 2, 4, 7, two values |
| `wakelock` | type, `HeldKeepsAwake` | 2 locks, 2 threads, holds up to 2, timeout 1, 3 ticks |
| `wakelock_early` | **violated** `TimeoutKeepsAwake` | 2 locks, 2 threads, timeouts 1 and 2 |
| `pm_enter` | `AnswerIsOwn`, `EnterReturns` | calls without a timeout, no aborts, one other thread and lock |
| `pm_abort` | `AsleepUnheld`, `AsleepInCall` | calls with and without a timeout, aborts at any time |
| `pm_timeout` | **violated** `EnterReturns` | calls with a timeout, no aborts |
| `suspend` | `AsleepAllDown`, `UpWhenBack`, `ListsRestored`, `ResumeReverses`, refinement of `SleepCall`, `CallEnds` | 2 devices, 4 registrations, a sleep and a hibernation, all test levels |
| `ota_boot` | `RunningKept`, `VerifiedIsWhole`, `AlwaysBoots`, `NoDowngrade`, refinement of `AtomicUpdate`, `UpdateTakesHold` | 3 downloads, both policies, all flash errors, images that do not unpack, updates again before the reset |
| `ota_push` | `OutsideKept`, `EraseComplete`, `EveryByteInPlace`, `EraseEnds` | 18 bytes of flash, blocks of 2, 4 and 8, three sets of them, every aligned area and one that is not, skips of 0, 1 and 3, chunks of up to 3 |
| `sys_ctrl` | type, `ObservesAsAsked`, `EveryObserverTold`, `FreeUnlinked`, `FinishHasWaiter`, `NoneToldUnasked`, `SentIsServed` | 2 observers, 2 events, one thread beside the network task and the looper, a queue of 1, 3 events sent |
| `ble_work` | type, `PendingIsQueued`, `WaitsOnEmpty`, `RunsOnlyOwed`, `WorkIsDone` | a delayed work and two others, 2 threads and the handlers, 5 submissions, timers that cannot be started |
| `ble_lost` | **violated** `NoneLost` | the same |

Why the bounds are enough.  *Fdcm*: 1-byte records run out of bits (the clamp
leaves 4 for 5 slots), 2-byte records out of room, a 4-byte record is longer
than what lies before the first slot, a 7-byte record fits no area; a bitmap
has more than one byte.  The theorems then hold for every geometry.
*Wakelock*: every race found needs two locks, or two events of one thread and
the timer; a tick count of 3 lets two timeouts follow each other, and `MaxRef`
of 2 makes a release that is not the last one.  `HeldKeepsAwake` is proved for
all of them.  *PmThread*: `MaxDone` bounds the answers left over when a call
or an abort begins (one suffices for a call to take a wrong answer); there are
no timed locks, which `Wakelock` has.  `pm_abort` has `MaxRef` 1, as nested
holds change nothing for the PM thread.  *Suspend*: an order needs two devices;
two more registrations put each back after it came and went, one of them left
suspended meanwhile.  *OtaBoot*: three
downloads are two updates in a row and one more to be cut, so each area is
overwritten while the other holds the newest image; an image has three amounts
of presence because the code has two checks, of the application section alone
and of all sections.  *OtaPush*: areas of up to nine blocks at every alignment
have every combination of empty and non-empty pieces; a chunk of 3 straddles
skips of 1 and is within one of 3; the theorems then hold for all sizes.
*SysCtrl*: a queue of one is full as soon as anything is sent, which is when
threads wait; one observer of one event and one of all is told and passed over
in every order.  *BleWork*: losing a work takes two threads that submit and a
work behind; the delayed one meets them at its timer and its cancellation.

Deadlock is checked in every run but `sys_ctrl`, `ble_work` and `ble_lost`: in
those, when the events or submissions of the bound are used up, everything
waits as it should, and in `sys_ctrl` a looper that waits for itself (`Jam`)
stops.  The other programs may not stop, a power cycle or another call is
always possible.

Definitions whose comment begins with "Mutated:" are not part of a model.  Each
is a plausible mistake in the definition after it (a check dropped, a step in
the wrong order); put in its place it makes the property `PROJECT.json` pairs it
with fail, which shows that the property depends on that part of the code.

To repeat a run: `tlc -config MCFdcm.cfg MCFdcm`; to repeat the proofs:
`tlapm FdcmProofs.tla`, and so for the other modules whose names end in
`Proofs`.

## 4. Fairness

* `PmFairness`: weak fairness for the PM thread and the caller inside a call,
  which RT-Thread's priorities give as long as higher priorities block, and
  for the wake-up.  Strong fairness for an attempt to sleep to end with an
  event for the application, or a failure: otherwise an application may sleep
  for ever, which is no fault.  `EnterReturns` also assumes, as its premise,
  that in the end nobody holds another wakelock.
* `Fairness` of `Suspend`: the PM thread is scheduled (callbacks return), and a
  reason to wake that is there again and again ends the sleep.  `CallEnds` has
  as its premise that reasons to wake keep coming.  Nothing is assumed of
  drivers.
* `Fairness` of `OtaBoot`: strong fairness for each step of a boot, because a
  power failure may come at each: sooner or later power lasts.  Nothing is
  assumed of updates.
* `Fairness` of `OtaPush`: weak fairness for an erase that was begun.  Nothing
  is assumed of the client that delivers the stream.
* `Fairness` of `SysCtrl`: the looper is scheduled, handlers and triggers
  return however often they call something first (strong fairness), a thread
  that waits for room gets it when there is room again and again, because the
  queue wakes its senders in the order they came, and a finite wait ends.
* `Fairness` of `BleWork`: the threads are scheduled, handlers return, timers
  that run expire.

## 5. What the runs found

* A late timer callback drops a wakelock that was just extended
  (`wakelock_early`).
* After a call of `pm_enter_mode_timeout` that timed out, `pm_task` may post a
  second answer, and the next call with a timeout waits for the PM thread,
  which waits for it (`pm_timeout`).  It comes from `_pm_step` being written by
  two threads.
* `k_queue_append` reads the tail too early: a work submitted by a thread that
  is preempted there may be linked behind one that has left the queue, and is
  lost (`ble_lost`).

`PROJECT.json` gives each with its line and the sentence of the repository it
contradicts.  Other cases met while modelling are stated as exceptions in the
properties that would otherwise fail, each by a history variable or a fault
that names it:

* a block of flash that was tried three times is skipped, and the erase reports
  what the next block returned (`givenUp`);
* a noirq callback that returns 0 and leaves interrupts enabled ends the loop
  before `list_move` (`rom/pm/pm.c:281-287`) with an error of 0: the mode is
  entered with devices up (`"unmasked"`), and the device itself is suspended, but
  not among those `dpm_resume_noirq` resumes.  The call returns with it down
  (`left`), which `UpWhenBack` and `SleepCall` except by name;
* a noirq callback that fails makes `suspend_enter` return `wakeup`, which is 0;
* an observer that is not attached is detached in a trigger and can then be
  attached without being linked, and one that detaches itself in its own trigger
  and touches itself again there is detached at its end.  `odd` holds such an
  observer; the properties except it and no other, and not even it is told twice
  in one notification;
* the looper waits for room in its own queue, for a message only it can handle,
  or for a network task that waits for room (`Jam`);
* a second update before the reset erases the image the configuration names
  (`"again"`), and flash errors make the application update the area it runs
  from (`"appread"`, `"cfgwrite"`);
* an error of the flash or the decoder while an image is unpacked breaks out of
  the loop (`project/bootloader/main.c:386-431`) into a check of area 1, the
  source (436), which passes, and the configuration is set to area 0, which is
  not whole.  From then on nothing unpacks area 1 again, and the bootloader
  stays in its upgrade mode (`"stream"`, for a decoder error with flash that
  works);
* `z_add_timeout` only warns when it cannot create or start a timer
  (`porting.c:167-186`), and `k_delayed_work_submit` returns 0 for a work that
  never runs (`unarmed`).

One more disagreement has no run of its own.  `zephyr.h:1650-1665` has
`k_delayed_work_cancel` return 0 only before the work was processed, and
`-EALREADY` while its handler runs and afterwards.  `work_q` stays set when a
delayed work is handled, so `work_q.c:245-276` returns 0 then, too, and never
`-EALREADY`.  `Cancel` does as the code does.  `RunsOnlyOwed` therefore says only
that no handler *begins* after a 0, which is less than the header promises: a
caller that frees the work's data on 0 may do so under a running handler.

And two that lie outside of what the properties say: `rom_fdcm_read` of an area
whose first write was cut after the header reads from before the first slot
(what it reads is not taken for a record), and a tick between two reads of the
tick count in `_wakelock_update` leaves `_wl_null` as it was until the next call.

## 6. Proofs

`FdcmProofs` proves every property of the run `fdcm` for all areas up to
64 KB, all header and byte sizes, record sizes and values (`SizesAssumption`,
`CellAssumption`).  None of them is inductive: that the last committed record
can be read depends on what earlier *cut* calls left behind.  `IInv` says it
in one fact, `Log(n)`: under a valid header the bitmap is `0 .. n - 1`, and
slots from `n` on are erased; between calls there is such an `n` (`Quiet`).
Around it stand what a call in progress has established: the header is as it
will stay, the slot chosen has room, after the bit is set the slot itself is
still erased.  Setting the bit before the data is what keeps it: a cut between
the two loses a slot, and never leaves a dirty slot that counts as free.
`BitCountOfPrefix` shows `fdcm_bit_count` to be `n` on such a bitmap, though a
`CHOOSE` defines it.  `AreaImplementsStore` maps each step to one of the
register: programming the bit of a fresh slot is `Progress`, `ProgramData` is
`Commit`, a cut is `Abort`, and `EraseSomeView` covers partial erases.

`PmThreadProofs` begins with `Wakelock` alone and proves `WlTypeOK` and
`HeldKeepsAwake` for every set of locks, threads and timeouts and every bound.
The invariant adds that a held lock is on the list (so a walk cannot miss it)
and that a thread recorded in `locking` is in its call; the interesting step is
`UpdateNone`, which sets `_wl_null` only when the walk saw no held lock.  The
step may be taken by any thread, long after it read the tick count, and needs
no fact about time.

It then builds on that invariant for `PmThread`: the PM thread's lock is held
except between the caller's unlock and lock (`LockInv`), so `_wl_null` seen set
means that a call is waiting and no other lock is held (`NullInCall`), and
nothing that runs while the system sleeps clears it (`SleepInv`).  From that
follow `AsleepUnheld`, `AsleepInCall` and, with a count of the touches still to
be given (`SemInv`), `PmTypeOK`.  `AnswerIsOwnAlways` assumes that there are no
aborts and no timeouts, under which caller and PM thread take turns (`Turns`).
Both assumptions are needed: with either, TLC finds a call that takes an answer
left over, and the run `pm_timeout` shows what follows.

`OtaPushProofs` proves the safety properties of the run `ota_push` for all
block sizes of which each divides the next, all chips, areas and skip sizes,
all chunk lengths and every word size that the areas do not reach
(`EraseAssumption`, `PushAssumption`).  The invariant says which part of the
area the pieces erased so far cover, that a block being erased lies in its
piece, and that the counters of both ways to stream agree with the position in
the stream; the lemmas about `Cuts` are the arithmetic of rounding up and down.

`OtaBootProofs` proves `OtaTypeOK` and the four safety properties of the run
`ota_boot` for any number of downloads, either policy and any set of flash
errors.  The invariant has one part per set of errors the properties allow.
`RInv`: the area the application takes for its own is the one that runs,
because the bootloader writes the configuration whenever it starts another.
`CInv`: without an error the area named (area 0 when no configuration can be
read) is whole and no older than what was committed, and only the other area is
ever written; this holds through an unpacking because the configuration moves
last. `AInv`: without compressed images, some area can be loaded, even if an
update was begun again.  `XInv`: if nothing failed but images that do not
unpack, the compressed image is whole whenever the configuration names it, and
an application runs only from area 0; the check of area 1 says nothing of area
0, so with such an image `VerifiedIsWholeAlways` claims nothing for area 0.
That area 0 is whole when nothing failed comes from `DecompressDone`, which
ends only a stream all of which has been unpacked, not from a check.  The flash
errors and the second update are in the model; what each property leaves out is
in its premise.

`UpdateImplemented` is the theorem that `OtaBoot` implements `AtomicUpdate`.  Each
action is taken to the step it is, or to none: `DeviceStart` (the boot that starts
an application starts the version named), `DeviceDownload` (an update begins only
where the named version runs), `DeviceVerify` (the write of the configuration
is the switch, and names the newest download), `DeviceReset`, and
`DeviceStutter` for all the rest.  What is hard is that the mapped version stays
the same through steps that change the areas and the configuration at
different times.  `CInv` had to be strengthened for it: when the configuration
names area 1 after an unpacking that was cut and begun again, both areas hold
the same version.

`SuspendProofs` proves the safety properties of the run `suspend` for any set
of devices, kinds of callbacks, modes and test levels and any number of
registrations.  `DownInv` is the centre: what is down is exactly the list of
suspended devices, in its order, or has the device whose resume callback runs
before it; drivers that come and go keep that, because both follow `list_del`
(`DownWithout`).  `PhaseInv` says what each phase of the call may rely on, the
places where a registration (`"late"`) or a callback (`"unmasked"`) breaks it
among them; a device in `left` is down without being in the list of devices
suspended with interrupts off, and is still in the list it was to leave.
`OrderInv` says that without a registration the devices suspended, turned
round, are what is missing at the head of `dpm_list` (`Restored`), which a move
from one head to the other preserves (`RestoredMove`); it is why the lists end
in the order they began.  The lemmas before it are about lists that hold a
device once (`ListLemmas`): putting one at the head, taking the head,
`list_del`.

`SleepCallImplemented` is the theorem that `Suspend` implements `SleepCall`.  The
lemmas before it follow each callback into `down` and `downNoirq`, and so into
what `Status` says of one device; `QuietDevices` turns the two lists, which
together hold all registered devices once the noirq loop is through, into "every
device is down", and at the return what is not in `left` into "up".

`BleWorkProofs` proves the safety properties of `ble_work` for all works,
threads and counts.  `PollInv`: an event that is registered stands for an empty
queue, and one that is not has been made ready, with the semaphore given if the
thread waits; it is what makes the second look in `k_poll` sufficient.  `QInv`: a
work whose pending bit is set is in one place, in the queue, in the hand of the
work queue's thread or of one submitter, unless it was lost; two submitters
cannot hold the same one because the bit is tested and set at once.  One that is
being cancelled may be anywhere, so `Cancel` can rely on nothing that
`CancelTest` saw.  `OwedInv`: what counts down or is pending was submitted, is not
both, and if delayed has its `work_q`.

`SysCtrlProofs` proves the six safety properties of the run `sys_ctrl` for any
observers and what they watch, any threads, events and queue length.
`OnceInv`: a thread whose event is on its way waits for it, and its event is on
its way once, so the looper never gives a semaphore whose caller is gone.
`PInv` is about the publisher: its list holds an observer once (`ListInv`), and
what is asked for an observer is what its state says, except for an observer in
`odd` (`AskInv`): what is odd of one is nothing to the others.  While a
notification walks, a trigger may change the list only at its tail: those it
detaches are marked and unlinked later, those it attaches come in behind all
others.  So an observer still to be told lies at the cursor or after it, and
one told behind the cursor (`DueInv`): when the walk ends none is left but in
`odd`, and none at all was told twice.  In the sweep, what lies before the
cursor is attached; an `Unlink` moves the rest up and leaves the cursor where
it is, so nothing marked is left on the list at its end.

Each safety property of a run that passes is stated by a theorem.  `OtaTypeOK`,
`PmTypeOK`, `SuTypeOK` and `PushTypeOK` are proved and in no run.  Only
model-checked: everything under fairness (`EnterReturns`, `CallEnds`,
`UpdateTakesHold`, `EraseEnds`, `SentIsServed`, `WorkIsDone`), because liveness
under fairness is outside what the prover does, and the three properties that
are violated.

## 7. Not modelled

In the parts modelled: the hash check of an image (`OtaCheck` stands for
section checks and hash), sections out of order, secure boot and trustzone
images, images in external flash, more than two areas, an uncompressed image
under the `xz` policy; in the PM thread the choice of mode by its capabilities,
the attempts repeated under `CONFIG_PM_TRY_NUM_WHEN_FAIL` (0 by default; but for
the last they change nothing the model has),
the power callbacks of WLAN, BLE and BT, more than one caller, and `pm_stop`,
which nothing calls; the wrap of the tick count; two threads in FDCM at once;
in the suspend core a device unregistered in its own callback between the
callback's return and `list_move`, and a `list_move` torn by an interrupt; in
the event system the queue sorted by priority, which is compiled out; in the
BLE porting layer `k_work_q_stop`, the power manager's list, `k_sem`,
`k_mutex`, `k_poll_signal` and the memory slab, and the FreeRTOS build, where
timers run in a task.  Not modelled at all: the components with that status in
`PROJECT.json`, each with its reason.  They are vendored, generated or register
access, or keep no state that steps of two actors share.

## 8. Plan

1. `FdcmShared`: two threads inside `fdcm_write` on one area, as sysinfo has
   them.
2. `OsSync`: the OS layer on RT-Thread against what its headers promise: timers
   that are started by a period, counts that stay below their maximum.
3. Extensions: `pm_stop` and a second caller in `PmThread`, the tick wrap in
   `Wakelock`, free order of the OTA calls in `OtaBoot`, `OtaPush` composed
   with `OtaBoot`.
4. Proofs: `OtaPush` composed with `OtaBoot`, so that "whole" becomes "every byte
   in place"; `OtaBoot`'s configuration replaced by a `RecordStore`, so that the
   steps around `CfgSpoilt` follow from what `FdcmProofs` shows; an abstract work
   pool that `BleWork` implements.

# A TLA+ development for the QNX motor-control hypervisor

This directory holds TLA+ models of the concurrent and fault-tolerant parts of
the repository, TLC configurations that check them on small instances, and
machine-checked TLAPS proofs of the results that should hold for every instance.

The repository builds a QNX hypervisor image for a Raspberry Pi class board.
On the host run a motor controller that talks to an STM32 over SPI, programs
that consume its samples, a display router, and the Hypervisor Management System
(HMS), which starts, stops, updates and gives shell access to the guests.  The
project's own code lives in `src/src/`; `src/qnx_host` and `src/qnx_guests` are
board support, vendor drivers and image build files.

## 1. The system's parts

| Part | State it keeps | Operations | Talks to |
|---|---|---|---|
| Motor controller (`giga_spi_8adc/motor_controller.c`) | the command in flight `g_cmd`, last and active configuration, sequence accounting, SPI and GPIO handles | exchange a frame, queue / retry / resolve `SET_CONFIG`, reload the file, bounce the SPI driver | STM32 over SPI; `/motor_ctrl` shared memory; SIGHUP and a file watcher |
| Shared region (`giga_spi_8adc/motor_shm.h`) | a snapshot and a ring of blocks, each with a seqlock; `write_pos` | publish, read a slot, read the snapshot, initialise | one producer, many consumer processes |
| Ring consumers (`shm_sender/shm_reader_c.c`, `motor_recorder/recorder.c`, `giga_spi_8adc/motor_monitor.c`) | `read_pos`, drop counts | attach, poll | the region, SOME/IP, CSV files |
| Recorder (`motor_recorder/recorder.c`) | row queue, recording flag, file, upload job | start, stop, timed stop, upload, MQTT commands | the region, MQTT, ssh |
| Frame router (`frame_router`) | three frame buffers, `front_index`, `frame_seq`, `host_reading_index` | guest publishes, host displays | memory shared between guest and host |
| HMS shells (`Hypervisor_Management_System/ssh/shell.c`) | table of sessions, pipes, children, reader threads, idle monitor | open, write, close, idle close | MQTT thread, ssh children |
| HMS guests (`main.c`, `guest/`) | `guests[]`, metadata files with pids | discover, start, kill | qvm processes, MQTT |
| HMS updates (`ota/ota.c`) | detached jobs, files of a guest | download, fetch, apply, push, add guest | HMS guests, ssh, HTTP |
| MQTT clients (HMS and recorder) | connected / connecting flags | connect, reconnect, publish | broker |
| AI client and server | batch under construction, result region, CSV | send a batch, publish a result, rotate | SOME/IP, a second seqlock region |
| Configuration (`config.c`) | the parsed file, `g_reload` | load, validate, signal | the controller |

What is hard in it:

* **Lock-free sharing between processes.** Consumers copy a cell while the
  producer rewrites it; they are a separate process that may be arbitrarily slow,
  and the producer can die or be restarted under them.
* **A half-duplex command protocol over a lossy link.** The acknowledgement of a
  command rides in the data frames and is latched; frames and commands get lost,
  damaged and repeated; either side may restart on its own.
* **Threads, children and blocking calls.** The shells combine an MQTT thread, a
  monitor, a reader per session and an ssh child, with the lock released between
  the steps of an operation and system calls failing between them.
* **State on disk and in unlocked globals** shared by the main loop, MQTT
  callbacks and detached update jobs in HMS.

What makes each part correct:

* region and consumers: no torn block; the cursor moves by what was delivered or
  reported lost; reads never spin;
* command link: an accepted ACK means that the STM32 runs that configuration;
  gaps are counted exactly; every command ends;
* shells: one session per guest; a slot belongs to its reader until it is
  released; no child and no descriptor is lost or closed twice; slots come back;
* frame router: the front buffer is always a complete frame; a frame displayed
  is whole; the display lags by one frame at most;
* recorder: rows leave the queue once and in order; what is counted is in the
  file; every recording is stopped and freed once; a timed one ends;
* configuration: the hardware is what the configuration in force says; no signal
  and no change of the file is missed;
* guests: every running qvm is known by its pid; files are replaced only after the
  guest was killed; the table comes back to the truth.

The complete list of parts, including those left out and why, is in
`PROJECT.json` under `components`; the places where the code is hard to test are
under `hazards`, each with the properties that would notice it going wrong.

## 2. Modules

| Module | Models |
|---|---|
| `MotorShm` | region `/motor_ctrl`, its producer and its consumers |
| `MotorShmProofs` | proofs about `MotorShm` |
| `CommandLink`, `MCCommandLink` | the command transmitter, frame validation and sequence accounting of the controller, against the STM32 |
| `CommandLinkProofs` | proofs about `CommandLink` |
| `ShellSessions` | the HMS shells |
| `ShellSessionsProofs` | proofs about `ShellSessions` |
| `FrameRouter` | the frame router, guest and host side |
| `FrameRouterProofs` | proofs about `FrameRouter` |
| `RowFifo` | what the recorder expects of its row queue: a bounded FIFO (abstract) |
| `RowQueue` | the row queue with its reader and writer thread, shown to implement `RowFifo` |
| `RowQueueProofs` | proof that `RowQueue` implements `RowFifo`, and of the recording's figures |
| `Recorder` | start, stop, timed stop, upload and shutdown of recordings |
| `RecorderProofs` | proofs about `Recorder` |
| `ConfigReload`, `MCConfigReload` | startup and reload of the controller's configuration, SPI driver and data-ready pin |
| `ConfigReloadProofs` | proofs about `ConfigReload` |
| `GuestLifecycle` | HMS guest discovery, start, kill, and what an update does to a running guest |
| `GuestLifecycleProofs` | proofs about `GuestLifecycle` |

Definitions whose name contains a word such as `Unguarded`, `Leaky`, `Forever` or
`Early`, placed before the definition they resemble, are faulty variants of it.
No specification uses them; they record which mistake in the code each property
detects (`mutants` in `PROJECT.json`).

### MotorShm

A *cell* is the snapshot or one ring slot: a 32-bit counter `seq` and payload
words `data`.  Payload words carry the number of the frame they belong to, so a
mixture is visible.  `motor_shm.h` orders the counter against the payload by
fences and leaves the payload accesses unordered among themselves: the producer
fills, and a reader copies, the words of a cell one at a time in any order.

Producer steps follow `motor_snapshot_publish` and `motor_ring_publish`:
`SnapOpen` (counter odd), `SnapFill`, `SnapCommit` (counter even), then
`SlotOpen`, `SlotFill`, `SlotCommit` for slot `write_pos % Depth`, then
`PosPublish`.  The fields that `motor_controller.c` fills before publishing are
private to it and are part of `SnapOpen`.

Reader steps: `Attach` (`shm_reader_open`) and `AttachHistory` (the recorder's
start); `SnapshotRead`; `Poll` (sample `write_pos`, skip what was lapped), then
per slot `ReadSlot`, `LoadOdd`/`LoadEven`, `CopyWord`, and `Retry` or `Accept`.
`FailedTry` is the retry loop: after `Tries` attempts the read returns false, and
a poll counts one drop and moves on.  Counters have their C widths (`U32`,
`U64`); subtraction wraps as in C.

`Crash` stops the producer anywhere.  `ShmSetup` and `RegionInit` are the next
process: `shm_setup` reopens the same object and `motor_shm_region_init` stores 0
into each counter and `write_pos`, with relaxed stores that may become visible in
any order, while consumers stay attached.

History variables, not in the code: `start`, `taken`, `dropped` (the sum of all
`*out_dropped_blocks`), `got`, `gotSnap`.

Not in the module: the header checks of `shm_reader_open` (magic, version,
layout).  They compare constants.  Note that `shm_sender/motor_wire.h` is one
contract version behind `giga_spi_8adc/motor_wire.h` (3 and 4, rows of 14 and 24
bytes), so a sender built from this tree refuses a region of the controller built
from it.

### CommandLink

Variables `state`, `cmdSeq`, `retriesLeft`, `payload` are the fields of `g_cmd`;
`active` is `active_stm`; `haveLast`, `lastSeq` the sequence accounting of the
main loop.  `counted` and `gap` record which statistics counter the last step
incremented.  An exchange is one iteration of the main loop after the data-ready
wait: transmit the command in flight, charge the retry budget
(`cmd_count_attempt`), validate the frame (`ExchangeDamaged`: magic, version, CRC;
`ExchangeRefused`: block size), then `cmd_observe` and the accounting
(`ExchangeAccepted`).  `ExchangeFails` is the SPI error path: no attempt is counted,
and the command may have reached the STM32 all the same.
`Reload` is `handle_reload` as far as it touches the command (including the
restored retry budget when the bus was reopened); `Restart` starts the controller
process again.

The STM32 firmware is not in the repository.  It is external here and follows the
contract in `motor_wire.h`: a command is applied at the next block boundary; the
ACK and its `cmd_seq` are latched; a command already applied is acknowledged and
not applied again; `CONFIG_APPLIED` is set in the first frame only.  A damaged
command with a recognisable header is answered with a NACK.  `out` is the frame
waiting to be clocked out; a newer block replaces it.

`age` is a history variable: the number of blocks since the frame last accepted.

### ShellSessions

`guest, alive, pid, inFd, outFd` are the fields of `s_sessions[]`.  A session is
numbered when its child is forked, and that number stands for its pid and its two
descriptors, so it is visible which session a close or a kill hits.  `s_lock` is
modelled by the atomicity of the critical sections, except in `shell_write`,
which writes to a pipe that can be full while holding it (`lock`).

`shell_open` is `OpenCheck`, `OpenFork`, `OpenSlot` (or `OpenNoSlot`,
`OpenNoReader`, `OpenForkFails`), `OpenMonitor`; `shell_write` is `WriteStart`
and `WriteDone` (or `WriteSigpipe`: SIGPIPE has its default action, so writing to
a child that is gone ends the process); `shell_close` is `TakeSession`,
`CloseTerm`, `CloseKill`, run by the MQTT thread or the monitor; the monitor is
`MonitorScan`, `MonitorClose`, `MonitorSleep`; the reader is `ReaderData`,
`ReaderEof`, `ReaderEnd`, `ReaderFree`.  The child may exit at any time
(`ChildExit`) or stop reading its stdin (`ChildHang`).

Simplifications: killing the child ends its output (the shell that `execl` starts
is taken to become the ssh process); pids are not reused; `SIGTERM` followed by up
to 50 polls is one window in which the child may or may not exit; announcements
over MQTT are not recorded.  `shell_close_all` has no caller.  A failing
`pipe()` is the same step as a failing `fork()`; that a failure of the second
`pipe()` leaks the first one (`shell.c:175`) is not recorded.

### FrameRouter

`hdr` is the header of `shm_proto.h`; its fields are volatile, so each access is a
step, in program order.  `buf` holds for each buffer and row the number of the
capture it shows.  Guest: `GuestInit` and `GuestMagic` (only when the magic is
missing) or `GuestAttach`; `GuestReadFront`; `GuestPick` (read
`host_reading_index`, take the lowest other buffer, or sleep); `GuestRow` for each
row, in any order, or `CaptureFails`; `GuestSeq`; `GuestFlip`.  Host: `HostStart`,
`HostPoll` (compare `frame_seq`), `HostReadSeq` (it is read twice),
`HostReadFront`, `HostClaim`, `HostRow`, `HostPost`, `HostRelease`.  `GuestCrash`
and `HostCrash` leave the header as it is, a claim included.  `inTime` and `late`
record whether a claimed buffer was still the front buffer; `pubs` what was
published.  Width, height and format are fixed for the life of a region.

### RowQueue and RowFifo

One recording.  `queue_push` is `PushRefused`, or `PushAccepted`, `PushStore`,
`PushPublish`; the writer's loop is `WriterLoop` (test of the flag), then
`queue_pop`: `PopEmpty`, or `PopLoad`, `PopRead`, `PopRelease`; the last one also
does `row_buf_add`, the count and the flush at half of the buffer.  `Flush` is
`fwrite`: it gives the rows to the stream, of which any first part goes on to the
file and the rest waits in `stdio`; writing may also fail, and the result is not
looked at.  `FlushAll` is the `fflush` at the end of the writer thread.  No other
`fflush` happens while a recording runs, so its newest rows may be in `stdio` for as
long as no more come.  `ReaderEnd` and `WriterEnd` are the ends of the two threads
after `Stop` cleared the flag; `WriterEnd` leaves what is in the ring.  `ringVars`
and the refinement mapping: `Pending` reads the cells from `tail` to `head`, so a
row enters the abstract queue with the store of `head` and leaves it with the store
of `tail`.

### Recorder

`recording`, `armed`, `due`, `glob`, `handle` are the globals of `recorder.c`.  The
objects of one recording (file, queue, mapping, thread arguments) are created and
freed together and are one `object`.  `pc["mqtt"]` runs the commands and
`pc["main"]` the timed stop and the shutdown; `stop_recording` is `StopTest`,
`StopClear`, `JoinReader`, `JoinWriter`, `CleanupTest`, `CleanupFree`,
`StopPublish` in either thread, `start_recording_internal` is `StartOpen`,
`StartFlag`, `StartSpawn`, `StartArm` and their failures.  Undefined behaviour
(use after free, double free, a second join, a null pointer) sets `ub` and ends the
behaviour.  `faults` records overlaps of the two threads, failed thread creations,
a timer left armed by a failed start, and uploads that end during a recording; the
properties say what holds without them, and which of them is needed.  `status` is
what a reconnecting client is told (`mqtt_client.c:36`).

### ConfigReload

`pc` walks through one iteration of the main loop: `TopTick` or `TopNoTick`
(`config_reload_requested`, and `cfg_watch_fired` at most once a second), `Load`,
`Close`, `ApplyNothing` / `ApplyBounce` / `ApplyFails` (`spi_apply_conf`), `Open` /
`OpenFails`, `PinKept` / `ArmPin` / `ArmPinFails`, `Adopt`, `Sync`
(`cfg_watch_sync`), and `Exchange` or `NoExchange`.  Startup is the same chain with
`boot` set, ending in `off` when the bus or the pin cannot be had.  Size and mtime
of the file are one version number that grows with each change; a file is
accepted or rejected as a whole.  `fd` tells for each device whether its cached
descriptor is closed, open, or `stale` (opened before the driver was restarted).
A failed respawn of `spi-dwc` is a bounce after which the driver stays down.

Left out: a `spi.conf` that lacks one of the four keys (the driver would then be
restarted by every SPI reload), a failing `close()`, two different versions of the
file with equal size and mtime, and the live fields (priority, scaling).

### GuestLifecycle

One guest: `row` is its entry of `guests[]`, `meta` its `.hms_metadata`, `alive`
the qvm processes that exist and `doomed` those of them that were sent SIGKILL and
have not ended yet; `Live` are the others.  `refresh` is `Clear` (`memset`, which
leaves `GUEST_RUNNING`), `Fill`, `Reset`, `Verify`, in the main loop or in a command.
`guest_start` is `StartCheck`, `Fork`, `MetaRead`, `MetaWrite`, `Settle`;
`guest_kill` is `KillCheck`, `KillSend` (or `KillOwnGroup`: the pid is read again,
and 0 means the caller's process group), `MetaRead`, `MetaWrite`.  `KillSend` only
posts the signal; `QvmDies` ends the process, at any later time: the code sleeps
(200 ms in `guest_kill`, 300 ms in `ota.c`) and does not look.  `meta_set` may fail to
open its temporary file (`MetaFails`), and since it looks at no result of its writes,
of `fclose` and of `rename`, it may also put a file that was cut short in the place of
the old one (`MetaTruncated`: either key may be gone, a cut pid is a smaller number).
`JobKill`, `JobLeave`, `JobRestart` are what `ota` and `apply` do to the guest;
`StartReturn` and `KillReturn` include what the callbacks store into the row
afterwards.  `CmdAddFile` and `AddFileEnds` are the span of the `addfile` job, which
pulls one file and copies it into the directory of a guest that may be running
(`ota.c:877`, "no guest restart needed"); it kills nothing, and the properties about
files are about `ota` and `apply`.  `Crash` and `Restart` are the service's; qvm
processes survive it.  `excuse` records operations that overlap (`overlap`), a job
that could not kill because the pid of the row was 0 (`blind`: RUNNING with pid 0
after an earlier job, `main.c:319`), and a pid that never reached the file, whole
(`unwritten`).

Simplifications: pids are not reused; `meta_set` is its read and its rename (that two
overlapping calls also share the name of the temporary file adds to what an overlap
can do, and `NoStrayQvm` excludes overlaps); the names and paths of a row are one
flag; a job that overlaps another one is not started (one job thread in the run); the
row of a guest does not move within the table.

## 3. Runs

| Run | Expected | What it shows |
|---|---|---|
| `shm_consumers` | pass | a consumer of ring and snapshot against a producer that laps it, dies at any point and is restarted.  Until it dies: no torn block, no block older than asked for, delivered and lost together no more than published, snapshot never behind the ring.  Throughout: exact cursor accounting, counters in range, and reads and polls that return (even on a cell left open) |
| `link_safety` | pass | an accepted ACK means that the configuration runs; gaps are exact across the wrap of the counter; the budget stays in range |
| `link_resolves` | pass | every command ends, with losses, damage, an STM32 reset and a controller restart, when all configurations have one block size |
| `link_resize` | violation | when the block size changes and the one `CONFIG_APPLIED` frame is lost, the command is never resolved |
| `shell_sessions` | pass | one session per guest, slots owned by their readers, no orphaned child, each pipe end closed exactly once, under failures of fork and thread creation; a closed session gives its slot back, an idle one is closed and every command returns, all unless a write is stuck |
| `shell_blocked` | violation | a write to a child that does not read its stdin blocks the MQTT command loop for ever |
| `frame_router` | pass | the front buffer is complete at every moment; a frame claimed in time is displayed whole; the display does not go back; the host lags by one frame at most |
| `recorder_queue` | pass | the ring implements a bounded FIFO; queued rows reach the stream while recording goes on; a stop returns, with the buffers empty; the figures published then fall short by what the ring holds, and the file has what is counted |
| `recorder_control` | pass | undefined behaviour only after the two control threads overlap or a thread could not be created; nothing leaks; the timer belongs to its recording; the announced state is true; timed recordings end |
| `config_reload` | pass | the hardware follows the configuration, on a descriptor that is not stale; stale descriptors only after a failed reopening; no SIGHUP and no change of the file is missed |
| `guest_lifecycle` | pass | no stray qvm, no update of a guest that was not killed, no signal to the own process group, all without what `excuse` names; the table converges |
| `guest_files` | violation | an update after an update that restarted the guest replaces the files of a running guest |

Each violation run checks a statement made by a comment of the code; `findings`
quotes it.

### Bounds

* `MotorShm`: two words are enough for a block to be torn.  Depth 2 with 3 frames
  lets the producer lap a reader and gives a slot a second generation; 2 attempts
  distinguish the first from the last; one crash leaves any cell open, and the frames
  that remain are published after the restart.  One reader: readers do not write to
  the region, so they cannot influence each other.  `U64 = 32` is just large enough
  not to wrap without a restart.  The instance is small because crashes, liveness and
  data are checked together; every property of it but `ReadsReturn` is proved for all
  depths, readers, words, frames and crashes.
* `CommandLink`: 2 good configurations and a refused one give every order of
  accepted, refused and superseded commands for one reload; frame counter modulo
  6 (half range 3) wraps within a few blocks and still separates duplicate, gap
  and reset; 2 attempts.  The liveness run uses one good and one refused
  configuration and modulus 4, the smallest allowed.
* `ShellSessions`: 1 guest, 2 slots, 3 sessions: the same guest is opened again while
  the reader of its last session is still finishing in the other slot, and a third
  time while both are, so that slots run out.  One write, one hanging child and one
  failing call.  `shell_blocked` needs one session.
* `FrameRouter`: 2 rows can be torn; 3 captures fill every buffer once and reuse
  one; one death of each program.
* `RowQueue`: 4 cells and 8 rows wrap the indices twice and fill the ring; polls of
  1 or 2 rows; a flush every 2 rows.
* `Recorder`: 2 start commands give a recording that overlaps the stop of another.
* `ConfigReload`: 4 configurations that differ in the wire parameters, in the mode,
  and in everything; 3 changes of the file, so that one can fall on each side of a
  load; one signal; 2 attempts to reopen.
* `GuestLifecycle`: 3 commands and one job thread, 2 qvm processes (a start, and a
  restart or a second one by mistake), one fault: a crash or a failing or cut-short
  write of the metadata.

Deadlock checking is off for `ShellSessions`, `FrameRouter`, `RowQueue`,
`Recorder` and `ConfigReload`: there the system may really stop.  The process ends
(SIGPIPE, a signal, a failed startup), undefined behaviour has no successor, both
threads have ended, or both programs are waiting for a frame or a row when the
bounds are used up.

### Fairness

* `MotorShm`: weak fairness of the steps of a read or poll that was entered.  They
  are straight-line code of a running consumer.  Nothing is assumed of the
  producer.
* `CommandLink`: weak fairness of the STM32's block completion (it samples by
  timer) and strong fairness of an undamaged exchange: the link may lose any
  finite number in a row, but not every one.  Without it nothing can be promised:
  the retry budget is looked at only when an intact frame arrives.
* `ShellSessions`: weak fairness of each thread's next step.  None for the
  children, their output, users, or time.
* `FrameRouter`: weak fairness of the host's loop, which waits for nobody.  Nothing
  is assumed of the guest or of anyone restarting a program.
* `RowQueue`: weak fairness of each thread, except that rows need not arrive.
* `Recorder`: weak fairness of both control threads inside an operation, of the
  worker threads, of time, and of the end of an upload (limited to three minutes).
  Commands and signals need not come.
* `ConfigReload`: weak fairness of the main loop, strong fairness of the iteration
  in which a second has passed: the loop turns at least every 2 ms, so such an
  iteration comes once a second.  None for the file, the signal and the driver.
* `GuestLifecycle`: weak fairness of each thread.  Transfers are limited by the
  timeouts given to scp.  None for commands, qvm, crashes and restarts.

## 4. Proofs

Every invariant and every action property that a run checks is also the statement of a
theorem, for every value of the constants.  Each proof has the same shape: an
inductive invariant, one lemma per action or group of actions for its
preservation, and a last step that draws the property from it.  The inductive
invariants were model-checked on the instances of the runs before they were proved.

`MotorShmProofs` proves, for every number of readers, ring depth, block size,
number of attempts and frames:

* `TypeCorrect` (`Spec => []TypeOK`), over any number of crashes and restarts.
  `TypeOK` alone is not inductive: that no read exceeds its attempts and no poll
  the caller's buffer needs `ReadInProgress`, and that `write_pos` stays in range
  needs `PosBehindFrame`.
* `CursorCorrect` (`Spec => []CursorAccounted`): the cursor equals start plus
  delivered plus reported, modulo 2^64, also when a restart makes `write_pos`
  smaller than the cursor.  The argument is arithmetic of wrapped addition and
  subtraction (`LapArithmetic`, `StepArithmetic`).
* `NoTornReadCorrect` (`Spec => []NoTornRead`).  The property is about the time
  before a crash, and since nothing makes the producer go on, also about one that
  stops for ever with a cell open.  The inductive invariant is
  `crashes = 0 => SeqlockInv` (a step never takes a crash back: `NoCrashYet`), and
  `SeqlockInv` says:
  a counter is odd exactly while the producer has the cell open (`Parity`); a
  counter is at most twice the frames written, so it has not wrapped
  (`SeqBound`); a closed cell holds words of one frame (`ClosedCellWhole`); and
  while a reader's sampled counter still equals the cell's, what it has copied so
  far equals what the cell holds (`CopyAgrees`).  The last conjunct is the heart
  of the seqlock: each producer step either changes the counter, which falsifies
  its premise for good because the counter only grows, or touches a cell whose
  counter is odd, which no reader has sampled.  Section 5 says how
  a restart breaks it: the premise is needed.
* `BlockNotOlderCorrect`, `DropsArePublishedCorrect` and
  `SnapshotNotBehindRingCorrect`, whose properties have the same premise
  `crashes = 0`: a restarted producer clears `write_pos` under its readers, whose cursors are then
  ahead of it.  `RingInv` relates the region to `write_pos`: the frame number is
  `write_pos` or one more (`FrameOrder`), the snapshot has the newest frame or the
  one before (`SnapAhead`), no slot is ahead of it (`SlotBehind`), and the slot of
  a published position holds, in every word, a frame of that slot not older than
  the position (`RingHolds`), also while the producer writes a later lap into it.
  `OrderInv` says that a cursor and the `write_pos` a poll has read stay behind
  `write_pos`, so neither wrapped operation wraps (`CursorOrder`), and that words
  copied from the ring fit the position read and are not ahead of the snapshot
  (`CopyOrder`, `GotOrder`).  A stale `write_pos` only makes the consumer report
  fewer losses than there are.

`CommandLinkProofs` proves, for every set of configurations, block sizes, refused
payloads, retry budget, counter width and number of reloads and resets:

* `TypeCorrect`, over any number of controller restarts.  It needs `SeqPaid`:
  each number of `g_cmd` is paid for by a reload.
* `AckMeansRunningCorrect` and `AckFrameUsesConfigCorrect`, without controller
  restarts (`MaxRestarts = 0`; section 5 says why this is needed).
  The inductive invariant `AckInv` says: the waiting frame reports the state of the
  STM32 (`FrameTellsState`); every number on the link was issued by `g_cmd`, and a
  command waiting in the STM32 is not older than the last one processed
  (`NumbersKnown`); whatever carries the current number carries the current
  payload (`CommandIsPayload`, `AckIsPayload`); a command resolved by an ACK is
  the last one processed until a reset (`ResolvedByAck`).  That no late copy of a
  command can undo a resolved one follows from `NumbersKnown`: such a copy has the
  current number, which the STM32 does not apply twice.
* `GapsExactCorrect`, over restarts and resets: while fewer than half the counter's
  range of blocks has passed, the counter of the waiting frame is `lastSeq + age`
  modulo its width (`CounterTracksAge`), so the signed difference is `age`.

`FrameRouterProofs` proves, for every number of rows, buffers and frames and over
restarts of either program:

* `FrontCompleteCorrect`: `front_index` names a complete capture.  Next to the types
  the invariant `FrontInv` says that nobody captures or displays before the magic
  is written (`Initialised`), that the buffer being filled is not the front buffer
  (`OffFront`, which needs that the guest's copy of `front_index` is current: the
  guest is its only writer), and that the filled rows show the current capture
  (`Filled`).
* `ClaimedFrameWholeCorrect`: a frame claimed in time is displayed whole.
  `ClaimInv` says that while the host copies such a buffer its claim stands in the
  header and the guest fills another one (`Claimed`), and that the rows copied so
  far equal those the buffer holds (`Copied`).  For a frame that is not claimed in
  time nothing is promised; section 5 describes that window.
* `NeverBackwardsCorrect`, an action property: while every claim is in time, the
  display never goes back.  `DisplayInv` says that what is displayed is not newer
  than the last publication, and that the buffer being copied lies between the two
  in every row.

`RowQueueProofs` proves, for every ring of at least two cells and every batch and
buffer size:

* `RefinesFifo` (`Spec => ImplementsFifo`).  The invariant `RingInv` says: between
  its test and its store of `head` the reader has room and the cell at `head` is its
  own (`ReaderOwns`); between its test and its store of `tail` the writer has a row
  and has read it from the cell at `tail` (`WriterOwns`).  That the other thread
  moves its index in between only makes more room, or adds rows.  From this the
  store of `head` appends to `Pending` (`PublishAppends`), the store of `tail` takes
  its head (`ReleaseTakes`), the store of a row is outside `Pending`
  (`StoreOutside`), and every other step stutters.
* `StatsCorrect` (`Spec => []StatsMatchFile`).  `StatsInv` says that every row
  that arrived was popped, refused, is in the ring or is still to be pushed
  (`Counted`), and that without a write failure file, stdio buffer and row buffer
  together are the rows popped, in order (`Written`).  It uses `RingInv`: that a pop takes one row
  out of the ring needs a row to be there.

`RecorderProofs` proves, for any number of recordings, `DefinedCorrect`,
`NothingLeaksCorrect`, `TimerCorrect` and `StatusCorrect`.  `RecInv` says, as long as
no overlap and no failed `pthread_create` has happened, that one control thread at
most is in start or stop and, for each of its steps, which of the globals, objects and
threads of the current recording exist (`StartInv`, `StopInv`, `QuietInv`), and
that no other recording has any (`OneInv`); that undefined behaviour implies such a
fault is its last part.  `TimerInv` ties the timer to the recording that
runs, `StatusInv` the published state to `recording`.  The faults are premises of the
properties, not assumptions: the specification contains them, and section 5 says
what they lead to.

`ShellSessionsProofs` proves, for any number of slots, guests, sessions, writes,
hanging children and failing calls:

* `ReaderOwnsSlotCorrect`.  `OwnInv` says that a slot belongs to the session of its
  reader until the reader is gone, with pid and both descriptors those of this
  session or cleared (`SlotInv`); that a thread has a session exactly where it works
  on one (`ThreadInv`); and that no two slots or threads have the same session, while
  a slot and a thread share one only during a write or a close (`UniqueInv`).
* `OnePerGuestCorrect`.  `TargetInv`: the guest that `shell_open` works on has no live
  session from the search to the taking of the slot, because only the MQTT
  thread opens, although the lock is released in between.
* `NoOrphanCorrect`.  `ChildInv`: each running child belongs to a live slot or to a
  thread.
* `PipesClosedOnceCorrect`.  `PipeInv` says who is to close each end: the write end
  belongs to the live slot or to the thread that took it out of the table, the
  read end to the reader; an end has been closed once exactly when nobody has to.
  Most steps leave this relation alone (`QuietStep`, `SameEnds`); the fork, the
  failure paths, the close and the reader's end have a lemma each.

`ConfigReloadProofs` proves, for every set of configurations and devices and any
number of changes, signals and failures, `HardwareFollowsCorrect` and
`StaleOnlyAfterFailureCorrect`.  `ReloadInv` follows a reload through its steps: which
configuration a configured link belongs to (`LinkInv`), that until a reopening has
failed there is one descriptor at most, closed before the driver can be restarted
(`DescriptorInv`), and that until a step has failed `spi.conf` and the pin are those
of the old or the new configuration, depending on how far the reload is
(`AppliedInv`).

`GuestLifecycleProofs` proves, for any number of update jobs, commands, processes and
faults and over crashes and restarts of the service, `NoStrayQvmCorrect`,
`FilesOfKilledGuestCorrect` and `OwnGroupCorrect`.  `BaseInv` has the
types and says that the row has its names or is about to get them.  `SoloInv`
says that without overlap a thread inside a start or a kill is alone with row and
file, so that what it has checked and read is still true.  `TruthInv` says, while
none of the excuses has happened, what each thread knows of the process that runs
(one that was sent SIGKILL may linger and no longer counts: `Live`):
between operations the file names it (`Recorded`), the row does not hide it
(`Good`), and each step of a start or a kill has its own knowledge (`OpInv`).
The two threads that rebuild the row may interleave: one that has lost sight of the
process, because the other cleared the row under it, relies on the other to find it
again (`RefreshInv`).

Assumptions in `CommandLink`: block sizes are positive, some configuration is
accepted, the budget is positive, and the width of the frame counter is even and
at least 4.  The contract of the STM32 firmware is part of the specification.

Assumptions in `MotorShm`: positive depth, attempts and buffer, at least one
word, and counters wide enough not to wrap within the frames of a behaviour, which
at 100 frames a second holds for the 32-bit counter for years.

Assumptions in `FrameRouter`: buffer 0 exists, `FB_INVALID_INDEX` is no buffer,
there is a row, and `frame_seq` does not reach the host's initial `last_seq`
(years at 30 frames a second).  In `RowQueue`: at least two cells, and positive
batch and buffer sizes.

Assumptions in `ShellSessions`: at least one slot, and no guest is the mark of a
free one.  In `ConfigReload`: the defaults are a configuration, a configuration names
a known device, and at least one attempt to open is made.  In `Recorder`: at least
one recording.  In `GuestLifecycle`: finitely many jobs, none of them a name of the
other threads.  The bounds on behaviours (`MaxOpens`, `MaxRecs`, `MaxQvm` and so on)
are arbitrary natural numbers.

Only model-checked: the liveness properties (`ReadsReturn`, `CommandResolved`,
`SlotFreed`, `IdleReclaimed`, `CommandLoopRuns`, `LagsByOneAtMost`, `RowsReachStream`,
`StopReturns`,
`TimedRecordingEnds`, `SighupHonoured`, `ChangeNoticed`, `TableConverges`), which
rest on fairness and are beyond the proof system.  Nothing here needs induction over
data or recursive operators.

## 5. What the checks brought to light

Stated as runs:

1. The block-size check precedes the ACK handling, so a lost `CONFIG_APPLIED` frame
   leaves a resizing command unresolved for ever (`link_resize`).
   `shell_write` blocks under `s_lock` in the MQTT thread: a child that does not read
   its stdin stops the command loop, which `shell.c:8` says is never blocked
   (`shell_blocked`).  A second update soon after a first one that restarted the guest
   finds RUNNING with pid 0, cannot kill, goes on and replaces the files of a running
   guest, against `ota.c:564`, "Kill the guest before touching its files"
   (`guest_files`).

Found with the same models by checking, in a configuration of one's own, the
formula and constants given here; each has a counterexample:

2. `motor_ring_read_slot` detects only an overwrite *during* its copy.  A slot
   overwritten between the poll's sample of `write_pos` and the read is returned as
   the older block, and the newer block is delivered twice; `motor_shm.h:166` and
   `shm_reader_c.h:58` say that the caller counts a drop.  (That the block is never
   *older* than asked for is `BlockNotOlder`, in `shm_consumers`.)  The block
   delivered early may even be counted as lost when its own position is skipped later:
   `DropsArePublished` bounds the sum and says nothing of single blocks.
3. `shm_setup` resets counters and `write_pos` of a region that consumers may be
   reading.  Without the premise `crashes = 0`, `NoTornRead` fails, and so
   does `DropsArePublished`: `wp - read_pos` wraps into a drop count near 2^64.
4. `cmd_seq` restarts with the controller while the ACK is latched in the STM32:
   with `MaxRestarts = 1`, `AckMeansRunning` fails.
5. The other liveness properties of the shells need their exception `Stuck` for the
   same reason: the idle monitor waits for `s_lock` too.
6. The host claims a buffer after reading its index; the guest may have picked it
   in between and fills it while it is displayed:
   `gpc = "fill" /\ hpc = "copy" => back # idx` fails in `FrameRouter`, against
   `shm_proto.h:58`.  It needs two frames published between two adjacent
   statements of the host; `ClaimedFrameWhole` and `NeverBackwards` therefore
   speak of claims in time.
7. The host can pair the new `frame_seq` with the old `front_index`, since the
   guest stores them in this order without anything in between.  The newest frame
   is then shown only when the next one comes (`LagsByOneAtMost`).
8. A device that was opened and could not be configured is never closed by
   `close_spi`, and neither is one that a plain exchange has reopened:
   `pc = "apply" => \A d \in Devices : fd[d] # "open"` fails in `ConfigReload`.
   After the next driver restart the descriptor is stale, is taken for open and
   blocks every later reopening (`StaleOnlyAfterFailure` says when).
9. A rewrite of the file between its load and `cfg_watch_sync`, a second or more
   when the bus is bounced, becomes the baseline and is not loaded until the next
   change (`window` in `ChangeNoticed`).  A pin that cannot be armed is adopted all
   the same (`failed` in `HardwareFollows`).
10. The two control threads of the recorder may both pass the test of
    `g_recording`, or a start may pass it during a stop: double joins, double frees
    and use after free (`overlap` in `DefinedUnlessOverlap`).  Results of
    `pthread_create` are ignored (`thread`).  A timed start that fails leaves the
    timer armed for the next recording (`timer`).  The end of an upload announces
    `stopped` during a recording (`upload`).
11. Rows still in the ring when a recording stops are neither written nor counted
    as dropped (`StatsMatchFile`).
12. `guest_kill` reads the pid a second time after checking it: with a refresh in
    between it is `kill(0, SIGKILL)`, which ends the service (`OwnGroupByOverlap`).
    A death between fork and `meta_set` leaves a qvm nobody knows (`unwritten`).
    `lifecycle.c:20` says that `meta_set` preserves all other keys and writes
    atomically: a write cut short by a full disk is renamed over the old file and
    loses `ip=` or the pid without a message (`MetaTruncated`), and of two overlapping
    calls one loses its update.
13. The newest rows of a recording may stay in the stdio buffer while no more arrive:
    `fflush` is called at its end only (`recorder.c:273` and `:378`), so a death of the
    recorder loses them (`RowsReachStream` ends at the stream).
14. `guest_kill` reports success without waiting for the process to end, so an update
    may still copy under a guest that is dying (`FilesOfKilledGuest` speaks of Live).

Seen in the code, not stated as properties: the idle monitor closes by name what it
collected earlier, so a session that woke up in the meantime is closed;
`shell_opened` and `shell_closed` are published by different threads without an
order; the loader accepts SPI buses 0 to 7 and the descriptor table has six rows;
the ssh throttle of `refresh_guest_name` keeps its time in the row that every
refresh clears; an `apply` without restart has killed the guest and reports "guest
left running"; a failed restart after `apply` is reported as success; a failed fetch
leaves what it staged, and the next `apply` installs it.

## 6. What is not modelled, and why

* Vendor and third-party code (GPIO resource manager, cJSON, board support: nine
  tenths of the repository's lines), the Qt user interface and bench tools.
* HMS MQTT connection: two flags around a client library that reconnects by rules
  not in the repository.
* One-shot ssh commands, the Wi-Fi service, and the transfers of the update and
  recorder commands: sequences of external commands without state of their own.
* Of the updates, the staging directory and archives; of the recorder, the commands
  that list, send and delete files.
* AI client and server, SOME/IP sender: single-threaded loops around a generated
  runtime; their region uses the cell protocol of `MotorShm`, and their input is
  the consumer modelled there.
* Formatting, JSON and log text throughout.

## 7. Running

In this directory: `tlc -config MotorShm.cfg MotorShm` (likewise for the other
pairs listed under `runs` in `PROJECT.json`), `tlapm MotorShmProofs.tla`
(likewise for the other seven modules named `...Proofs`).

## 8. Plan

The parts with concurrency or failures of their own are modelled, and the safety
properties the runs check are proved.  What remains:

1. **Refinement**: `MotorShm` implements a lossy log, in which a poll delivers
   recent positions in order and reports the others; `OrderInv` has the facts such a
   proof needs.
2. **MotorShm over restarts**: which of the properties with the premise `crashes = 0`
   survive a restart after every reader has detached.
3. **FrameRouter**: item 6 of section 5 as a run of its own.

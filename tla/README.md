# Verification of openrobotix

openrobotix is the software of the BeBot mini robot: a Linux kernel framework for
sensors and actors (*senseact*) with its drivers, a client library and small user
tools, drivers for the Player robot server, and the VHDL of the robot's FPGA.
This directory holds TLA+ modules translated from that code, TLC configurations
that check them on small instances, and TLAPS proofs that hold for every instance.

The tree is `src/`. Paths below are relative to it; `senseact/` stands for
`senseact/trunk/`.

How to run everything, from this directory:

    tlc -workers 2 -config SenseactCore.cfg SenseactCore     # a run; see the table
    tlapm SenseactCore_proofs.tla                            # a module of proofs

`PROJECT.json` lists the components, the runs, the source lines every definition
stands for, the hazards, and for each property a mutation of the code's logic
that violates it. The definitions called slips in the modules ("Plausible slips
of the code") are those mutations; no action uses them.


## 1. Inventory

### 1.1 The senseact core (`senseact/drivers/senseact.c`, `include/linux/senseact.h`)

A character device class. Drivers pass *actions* (type, index, value) to all files
opened on their device; processes read them, wait for them with `poll` and
`SIGIO`, and write actions that the driver's `pass` callback receives.

| State | Where |
|---|---|
| `senseact_table[32]`, guarded by `senseact_table_lock` | device of each minor |
| reference count of `struct device`, freeing in `senseact_dev_release` | per device |
| `mutex`, `users`, `going_away`, callbacks `open close flush pass` | per device |
| `queue_list` (RCU, writers under `queue_lock`), `wait`, `action_lock` | per device |
| `buffer[64]`, `head`, `tail` under `buffer_lock`, fasync list | per open file |

Operations: allocate, free, register, unregister a device; open, release, flush,
read, write, poll, fasync, ioctl of a file; `senseact_pass_actions` for drivers.

What is hard: open races with unregistration over four locks; release frees a
queue that a batch may be walking; sleepers must be woken by data and by removal;
a full ring becomes an empty one; the callbacks of a driver are to be serialised.

What makes it correct: memory lives exactly as long as references; the driver is
open exactly while there are users; nobody who opened misses the removal; nothing
is inserted into freed memory; no wake-up is lost; the ring delivers in order or
loses everything and says so.

### 1.2 Polled devices (`senseact/drivers/senseact-poll.c`)

Devices whose driver is called at an interval. All share one single-threaded
workqueue, created by the first open and destroyed by the last close under
`senseact_poll_mutex`; each has a delayed work that requeues itself and that close
cancels. It plugs into the core as the driver's `open` and `close`.

What makes it correct: the workqueue exists exactly while it is used; no work is
on a destroyed one; a closed device is not polled; an open one always is again.

### 1.3 The drivers (`bebot-base.c`, `bebot-ir.c`, `test.c` in `senseact/drivers/`)

i2c clients. `bebot-base` takes speeds for two wheels, limits and scales them into
registers, reports what is in force, and polls increments, angle, position and
measured speed; `bebot-ir` polls brightness and enables its sensors by a mask;
`test` is a demonstration without hardware. State: the requested values, the mask,
the registers behind the bus. Hard: writers overlap each other and removal, i2c
transfers fail half way, requests exceed what the register can hold.

### 1.4 Client library and tools (`include/bebot.h`, `tools/senseact.c`, `utils/trunk/bebot/`)

`bebot.h` opens the devices of a robot, keeps one snapshot of all sensors in static
buffers that a SYNC publishes, and writes speeds and masks. `tools/senseact.c`
prints and writes actions. `avoid.c` avoids obstacles, `wiibot.c` steers from a
remote control. State: descriptors by position, the snapshot, the run state and the
level of speed. Hard: the snapshot is assembled over several reads and devices; what
a descriptor is is concluded from its position; devices and remotes get lost.

What makes it correct: whichever nodes open, position and meaning agree; what should
stop the robot does, from any state the loops are in.

### 1.5 Player drivers (`playerstage/trunk/drivers/`, older copies under `branches/`)

`bebot_base.cc` and `bebot_ir.cc` turn the action streams into Player messages,
`camerav4l2.cc` grabs frames, `olsrd.cc` keeps a network topology from the text
interface of a routing daemon. Each has a thread that Player starts for the first
subscriber and cancels for the last unsubscription, wherever it is; the drivers for
2.1 open and close in the thread of the server, those in trunk (3.0) in their own.
`utils/trunk/player/follow.cc` is a client. State: descriptors, which are those of the whole
process; the queue of messages; the frame; the list of links.

What makes it correct: every descriptor in use is the driver's own; nothing is lost
or aborted by a cancellation; ranges are where the poses say; a link is there once;
the server is never stuck with a driver; the robot stands when `follow` is interrupted.

### 1.6 FPGA (`utils/trunk/fpga/`)

`localbus.vhd` answers bus cycles of the processor, `fpga_tb.vhd` is its test bench,
`fpga.c` loads a bit file.

### 1.7 How the parts interact

    process -- open/read/write/poll --> core -- open/close/flush/pass --> driver
       ^                                  |                                  |
       |  wake-up, SIGIO, POLL_HUP        |  senseact_pass_actions           | i2c
       +------------- queue of the file <-+<--- poll callback <-- workqueue -+

The core calls a driver with the mutex of the device held, except for the flush on
removal; a driver calls `senseact_pass_actions` from the workqueue thread and from
`pass`; unregistration comes from the driver's `remove`, in any state of the files.


## 2. Modules and how they correspond to the code

| Module | Code | State and actions |
|---|---|---|
| `ActionRing` | ring of a file | `Inserted`, `Fetched` with the modulo of the one and the mask of the other; `Contents`, the sequence a ring stands for |
| `ActionFifo` | (specification) | a bounded queue that loses all of its items when one too many is put |
| `SenseactQueue` | `senseact_queue_insert_action`, `..._fetch_next_action` | insertion and overrun test are two steps, since the lock is dropped between them |
| `SenseactCore` | allocate, register, unregister, free; open, flush, release | one action for what a lock protects, or for what runs between two locks; `pc` is the place of a call on a file, `drv` of the driver's thread |
| `DeviceSession` | (specification) | what a driver is promised: files join and part, the driver is started for the first and stopped after the last |
| `SenseactStream` | `senseact_pass_actions`, read, poll, attach, detach, the wake-ups of unregistration | the walk over the list inserts into one queue per step and may or may not see queues that come and go meanwhile, as RCU lists allow |
| `SenseactPoll` | `senseact-poll.c` | open and close around the mutex, timer, thread, cancellation in its two phases |
| `BaseUnits` | speed macros and limits | operators on integers; C's division truncates toward zero |
| `BebotBase` | `senseact_write_file`, `bebot_base_pass`, probe, remove | a write copies action by action, syncs, echoes; transfers fail; remove stops the motors |
| `BebotSnapshot` | `bebot_base_poll`, `bebot_ir_poll`, the reports of writes, `bebot_update` | a poll is a list of batches, each passed under `action_lock`; the second transfer of the base may fail; the update walks the files and fetches action by action |
| `PlayerServer` | (external) Player, descriptors of the process | subscription, set-up, thread, cancellation, `MainQuit` or `Shutdown`, by release |
| `PlayerBase` | `bebot_base.cc` | queue of velocities, blocking reads, cancellation |
| `PlayerIr` | `bebot_ir.cc` | devices that open or not; the poses of the answer; whose sensor a slot holds |
| `CameraV4L2` | `camerav4l2.cc` | the frame and the heap; cancellation in the read |
| `Olsrd` | `olsrd.cc` | socket, answer, merge line by line, links |
| `Follow` | `utils/trunk/player/follow.cc` | from connection to disconnection; which velocity is left open |
| `Player` | | the drivers in one server, with `follow` or with clients that come and go |
| `BebotClient` | `bebot_init`, `bebot_update`, `bebot_poll`, `bebot_set_speed` | nodes that open, descriptors by position, devices that fail |
| `Avoid`, `Wiibot` | `utils/trunk/bebot/avoid.c`, `wiibot.c` | a round of the loop is a step, with the speeds it computes |
| `BebotIr` | `bebot_ir_pass`, `bebot_ir_probe`, `bebot_ir_remove` | writers of the mask, writes that fault midway, failing transfers, the register's width |
| `Programs` | | all of these; a behaviour is about one program or server |
| `MCBebotBase`, `MCBebotSnapshot`, `MCPrograms` | | the requests, scenarios and bounds of their runs |
| `Infrared_proofs` | | theorems and proofs about `BebotIr` and `PlayerIr`, which `Programs_proofs` uses |
| `*_proofs` | | theorems and proofs of the module they are named after; those of `BaseUnits` are in `BebotBase_proofs` |

Composition. `SenseactQueue` and `SenseactStream` are both built on the operators
of `ActionRing`: the first shows what one ring delivers, the second what a device
with several of them does. `SenseactCore` is refined into `DeviceSession`, once for
every device. `SenseactPoll` starts where `SenseactCore` ends: it takes from it that
open and close of one device alternate (`DriverOpenIffUsed`). `BebotBase` takes the
mutex and the marking of the device from the core and adds the driver.
`BebotSnapshot` puts the abstract queue (`ActionFifo`) between the drivers and the
client library, which `SenseactQueue` shows the rings to implement.

Above that are the programs. `Player` composes the four drivers over one table of
descriptors with `PlayerServer` and `Follow`; `Avoid` and `Wiibot` use `BebotClient`.
There a poll of a device is one step, as `SnapshotIsOnePoll` allows, and the removal
of the base stops the robot, as `StopIsFinal` says. `Programs` puts them side by side:
they do not run at once, the initial state chooses a scenario, and one run checks all.

### Decisions that shape the models

- **Granularity.** What runs under one spinlock, or under a mutex without calling
  out, is one step. Where a mutex is held across a driver's callback it is a
  variable, so that everybody else's steps are seen in between.
- **Files and devices are used again** (a file is closed and opened anew; minors
  are reused); a device object is allocated once, as its memory is.
- **External parts**, modelled from their use: the kernel's workqueue, RCU's grace
  periods, mutexes (a step that waits until the owner is gone), reference counts
  of `struct device`, the i2c bus. A transfer that fails may have written none,
  some, or all registers.
- **`SenseactStream`** has one reader per file. Threads that share a file share its
  ring; `SenseactQueue` covers them as far as the ring goes. Opening attaches the
  queue in one step with the test of `going_away`; the refusal after the attach is
  a matter of `SenseactCore`.
- **`BebotBase`** models writes of both wheels, as `bebot_set_speed` (`bebot.h:176-195`)
  and `bebot_base.cc:171-184` make them. The tool `tools/senseact.c:154` may write one
  action alone; a mixture of wheels is then what was asked for.
- **`BebotSnapshot`** tells values apart by the poll or write they come from, and by
  nothing else: that is all a snapshot that mixes polls differs in. It opens the
  files of the robot at once, since steps of different devices commute. A read that
  fails, for a signal or for a device that is gone, may happen at any time.
- **Cancellation** (`PlayerServer`): a thread acts on `pthread_cancel` at the places where
  the code blocks or tests, and leaves everything as it is. `v4l2_read` is taken for
  one, as the `read` it calls is. Between two such places a step is a whole turn.
- **Time** (`Tick` of `Player`): devices are polled every 250 ms, within which the thread of
  the base works off what it has. It reads the poll before, and when the device is gone, so
  that its reads return at once, it empties its queue.
- **Descriptors** are numbers of which the lowest free one is taken, so that a number
  closed twice may by then be another driver's.
- **`PlayerBase`** does not model what is published: the loop over the actions runs to
  the number of bytes read (`bebot_base.cc:253`) and takes old contents of the stack for
  actions. `PlayerIr`, where the same happens (`bebot_ir.cc:331`), tells of a slot for which
  sensor the driver last wrote it, not with what.
- **`BaseSetupFails`** may abort the process: the message at `bebot_base.cc:138` formats
  the descriptor, -1, with `%s`.
- **`Olsrd`**: an answer cut within a line makes `updateTopology` search beyond the
  buffer; the model aborts the process there, which is one outcome of many.
- **`Avoid` and `Wiibot`** compute the speeds the code computes, with C's division. The
  result of `bebot_init` is ignored in `avoid.c:67`: the model goes on with descriptors
  that fail.
- **`StaticNodes`** (`SenseactCore`): with udev a node appears with `device_add`. With
  nodes made by hand a process can open a minor at any time. The proofs and the
  `core` run assume udev, `core_free` shows what happens without.
- **`HotRemove`** (`SenseactPoll`): whether a device is unregistered with files open.
  It then waits for an open or close callback under way, which the core calls with the
  device's mutex (`senseact.c:59-71, 77-82, 356-358`), but not for the files.
- **Faults of a copy** between kernel and process end the call: a write leaves in the
  request or the mask what was copied before, without a transfer (`senseact.c:519-523`,
  `CopyFaults` of `BebotBase`, `SwitchFaults` of `BebotIr`); a read loses the action it
  had fetched (`senseact.c:587-588`, `CopyFaults` of `SenseactStream`).


## 3. Runs

| Run | Question | Instance and why it is enough |
|---|---|---|
| `queue` | Does the ring deliver in order, lose all or nothing, and report it? | 4 slots, 3 different actions, so that order and identity show; every position of head and tail is reached. The proof covers other sizes. |
| `core` | Lifetimes, hang-ups, slots, sessions; does every call and removal end? | 2 devices contending for 1 minor, 2 files, a flush callback: a minor is reused, first and last user change, a file opens on either side of every step of a removal. |
| `core_free` | Is memory freed with references to it? *(violated)* | 1 device, 2 files, nodes made by hand. |
| `core_serial` | Are the driver's callbacks serialised? *(violated)* | 1 device, 2 files. |
| `stream` | Is anything inserted into freed memory, a wake-up lost, an end of file invented? Do wake-ups arrive? | 1 read file and 1 that comes and goes, the smallest ring, batches up to 3 actions (`MaxBatch`), so that a batch overruns the ring while a read is anywhere; reads of 2 actions (`ReadMax`), more than the ring keeps. |
| `poll` | Does the shared workqueue follow its users? Is every open device polled again? | 3 devices: one starts, one shares, one stops. |
| `poll_remove` | Is a device still polled after it was unregistered? *(violated)* | 2 devices, `HotRemove`. |
| `base` | Do the wheels run at the speeds of one write? Does the robot stand after removal? | 2 writers, 3 requests no two of which agree in a wheel, one beyond the limits, one that rounding changes. |
| `snapshot` | Is what a program sees of a device one poll? Does it see every poll? | 3 files. `Loads`: two polls of the base, or a poll and a write, either of which overruns the queue when nobody reads; or two polls of the second infrared device beside a write. One action for each pair of the base's values, two sensors per device; the smallest queue that holds a poll, reads of 2 actions, so that reads cut every batch. |
| `snapshot_half` | The same with one infrared device for all sensors *(violated)* | 2 files. |
| `programs` | Do drivers keep to their descriptors, frames, slots, links and masks, whatever is cancelled and fails? Does what should stop the robot stop it? Does the server get done? | Scenarios, see below. |
| `camera_assert` | Does a new session of the camera begin without a frame, as `GrabFrame` asserts? *(violated)* | The camera alone, both releases. |

The scenarios of `programs`: the infrared driver of both releases on a robot with all
of the configured devices, of 2, 1 and 1 sensors (the counts 12, 6, 6 in small, which differ
in the same way), of which any set opens in 3.0 and all or none in 2.1, so that robots with
fewer devices behave like one of them; base and camera together in 2.1, where the server
closes and the camera's failing set-up loses a descriptor; base, camera and olsrd alone in 3.0, olsrd in 2.1 too;
follow with base and infrared; avoid on a robot of which any set of the four nodes opens;
wiibot on one with `base` and `ir`; two programs that switch sensors 0, 5 and 6, of
which the last is beyond the sensors.

### Bounds

`MaxBatch` and `ReadMax` of `SenseactStream` and `Load` of `BebotSnapshot`, how often a
device is polled and written, are the only bounds besides the sizes of the constant
sets: all other counters (`refs`, `users`) are bounded by the number of files. Two
polls are enough to mix, and a queue forgets all of its past when it overruns. The real
ring has 64 slots (`SENSEACT_BUFFER_SIZE`), there are 32 minors; nothing depends on the number except that the size is a power of
two, which the mask needs and `BufferSizePowerOfTwo` states.

In `programs`: `FdCount` is 3 descriptors, one more than two drivers hold and as many as
the infrared driver needs, so that the table also gets full. `QueueLength` is 6 messages (32 in
Player): follow queues a velocity for every message of data it reads, and with 5 the
command to stop can be dropped, as in the model many of them can come between two polls.
`Speed` is to drive or to stand; `Skip` is one picture; the answers of olsrd have both
directions of a link in either order, addresses of different networks, and a line that
does not convert; scenes are a hand at the back, at the front, at both; buttons are
pressed alone and together; tilts are within and beyond the limits.

### What the passing properties say

- `ImplementsFifo`, `NoSilentLoss`: the ring is a queue of one action less than its
  slots; an overrun empties it, and the message is printed although the test runs
  after the unlock while readers fetch.
- `FreedExactlyWhenUnused`, `SlotIsOwned`, `EveryOpenFileHungUp`,
  `ImplementsSessions`: references are exact on every path of open, failing ones
  included; unregistration clears its own slot only; whoever has a device open
  when it is unregistered is hung up, also if the open was under way; the driver
  sees a first open, a last close and in between an active session.
- `NoInsertAfterFree`, `NoLostWakeUp`, `EmptyReadOnlyAfterOverrun`: the grace period
  comes before the free; a process is on the wait queue before it tests; `read`
  returns 0 only if the ring overran while it was under way.
- `WorkqueueIffUsed`, `WorkOnLiveWorkqueue`, `NoPollWhenClosed`: as named, whatever
  opens, interrupted or failing ones included, and closes overlap.
- `WheelsOfOneWrite`, `WriteTakesEffect`, `EchoIsInForce`, `StopIsFinal`: the mutex
  makes a write of two wheels atomic, though it is many steps and may fault; what
  readers are told is in the registers; nothing moves the robot after removal.
  All of them except after a failed transfer, when the registers are unknown.

- `SnapshotIsOnePoll`, `RequestIsOneWrite`: a poll is taken over whole at its sync,
  though polls that fail half way leave parts behind and reports of writes come in
  between; both requested speeds come from one write because `action_lock` is held
  over a batch. The exception, a poll of which an overrun took actions or in the
  middle of which the file was opened, is in the property.

- `OwnDescriptors`, `ServerGetsDone`: threads are stopped before their descriptors are
  closed, by whichever thread, and each of them gets to a cancellation point.
- `SlotsFollowPoses`: the two loops of the infrared driver that count sensors agree for
  every set of devices that opens, in every session.
- `FramesAreFreed`: one frame at most is allocated, and `data` points to it; what a
  cancelled thread leaves is not lost, but meets the assertion (`camera_assert`).
- `LinksOfAnswer`: the merge yields each link of the lines so far once, whatever their
  order and direction, with a value between those of its lines.
- `DevicesInPlace`: 3 and 13 are the only sums `bebot_init` accepts, and each is that of
  one set of nodes only, of which positions are what the library takes them to be.
- `MaskIsInForce`: the mutex is held over the bits, the transfer and the report, so no
  writer's bits are undone by another's transfer.
- `InterruptStopsRobot`: after SIGINT the zero that follow queues is written by the driver
  before its thread is cancelled, since the nap of `follow.cc:171` lasts two polls.
  It depends on the queue not being full; see `QueueLength`.
- `StopsForReason`: a front that stays covered stops avoid, though its halves come from
  two devices at different times; a remote with no button pressed stops wiibot. Both only
  while the program is in its loop and nothing is lost: the robot runs on when a
  poll fails, the remote is lost, or wiibot is left with HOME and a direction pressed.

### Liveness and the fairness it rests on

`RemovedIsFreed`, `CallsReturn` (core and poll), `CallsEndOnRemoval`,
`DataWakesReader`, `ReleaseEnds`, `KeepsPolling`, `RemovalStopsRobot`, `PollIsShown` are checked
under `FairSpec` of their modules, `ServerGetsDone`, `InterruptStopsRobot` and
`StopsForReason` under `Spec` of `Programs`. Assumed is only:

- *weak* fairness of steps of a call, a batch or a removal that has begun: the
  scheduler runs them, and a callback of a driver returns;
- *strong* fairness of taking a mutex: waiters of a kernel mutex queue in order, so
  one that becomes free again and again is granted at last;
- *weak* fairness of the timer and of the workqueue's thread;
- in `BebotSnapshot`, *weak* fairness of a program that calls `bebot_update` in a loop, as
  `avoid.c:69-70` and `wiibot.c:110-112` do. `PollIsShown` moreover is about behaviours
  in which reads do not fail for ever;
- in `Programs`, *weak* fairness of the threads of Player, of a call the server has begun,
  of the polls, of follow's steps, and of the loops of avoid and wiibot. Not assumed:
  that a picture or an answer of olsrd comes, that a client does something, that SIGINT
  is sent, that remotes are paired.

Otherwise never assumed: that a process calls open, close, read or write, that a driver
passes a batch or removes its device, that a signal comes, that something fails.

`CHECK_DEADLOCK FALSE` in `core` and `base`: there the liveness properties are the
stronger statement, as a call that gets stuck violates them. (Everything may also
come to rest for good, which is the step `Rest`.) It is also in `programs` and
`camera_assert`: there a process may be aborted, and clients may stay away for good.

### Findings: what the violated runs show

- `core_free` (`NoUseAfterFree`): after a failed registration `senseact_free_device`
  frees the device but leaves it in the table (`senseact.c:288`), and the table
  shows a device before its count is initialised (`senseact.c:236-255`). The comment
  at 285-286 promises that memory outlives references.
- `core_serial` (`CallbacksSerialised`): `senseact.h:106` says the mutex serialises
  open, close and flush; the flush at `senseact.c:371-372` does not take it and
  meets the close of the last user. That it meets nothing else is proved
  (`RemovalFlush`).
- `poll_remove` (`PollingStopsWithDevice`): the comment at `senseact-poll.c:166-167`
  says unregistering stops polling; it does not while a file is open, and the
  drivers free their data right after it (`bebot-base.c:234-241`). In the trace the
  open callback is over, so that nothing holds the device's mutex, and its work waits
  for the timer.

- `snapshot_half` (`SnapshotIsOnePoll`): `bebot.h:150-152` takes over half of the
  brightness array whatever the device, but `bebot_init` accepts a robot with the
  one device `ir`, which has twelve sensors (`config/bebot.cfg:16-17`, `bebot-ir.c:205`).
  Sensors 6 to 11 stay at zero; `avoid.c:74-75` needs two of them in order to stop.

- `camera_assert` (`GrabsWithoutFrame`): a thread cancelled in the blocking read
  (`camerav4l2.cc:434`) leaves its frame in `data`; neither `MainQuit` nor `MainSetup`
  resets it, and the first `GrabFrame` of the next session aborts the server at the
  assertion of line 418. `follow.cc:205-209` subscribes, unsubscribes and subscribes again.

More things met on the way that no run is needed to see: an olsrd thread that is
cancelled within `updateTopology` leaves its socket open (`olsrd.cc:295`), and so does a camera
that `InitDevice` refuses (`camerav4l2.cc:223`); the thread of the infrared driver ends for
good when `select` fails (`bebot_ir.cc:316`), while clients stay subscribed. And two
things met on the way that no run is needed to see: `bebot_get_position`
(`bebot.h:221-226`) returns the speeds, and the non-blocking read of `bebot_update`
blocks when the queue overruns between its test and its wait (`senseact.c:573-577`),
which `PollIsShown` has to except.


## 4. What is proved

All theorems are checked by TLAPS for every value of the constants that satisfies
the named assumptions of the module. Each safety theorem has the same argument:
an inductive invariant `IInv`, `Init => IInv`, `IInv /\ [Next]_vars => IInv'` with a
case for every action, `IInv => ` the property, and a temporal step.

| Module | Assumes | Inductive invariant, and why it is needed | Results |
|---|---|---|---|
| `SenseactQueue_proofs` | the ring has a power of two of slots; `NoAction` is no action | `OverrunPending`: between an overrun and its test the ring stays empty, because there is no second inserter | `TypeCorrect`, `LossIsReported`, `RingImplementsFifo` |
| `SenseactCore_proofs` | finitely many files; `~StaticNodes` | the count of references is one for the driver plus one for every file between look-up and put; the count of users is the number of files in the states that are counted; the mutex's owner is the one file in a callback; a marked device has no opening file; who is attached is on the list or has undone it | `TypeCorrect`, `DeviceLifetime`, `DriverFollowsUsers`, `NoFileMissesHup`, `SlotOwnership`, `RemovalFlush`, `CoreImplementsSessions` |
| `SenseactStream_proofs` | the ring has more than one slot; readers are files | `WalkInv`: a queue the walk can still visit is on the list, or its release waits for the walk; `SleepInv`: the mark and the remover agree, and who sleeps has a wake-up to come; `ReadInv`: between the test and the fetch data only vanishes by an overrun or a removal | `TypeCorrect`, `WalkMeetsLiveQueues`, `WakeUpsArrive`, `ReadsReturnSomething` |
| `SenseactPoll_proofs` | finitely many devices; nothing of `HotRemove` | the count of users is the number of devices in the states after `started`; the list holds a work exactly once and only with its PENDING bit on the list; the mutex's owner is the only one starting or stopping | `TypeCorrect`, `WorkqueueFollowsUsers`, `WorkHasItsQueue`, `ClosedIsNotPolled` |
| `BebotBase_proofs` | requests are pairs of integers; for the conversions nothing | `MutexInv`: whoever is inside a write owns the mutex, so there is one; `WriteInv`: what has been copied is in `speed` so far; `EchoInv`: the report lags behind the registers only inside a write. The conversions have no state: division by cases on the sign, and linear arithmetic | `TypeCorrect`, `WritesAreAtomic`, `WritesAreObeyed`, `ReportsAreTrue`, `RemovedRobotStands`; `RequestsFit`, `EchoIsClose`, `TurnsAreSymmetric`, `FasterIsNotSlower` |
| `BebotSnapshot_proofs` | `SnapshotAssumption`; `HalfRing` for `SnapshotOfOnePoll` only | `Shape`: which actions can stand where in a batch, a queue and a buffer; for each file `PollInv`: what is still to be passed, what is queued, what has been read and what has been copied since the last sync are, one after the other, of one poll; `WriteInv`: the same of the two wheels of a write | `TypeCorrect`, `SnapshotOfOnePoll`, `RequestOfOneWrite` |
| `Infrared_proofs` | `NoWriter` is no writer; 6 or 12 sensors; bits of a 16-bit mask; a list of devices, of any numbers of sensors | `MaskInv`: whoever is inside a write owns the mutex; its wish is in the mask once its bits are set, the mask in the register once it is transferred (of which a register of a byte keeps all six sensors); the last report holds until the next transfer, also when a write faults before its own, unless a transfer failed. `SlotInv`: every slot that is written has the sensor its count from the first device says, and the poses that were answered are those of the devices that are open now | `MaskStaysInForce`; the lemmas about slots |
| `Programs_proofs` | the assumptions of the modules, which say no more than types: descriptors, answers, scenes and tilts are of any number and value | `ServerInv`: only what is subscribed has a thread, and which call the server can be in; `OwnInv`: a driver holds its descriptors while it has a thread, and in 2.1 while it is subscribed; `FrameInv`: the frame is there while it is read into; `MergeInv`: each merged line has its link and each link its lines; `SlotInv` and `MaskInv` as above; `DevicesInPlace`, which is inductive with the types of the client | `DriversOwnDescriptors`, `NoFrameIsLost`, `LinksAreThoseOfAnswer`, `SlotsArePoses`, `MaskInForce`, `DevicesFoundByPlace`, `TypeCorrectness` |

Two of the results are refinements. `RingImplementsFifo`: `Contents`, a function on the
slots between tail and head, is the abstract queue; insertion appends (`InsertContents`)
or empties, a fetch takes the head off (`FetchContents`), the test stutters.
`CoreImplementsSessions`: for every device the members of its session are the files that
are counted as users, so that a file joins where it is counted and parts where it is
discounted; the driver starts and stops where its callback returns; the memory is freed
where the last reference is put, and whoever has a file of the session has a reference.
The theorem needs the full invariant of `SenseactCore`.

`HalfRing`, that each infrared device has at most half of the sensors of the ring, is a
hypothesis of `SnapshotOfOnePoll` because the property is false without it: that is
what the run `snapshot_half` shows. The other theorems of that module do without.

`MaskInForce` is `MaskStaysInForce` taken over to the programs, of which only the writers
change the mask. The theorems about Player and the programs rest on lemmas that each say
of one driver's step that it leaves the descriptors of the others alone: a descriptor is
taken from the free ones, and a driver closes what it holds.

The theorems about conversions range over all integers, of which the C code sees those
of 32 bits: its products stay within them, as the limit comes before the scale.

Recursion. The slots and poses of the infrared driver (`PlayerIr`) are counted over a list
of devices of any length, by recursive functions. That such a function exists (`Recursion`)
and what it computes is proved by the least counterexample in a set of numbers (`Induction`
of `Infrared_proofs`, from `NatLessThanWellFounded`), since induction over formulas is not
available to the provers. The library has four nodes, and its counts are sums of four.

### What is only model-checked

- Liveness: `RemovedIsFreed`, `CallsReturn`, `CallsEndOnRemoval`, `DataWakesReader`,
  `ReleaseEnds`, `KeepsPolling`, `RemovalStopsRobot`, `PollIsShown`, `ServerGetsDone`,
  `InterruptStopsRobot`, `StopsForReason`. It needs fairness and `ENABLED`, which the
  prover cannot treat.
- The bounds of the runs (`MaxBatch`, `ReadMax`, `Load`, `QueueLength`) are constants of the
  theorems as well, which hold for each of their values; none is about a system without them.

Every safety invariant that a passing run checks is the property of a theorem. The type
invariants of `SenseactQueue`, `SenseactCore` and `SenseactPoll` are proved (`TypeCorrect`)
and no longer checked by their runs.


## 5. Plan

Order is by how much of the robot's behaviour depends on a part.

1. *Done*: ring, core, streams, polled devices, requests to the motors, snapshots, the
   infrared mask, opening devices, avoid, wiibot, follow, the Player drivers of both
   releases; the proofs of section 4.
2. Proofs about the operators that no run's property names: that avoid steers
   mirror-symmetrically, that what wiibot requests stays within its limits, and that a
   robot which has stopped stays so while the front is covered.
3. `Localbus` with the master of the test bench: what is written is read.


## 6. What is not modelled

- sysfs attributes, version ioctl, module set-up, log messages: no state of interest.
- `SIGIO` for data (it is sent, and nothing waits for it); `POLL_HUP` is modelled as
  the flag `hup` of a file.
- `write` of a size that is no multiple of an action (`senseact.c:519`): see the hazards.
- The demonstration device `test.c` and the tool `tools/senseact.c`: they keep no state
  between calls, or none that others rely on. The tool's loop bound is huge when a read
  fails (`tools/senseact.c:159`).
- The values the Player drivers publish, their requests for geometry and power, and the
  removal of an infrared device under the open driver.
- What Player does with the messages left in a driver's queue, and its other drivers, such
  as the blob finder of follow.
- The threads of the drivers for Player 2.1 are taken to be those of trunk; what differs,
  set-up and shutdown, is modelled for both.
- Memory of the kernel in `bebot_ir_probe`, which loses its structure when the allocation
  of the poll device fails (`bebot-ir.c:147`).
- `localbus.vhd`, the rest of the FPGA and `fpga.c`, which copies a file to a device: hardware
  below the drivers that none of them talks to.
- Patches, worlds, configurations and build files are no behaviour of this code.

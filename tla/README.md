# Verification of the CSC 460 real-time kernel and its application

This directory holds TLA+ modules for the code of this repository, TLC
configurations that check them on small instances, and proofs for TLAPS. The
heart of the repository is the kernel of project 3
(`src/project3/common/kernel`): a preemptive real-time operating system for an
AVR ATmega2560, with three scheduling levels and rendezvous messages, written
from scratch for a course and used by two stations (`src/project3/base`,
`src/project3/remote`) that play a laser-tag game with a Roomba robot.

    tlc -workers 2 -config Scheduling.cfg KernelHistory     one of the runs
    tlapm KernelProofs.tla                                  the proofs of one module

## 1. The system

| Component | State it keeps | Operations | Interacts with |
|---|---|---|---|
| Kernel (`kernel.c`) | `Process[]`, `IdleProcess`, `Cp`, `Messages[]`, `Tasks`, `sys_clock`, `clock_state` | `Kernel_Request` and one handler per request, the tick `Kernel_Request_Timer`, `Dispatch`, `Kernel_Init/Start` | tasks, through a request block on their stack; the timer interrupt |
| Task queues (`process.c`) | three singly linked lists of descriptors | `enqueue`, `deque`, `insert`, `Queue_Rotate_Ready` | `Dispatch`, creation, termination |
| Message queue (`message.c`) | a singly linked list of entries of `Messages[]` | `msg_enqueue`, `msg_find_receiver` | send, receive, terminate |
| OS stubs (`os.c`) | nothing but the request block `info` on the caller's stack | `Task_Create_*`, `Task_Next`, `Task_Terminate`, `Msg_Send/Recv/Rply/ASend`, `Now`, `Task_Pid`, `OS_Abort` | enter the kernel; read `info` after it returns |
| Context switch (`cswitch.S`) | saved registers and stack pointers | `Enter_Kernel`, `Exit_Kernel`, the timer ISR | what makes a handler atomic |
| UART (`uart.c`) | a receive ring buffer per port: write index `_RXIn`, read index `_RXRn`, the wrapped flag `_RXWn` | the receive ISR, `UART_Async_Receive`, `BytesAvailable`, `Flush`; a busy-waiting `UART_Transmit` | tasks of both stations |
| Packet (`Packet.cpp`) | the bytes of one command packet with a magic byte and a Fletcher checksum | setters, each updating the checksum; validity test | base (builds, sends), remote (receives) |
| Remote station (`remote/user.cpp`) | game mode, `game_on`, `dead`, health, light average, laser ticks, arm and robot speeds | tasks `RXData`, `lightSensorRead`, `modeChange`, `commandRoomba`, `UpdateArm`, `TickArm` | kernel, UART, packet, arm, Roomba |
| Base station (`base/user.cpp`) | the packet, joystick readings | tasks `updatePacket`, `TXData` | kernel, UART, packet |
| Arm (`Arm.cpp`) | position, speed and time of the last step of two servos | `setSpeedX/Y`, `tick`, `filterSpeed` | the tasks `UpdateArm` and `TickArm` |
| Roomba, Motor, move | flags; command bytes | drive and song commands, sensors; `choose_user_move` | the task `commandRoomba` |
| Joystick, Keypad, utils, trace | filters, a trace array | input, arithmetic, PWM, abort | everywhere |
| Project 2 kernel (`src/project2`) | as project 3's | an earlier version; its `insert` differs | - |
| Project 1 scheduler (`src/project1/common/Scheduler`) | a table of periodic tasks with remaining times | `Scheduler_Init/StartTask/Dispatch` | the loop of each station, which idles as long as it says |
| Project 1 stations (`base.ino`, `remote.ino`) | a packet, readings, a letter | `sendPacket`, `getData` and the tasks around them | the scheduler; each other over a serial radio |
| Website, tests | - | - | - |

### What is hard in it

* **Interleaving.** A handler is atomic, but tasks issue requests in any order
  and a tick falls between any two. Which task `Dispatch` may move, and which
  blocked call a handler may write into, rest on facts no line checks: that the
  current task is at the front of its queue, that a queued message's sender is
  still blocked, that at most one task is marked `RUNNING`.
* **Ordering.** The periodic queue is a list sorted by start time of which only
  the front is looked at. Its order must survive insertion, rotation and the
  passage of time.
* **Numeric edges.** Times are `uint16_t` and wrap after 65536 ticks; an
  overflow state per task and for the clock distinguishes the sides of the
  wrap. Tick counts are unsigned and decremented.
* **Messages.** Lost wakeups; messages for tasks that die and whose descriptors
  are reused; replies from tasks the sender did not send to; replies racing the
  copy the receiver makes after it has left the kernel.
* **Starvation.** Round robin keeps its promise only if rotation is fair.
* **Shared variables.** The remote station's periodic tasks are switched at ticks
  and share health, mode and laser ticks without a lock; `h -= 1` is a load and
  a store.
* **Unreliable input.** Bytes come late, in pieces and not at all; a reader has
  to find packets again.
* **Interrupts beside the kernel.** The UART's ring buffer is written by an ISR
  while tasks test and read it.

### What makes each part correct

* Kernel: every live task is in exactly one queue, the running one in front; no
  internal check fires; priorities are respected; a due periodic task is
  started on time or the kernel stops; a task blocked in a message call is
  released by its partner and nobody else; no receiver sleeps on a message it
  would take; a message never reaches a later tenant of a descriptor; no task that
  waits is overtaken, and round robin serves everyone.
* Queues: the linked lists are the sequences the kernel uses them as.
* Stubs: the value a caller gets is the one its partner sent.
* UART: the bytes read are those received, in order; one is dropped only when
  the ring is full.
* Packet and stations: what is taken from a cut stream is joined from two packets
  only where the checksum or a stray magic lets it, a reader that lost its place
  goes on taking bytes, and it is back at whole packets where nothing in the data
  looks like a magic and the losses end (sections 3 and 4 say what does not hold).
* Game: a dead robot stops, one in play has health left, hits kill in the end,
  the laser runs out, the mode changes.
* Arm: a held stick moves its joint to the end, and no joint goes past it.
* Scheduler: every task runs once in each period, without drift, and idling
  ends at the next release.

## 2. What is modelled

### `TaskQueue` - process.c

A task queue is a sequence of pids, front first. `enqueue`, `ToEnd` (the
rotation of one element), `FirstReady`/`HasReady` and `Queue_Rotate_Ready`
follow the functions of the same name. `insert` places a periodic task after
the elements `InsertPasses` lets it pass: the three-way comparison of start
time, clock and overflow state, in the source's form. `later` is the
comparison of start times under the overflow states.

### `LinkedList`, `TaskQueueList`, `MsgQueueList`, `KernelQueues`, `KernelLists`

`Kernel` takes its queues for sequences; these modules show that the lists of
`process.c` and `message.c` are. `TaskQueueList` has the three lists of
`queue_init` with head, tail and length, and the one `next` field that every
descriptor has for all of them; `MsgQueueList` the list through `Messages[]`.
`enqueue`, `deque`, `insert`, `msg_enqueue` and `msg_find_receiver` are one
action each, with the source's cases. Which elements `insert`'s walk passes and
which messages fit are any sets, so no clock or mask is needed. What the callers
guarantee is in the guards: `free` and `idle` are the elements no list holds,
which `QueuesHoldLiveTasks` and `QueuedSendersBlocked` (both proved of
`Kernel`) give. `KernelQueues` has the same operations on sequences, and
`KernelLists` composes the lists and follows `next` from each head as the
refinement mapping.

### `Kernel` - kernel.c, message.c and the parameters of os.c

The state is the kernel's, in its names:

| Model | Code |
|---|---|
| `Cp`, `Tasks`, `sys_clock`, `clock_state` | the globals; `Cp` is an index, `Idle`, or `NoProc` before the first `Dispatch` |
| `state` | `Process[p].state`, `IdleProcess.state` |
| `pd` | `priority`, `period`, `wcet`, `tons`, `ticks_remaining`, `clockState` of each descriptor |
| `queue` | `system_tasks`, `periodic_tasks`, `rr_tasks` |
| `Messages`, `msg_queue` | the mailbox array and the list through it |
| `req` | the fields of the request block of each task's last call that the kernel reads or writes while that call is blocked, or that a message call returns. The task's `uint16_t` variable that a message points to is named by its pid |
| `out_pid` | the pid the last call returned |
| `abort` | what `utils_abort` blinks; the machine is stopped |

There is one action per request handler - `Kernel_Request_Create`, `_Next`,
`_Terminate`, `_Abort`, `_GetPid` (with `Task_GetArg` and `Now`, which change
nothing else), `_MsgSend`, `_MsgRecv`, `_MsgRply`, `_MsgASend` - one for the
tick, `Kernel_Request_Timer`, and `Kernel_Start` for the boot. Each is the
whole passage through the kernel: `Kernel_Request` makes the caller `READY`, the
handler does its work, and `Dispatch` chooses and marks the next task. The
paths that return without a `Dispatch` (`ReturnToCaller`) leave the caller
`READY` while it runs, as the code does. An internal or a caller's error is
`Abort(code)`; afterwards only `Halted` is enabled.

A handler is atomic because the kernel runs with interrupts disabled and the
tick enters it by the same path (`cswitch.S`). Tasks are unconstrained: the
current task may issue any request with any parameters of the finite sets of
the instance, so every application that uses the API is covered.

What is abstracted: stacks, arguments and task code; `IdleProcess` makes no
request; the timer's registers; all ids `VALID_ID` refuses are one `BadId`; a
refused call's missing result is no result.

A message queue's entry outlives its `Messages[].mask` only until it is sent
again, so that field is kept when the entry is cleared, as in the code.

### `KernelHistory`

`Kernel` with one history variable, the periodic tasks that have begun their
current period. It states what needs that history: periods begin on time.

### `MCKernel`

The finite sets the configurations use.

### `OsTasks` and `Rendezvous` - os.c

`Kernel` ends a handler where the processor goes back to a task. Two stubs do
something more there, as ordinary task code that a tick or another task may come
before: `Msg_Recv` copies the value through the pointer to the *sender's*
variable (`os.c:134`), `Msg_Send` stores the reply into that same variable
(`os.c:122`). `OsTasks` composes `Kernel` with these steps. Its own state is
`variable` (the `uint16_t` each task passes by address), `stub` (the call each
task has not returned from) and `clients` (whom a task owes a reply, which the
application would keep).

`Rendezvous` says what the calls promise with no kernel in sight: a send gives
its value to one receive of the task it names, that task and no other ends it
with a reply, and each call returns what its partner passed; termination loses
the calls that wait for the task. `OsTasks` implements it under the mapping
`CallOf`, which reads the abstract call off the stub, the task's state, its
request block and the message queue.

The tasks of `OsTasks` keep to the protocol: a task replies to a sender whose
message it has received, once, and not to an asynchronous message. The kernel
does not enforce this: `Kernel` and the `messaging` run allow every reply. At a
PERIODIC task's message call the kernel stops the machine; what the stub had
written to the task's stack before is then not recorded (`Stops`), as `Kernel`
does not record the request.

### `Uart` and `ByteQueue` - uart.c

One channel's receive ring with the variables of the source. An action is a
section with interrupts disabled: the interrupt handler, the two sections of
`UART_Async_Receive` (the test of `UART_Available`, then the read), the flush.
One task reads a channel, as in both stations. `dropped` is what the handler logs
when it throws a byte away. `ByteQueue` is the FIFO the
reader relies on; `Uart` implements it with `Waiting`, the ring read from
`_RXRn`. `UART_Init`, the transmitter and `UART_print` are left out, as are
other channels, which share nothing.

### `RemoteRx` - remote/user.cpp `RXData`, Packet.cpp, base/user.cpp `TXData`

The base station sends packets byte by byte; a byte may arrive between any two
calls `RXData` makes; the channel is `ByteQueue`, which `Uart` implements.
`RXData` is one action per UART call with its branch, in the source's order:
every branch that finds no packet ends in the flush, a packet read to the end
skips it. `Checksum` is the Fletcher sum of `updateChecksum` in closed form and
`PacketFrom` the constructor's verdict, so false positives of the checksum are
in the model. `PayloadSize` is 10 in the code and 2 in the run.

### `Game` - remote/user.cpp, move.c and what they use of Roomba.cpp

The periodic tasks `commandRoomba`, `lightSensorRead`, `modeChange` and
`TickArm`, and the globals they share, in their names. The kernel switches
between periodic tasks at ticks only: a tick puts the running one behind those
that are due. A task whose worst case execution time is one tick is stopped
before that, so a turn of `TickArm` is one step; the others are cut before every
access to a variable another task writes. `at` says where each task is,
`loaded` what it has read. `start_game` is an assignment at a time.
`moves_dead` counts the moving commands since death, for one property.

Joysticks, buttons, bumpers, the virtual wall and the light are any value at
every read, a sensor that does not answer included. Speeds are the kind of
movement (`stop`, `backward`, `spin`, `drive`); the dead band and the integer
division `x / 100 * 50`, which lets only a full deflection spin, are kept. The
songs, the LEDs and the light average, which nothing reads, are left out.

### `Arm` - Arm.cpp, utils.c and the tasks `UpdateArm`, `TickArm`

Both joints with `pos`, `speed` and `lastRun`, a clock that wraps at
`ClockMod` (2^16), and a difference taken modulo `DeltaMod` (2^32), as the mix
of `uint16_t Now()` and `uint32_t lastRun` has it. The threshold of a joint at
rest is a division by 0: any value, again and again. `filterSpeed` is the set of
values it returns. Y begins at 0, below `DEG_MIN`, as the constructor has it.

### `TimeTriggered`, `MCBaseSchedule` - Scheduler.cpp and its loop

`Scheduler_Dispatch` is two actions: `Calls`, when a task is ready, and `Idles`.
Both count the elapsed time off every remaining time, as the loop over `tasks`
does, and the lowest ready number runs. `busy` is what the task or the idling
still takes, `TimePasses` the clock. `due` is a history of when each task's
period ends. `Fits` says that one run of every task takes less than the shortest
period. `MCBaseSchedule` has the delays and periods of `Scheduler.h` in the
order of `base.ino`'s `setup`, which `Fits` (`BaseStationFits`).

### `RemoteFeed`, `MCRemoteFeed` - remote.ino `getData`, base.ino `sendPacket`

`TimeTriggered` with the remote station's three tasks, composed with the base
station's sending, a radio and the serial port. The base station has its own
phase; the radio hands bytes on in order, late by at most `MaxBehind` packets.
`getData` is its whole body: a byte is read, and a packet behind it if it is
the magic and enough bytes wait. The loop that discards the rest reads from
`Serial`, so what is behind a packet stays. A byte is known by its place in its
packet; `alike` are the places where the data equals the magic, for a whole
behaviour. `setup` waits a second and more before the loop, with the port open:
the port may be full at first, and have dropped bytes.

## 3. The runs

| Run | Shows | Bounds |
|---|---|---|
| `scheduling` | The structural invariants, the order of the periodic queue, priority of a due periodic task over RR, the tick budget of every task that has one, and that every period begins at its start time or the kernel stops | 3 descriptors, 5 ticks, no messages; SYSTEM, RR, two periodic tasks that can conflict, one with a worst case execution time of 0, and the two creations that abort |
| `messaging` | Queue membership, queued senders blocked, no message for a dead task, no lost wakeup, blocked tasks released by their partner only, SYSTEM priority, idle only when nothing is ready, nobody overtaken in a queue | 3 descriptors, one mask bit with masks empty and full, one payload, the clock stopped |
| `round_robin` | Liveness: if tasks terminate finitely often and only RR tasks are left, each ready one gets the processor again and again | 5 descriptors, the clock wraps at 2 |
| `os_tasks` | The stubs' copies outside the kernel never see another value than the partner's; each received message has one task that may reply to it and a waiting sender; refinement of `Rendezvous` | 3 descriptors, RR and PERIODIC tasks, one full mask, values that name their owner, at most two ticks; two tasks send, all three receive and reply |
| `uart` | The ring is a FIFO, drops only when full, never aborts | a ring of 4, two byte values, no bound on its length of life |
| `remote_rx` | After any drops and flushes, a packet that is taken reads as one that was sent, or as a stray magic and the first bytes of the packet behind it, for these payloads; the counted bytes are there | 3 packets of 6 bytes, a ring of 8, five payloads |
| `kernel_lists` | Head, tail, length and next fields agree after any order of operations, nothing that left a list points into it, and the lists implement the sequences | 4 tasks, 4 messages, up to renaming |
| `game` | A dead robot stops after a bounded retreat; a robot in play has health; repeated hits kill; the laser runs out; the mode changes until death | health 2 of a byte of 4, 2 laser turns, a retreat of 2 |
| `base_schedule` | Every task runs once in each period, none is ever late by a period, the next start is counted from the last; idling ends at the next release; remaining times stay in range over the wrap of `millis()` | the five tasks' real delays and periods, 2 ms to a unit; the display takes 10 to 14 ms; the clock wraps at 512 |
| `remote_feed` | Only whole packets are used until one has been cut or a byte dropped; the reader takes a packet's worth of bytes again and again whatever was lost, and in the end whole packets only if no data looks like the magic and the drops end | packets of 3 bytes, a port of 5, one packet late, one place that may look like the magic |
| `arm` | A joint whose stick is held goes to its end | two joints, 3 degrees, speeds up to 3, a clock that wraps at 8 |
| `claim_periodic_order` | A comment of the code that the code does not keep | section 4 |

**Why the bounds are enough.** Three descriptors give a sender, a receiver and
a third party to preempt, reply out of turn or be created in a freed
descriptor, and fill the table, so that the limit `TooManyTasks` is reached.
Five ticks cover two periods of both periodic tasks that have a budget,
conflicts, overruns and missed starts, and a tick count that has wrapped beside
one that runs down. The tick is not needed for messages beyond the preemption
that requests already give, so that run stops the clock and spends its states on
masks: one bit, absent or present, is all `mask & msg_mask` distinguishes
between two parties, and the empty mask is the odd case (such a message can
never be received). Payloads are only copied, so one is enough. In the
scheduling run the clock starts at 0 and stays short of its wrap, because the
order of the queue does *not* survive the wrap: `claim_periodic_order` shows
that. `RoundRobin.cfg` needs no time but needs the tick for ever, so its clock
wraps at 2 and there is no bound. Its five descriptors are what starvation by
terminations takes (section 4), so that the assumption of finitely many
terminations is what makes the difference.

`FirstComeFirstServed` is the safety half of that promise, for SYSTEM and RR
tasks and with messages, so that the queue is turned past blocked tasks: whoever
is behind a task that waits stays behind it. It makes one exception, which the
code needs: the next in line when the current task terminates. That the turn of
one who waits does come is liveness, and stays with `round_robin`.

In `os_tasks` the point is the preemption between a handler and its stub's
copy; requests of the third task and two ticks give it, to both of the others,
and values that name their owner make a wrong one visible. Task 0, the first
created and created again after it terminates, only serves; the other two send,
also to each other and to themselves. `uart` is finite as it is; a ring of 4 has
every relation of the indices and the flag, and the proofs cover every size. In
`remote_rx` the ring holds one packet and a third, against a little
more than two in the code (32 bytes and 14): enough for a packet to be cut at any byte by an overrun
or a flush and followed by the next. The payloads are two values the checksum
cannot tell apart, one that it can, and two whose packets can be cut at a magic
inside.

`TakenFromOnePacket` is weaker than *only packets that were sent are taken*,
which is false, in three ways the model found. A magic need not be the start of a
packet, and a packet can be cut out of the middle of the stream: the checksum of
the payload `38 C8` is the magic, its packet `FE ED 38 C8 FE ED`. If a flush takes
the first four bytes, and the packet of `B1 D9` follows, RXData takes `FE ED FE ED
B1 D9`, which has the right checksum and was never sent. The same happens if that
packet follows any other of which only the magic is left. The run reaches this;
the property says that a stray magic is taken with nothing but the first bytes
of one packet behind it.

Bytes are compared modulo 255: the checksum sums modulo 255, so `0x00` and `0xFF` -
the two values of a switch (`base/user.cpp:50`) - weigh the same. When exactly a packet's length of bytes
is dropped, the head of one packet and the tail of a later one can join into a
packet with a right checksum, whose switch goes with readings it was never sent
with. The code promises nothing to the contrary, so it is no run of its own.

And it is a statement about the payloads of the run, whose other joins the
checksum can tell from packets. With `PayloadSize = 4` and the payloads
`<<0, 2, 0, 0>>` and `<<1, 0, 1, 1>>` TLC finds `<<0, 2, 0, 1>>` taken: the heads `0, 2, 0` and `1, 0, 1` weigh the
same, so an overrun that drops a packet's length after the third byte joins the
one with the other's rest. With the code's ten bytes and several drops in one
packet, bytes taken from other places pass as well. There is therefore no
theorem of it.

`kernel_lists` needs a list with a front, a middle and an end, and an element
outside. In `game` each counter has a value above, at and below its edge, and
the byte of health wraps. A joint of `arm` has a middle and two ends, speeds on
both sides of the threshold, and a period that does not divide the time a degree
takes. `base_schedule` has the code's own numbers: the display's 12 ms run over
the release of `updateChar` and the sending of a packet, and the wrap falls in
every place of the schedule. In `remote_feed` the unit is 8 ms, the packets are
shorter, and the port holds a packet and most of another, against 64 bytes and
11 in the code: an overflow, a cut at any place and a port that is full at the
start all happen.

**Deadlock.** `ClockBound` stops the tick. When no task can run, or the clock
has reached its bound with the idle process running, nothing is left to
happen, so the runs with a bound say `CHECK_DEADLOCK FALSE`; so does
`remote_rx`, where the base station stops after `MaxPackets`. The other runs have
no bound and check deadlock: there is none.

**Fairness.** `FairSpec` assumes weak fairness of `Kernel_Request_Timer`: it is
a hardware timer whose interrupt stays pending until it is taken, and interrupts
are enabled whenever a task or the idle process runs. Nothing is assumed of
tasks: a task may compute for ever without calling the kernel, and the tick
takes the processor from it. `GameFairSpec` and `ArmSpec` assume that each
periodic task gets its periods (`scheduling` shows that it does, or the kernel
stops), but no hit, shot or button: a step that depends on one is not fair.
`FeedSpec` assumes that the loop and time go on.

**Each property can fail.** Before a definition `X` of a module that models
code there may be an `X_Something`, a plausible mistake in `X`. With `X` replaced by
it, the run named in `PROJECT.json` finds its property violated.

## 4. Where the code and its documentation disagree

`claim_periodic_order` ends in a counterexample - *assuming sorted order*
(`kernel.c:343`). `insert` compares `tons` with the clock without the overflow
state in one of its tests, so near the wrap a due task is put behind one whose
start time has wrapped. It waits while the idle process runs. The task set is
conflict free.

Met while modelling, with no run of their own. In the kernel:

* `Kernel_Request_Terminate` dequeues the current task and then calls
  `Dispatch`, which moves the front of that queue, by then a task that has not
  run, to its end (`kernel.c:466`, against `os.h:55`, *first-come-first-served*).
  With tasks that create and terminate others, one ready RR task can be moved
  away for ever; `round_robin` therefore assumes finitely many terminations, and
  `FirstComeFirstServed` leaves out the next in line at a termination.
* A worst case execution time of 0, which creation accepts and `timings.h:9`
  uses, wraps to 65535 at the first tick (`kernel.c:632`, against `os.h:43`): such
  a task is not stopped. `WithinWcet` says nothing of it and holds of all others
  beside it.
* A periodic task that began on time, was preempted by a SYSTEM task before its
  first tick and is resumed a tick later looks like a missed start and stops the
  kernel (`kernel.c:352`, against `os.h:28`).
* Termination drops the messages for the task and leaves their senders blocked
  for good (`kernel.c:459`, against the comment at `kernel.c:58`).
* A receiver of an asynchronous message gets its sender's pid, where `os.h:88`
  promises none (`kernel.c:612`).
* A refused creation returns pid 0, which is also the first task's
  (`kernel.c:243`, `os.h:45`); the tick ends a SYSTEM task's turn
  (`kernel.c:302`, against `os.h:31`); a preempted RR task goes to the end of its
  queue, not the front (`kernel.c:314`, against `os.h:33`); an offset that goes
  past the wrap does not flip `clockState` (`kernel.c:229`); `Now` returns ticks,
  where `os.h:97` says milliseconds.
* Project 2's `insert` makes a cycle of the new task and its predecessor when it
  inserts in the middle (`src/project2/process.c:144`). Project 3's does not;
  project 2's form is the mistake of `InsertedNext` that `ListsWellFormed` finds.

In the remote station:

* The ring drops single bytes, and Fletcher's sums over ten bytes of payload leave many
  packets alike: `RXData` can take a packet that was never sent, joined from two or
  cut out of the middle at a magic inside (`Packet.cpp:14`, section 3). No document says that it cannot.
* A mode task that finds the robot dead returns, which ends it, and
  `started_before` keeps `start_game` from creating it again
  (`user.cpp:146`, `194`): the next games stay in one mode, against the 60
  seconds of `timings.h:42`. Hence the premise of `ModeChangesUntilDeath`.
* A retreat goes on before the test of *Do not move if dead* (`user.cpp:51`,
  `60`): hence the bound of `DeadStops`.
* A restart between the load and the store of `health -= 1` is overwritten, with
  255 when the load saw 0 (`user.cpp:336`). `AliveHasHealth` and `HitsKill` hold
  nevertheless.
* The arm divides by 0 at rest (`Arm.cpp:57`). After a wrap of the clock a joint
  moves a degree early. `setSpeedX` sets `Y` and `setSpeedY` sets `X`
  (`Arm.h:28`).

In project 1:

* `tts.md:122` says that the buffer of the remote station *will never overflow*.
  `setup` opens the port seconds before the loop begins, and a byte that is left
  over from a cut packet goes at one per period: the port can stay full.
* After a cut, data that equals the magic byte can hold `getData` between two
  packets for ever; the loop that would discard the rest reads the wrong port
  (`remote.ino:91`). `KeepsTaking` is what remains true: the port is emptied by a
  packet's worth of bytes again and again, at the start of a packet or not. Only
  if no data equals the magic, and bytes are not dropped for ever, is what is
  taken in the end always a whole packet.
* `updateChar` is due within the 12 ms of the display, so the tasks' delays do
  not *prevent the tasks from ever overlapping*, as `tts.md` has it;
  `EveryPeriodRuns` shows that no period is lost.

## 5. What is proved

Eight modules hold proofs that tlapm checks: `KernelProofs` and
`KernelClockProofs` of the kernel, `KernelListProofs` of its linked lists,
`OsTaskProofs` of the kernel with the stubs around it, `UartProofs` and `RemoteRxProofs` of the bytes
between the stations, `StationProofs` of `Game` and `Arm`, `ScheduleProofs` of
project 1. They are for every value of the constants that satisfies the
assumptions below: those of the kernel for every number of descriptors, clock
modulus, set of masks, payloads and creation requests.

| Theorem | Property |
|---|---|
| *`KernelProofs`* | |
| `InductiveInvariant` | `Spec => []IInv` |
| `TypeCorrect` | `TypeOK` |
| `QueuesCorrect` | `QueuesHoldLiveTasks`: a task is in the queue of its level, once, iff it is live |
| `CurrentAtFront` | `RunningAtFront` |
| `OneRunning` | `OnlyCpRuns` |
| `CountCorrect` | `TasksCounted` |
| `InternalChecksHold` | `NoInternalAbort`: three of the kernel's abort codes are unreachable |
| `SendersBlocked` | `QueuedSendersBlocked` |
| *`KernelProofs`, the calls* | |
| `CallsInvariant` | `Spec => []CallsInv` |
| `PeriodicNeverBlocks` | `PeriodicNotBlocked` |
| `MessagesForTheLiving` | `NoMessageForDead` |
| `NoLostWakeup` | `NoMissedMessage` |
| `SystemFirst` | `SystemPreempts` |
| `IdleLast` | `IdleOnlyWhenNothingReady` |
| `PartnersUnblock` | `UnblockedByPartner`, an action property |
| *`KernelClockProofs`* | |
| `NoneOvertaken` | `FirstComeFirstServed`, an action property: no SYSTEM or RR task that waits is overtaken |
| `PeriodsOnTime` | `PeriodsBeginOnTime`, an action property, for every clock modulus and across every wrap |
| `TicksWithinWcet` | `WithinWcet`, for every set of creation requests, those with a wcet of 0 included |
| `OrderInvariant` | `OrderInv /\ PeriodicPreempts`, as long as no start time wraps |
| `QueueInOrder` | `PeriodicOrder`, as long as no start time wraps |
| `PeriodicFirst` | `PeriodicPreempts`, as long as no start time wraps |
| *`KernelListProofs`* | |
| `ListsInvariant` | `ListSpec => []ListInv` |
| `ListsCorrect` | `ListsWellFormed`, for every number of descriptors and messages |
| `ListsRefine` | `ListsAreQueues`: the linked lists implement `KernelQueues` |
| *`OsTaskProofs`* | |
| `OsInvariant` | `OsSpec => []OsInv` |
| `OneServerEach` | `OneServer` |
| `StubsKeepRendezvous` | `KeepsRendezvous`: `OsTasks` implements `Rendezvous` |
| *`UartProofs`, `RemoteRxProofs`* | |
| `UartNeverAborts` | `NoUartError`, for every size of the ring |
| `ChannelIsByteQueue` | `IsByteQueue`: the ring implements `ByteQueue` |
| `DropsNothingElse` | `DropsOnlyWhenFull` |
| `IndicesInRange` | `TypeOK` of `Uart`, for every size of the ring; no run repeats it |
| `ReadsWhatIsThere` | `RestIsThere`, for every capacity, size of a packet, payload and loss of bytes |
| *`StationProofs`* | |
| `GameInvariant` | `GameSpec => []GameInv` |
| `GameTypesCorrect` | `GameTypeOK` |
| `DeadRobotStops` | `DeadStops`, for every length of the retreat |
| `LivingHaveHealth` | `AliveHasHealth`, for every width and start of `health` |
| `ArmTypeCorrect` | `ArmTypeOK`: the joints stay within their limits, whatever the undefined division gives |
| *`ScheduleProofs`* | |
| `SchedInvariant` | `SchedSpec => []SchedInv` |
| `IdlesUntilRelease` | `SleepsToNextRelease`, for every schedule, overrun and width of the clock |
| `ScheduleTypeCorrect` | `SchedTypeOK`, in every schedule that `Fits` |
| `PeriodsKept` | `EveryPeriodRuns`, in every schedule that `Fits`, for every overrun and width of the clock |
| `PacketsAreWhole` | `PacketsWhole`, for every size of a packet and of the port, delay of the radio and schedule |

**The kernel.** `IInv` is `SchedInv /\ CallInv`. `SchedInv` is about
the tasks and their queues: typing, `QueuesHoldLiveTasks`, `RunningAtFront`,
`OnlyCpRuns`, `TasksCounted`, `NoInternalAbort`. `CallInv` is about calls in
progress: typing of messages and requests, and `QueuedSendersBlocked`. Neither
is inductive alone. A receive writes `REPLY_BLOCK` into the state of the
message's sender; without `CallInv` that sender could be dead, and the write
would bring it to life outside every queue, or be the current task. A
termination would leave a queued message behind if the current task had one;
that it is not blocked comes from `SchedInv`. `TasksCounted` needs the queues'
correctness, and `NoInternalAbort` needs all of it: the count against the
number of descriptors, and the running task at the front.

The first part of `KernelProofs` shows that each queue operation keeps a
queue a *list of* the same set of tasks, `Lists(q, T)`: no duplicates, exactly
the members of `T`; or one more or one fewer. `DispatchKeeps` is the heart of
the rest: whatever handler precedes it, if the handler leaves every
live task filed in its queue, nobody `RUNNING`, and the idle process `READY`,
then `Dispatch` ends with one `RUNNING` task, at the front of its queue.
One lemma per handler establishes those premises, and `StepKeeps` collects
them.

**Calls and levels.** `CallsInv` is `IInv /\ PartnerInv /\ ChoiceInv`.
`PartnerInv` says that no PERIODIC task is blocked, that messages are for the
living and that no receiver misses one; `ChoiceInv` that no lower level has the
processor while a higher one is ready. They need each other at `Dispatch`:
which task it takes depends on what is `READY` behind the fronts, and it takes
the front of the PERIODIC queue without a look at its state. A handler that
returns without `Dispatch` must leave the current task the right choice: it made
nobody ready. Each handler is shown to unblock only the partner it names, which
is `UnblockedByPartner` in the same pass.

**First come, first served.** A queue changes in four ways: a task comes to its
end, its front task leaves or goes to the end, or it is turned to its first
`READY` task. Each keeps the order of what is behind `p` if `p` is not at the front
(`AheadAppended`, `AheadBehindHead`, `AheadMoved`) or is itself `READY`
(`AheadTurned`: the turn stops at `p` at the latest). `RunningAtFront` gives the
premise: what `Dispatch` moves is the current task, which does not wait. Only after
a termination is there another task at the front, and it is the next in line.

**Time.** Every step of the kernel is first brought into one of few forms
(`Stays`, `Plain`, a creation, a termination, `Task_Next`, the tick): what it
does to the PERIODIC tasks. `PeriodsOnTime` adds `BeginInv`: the tasks in the
history `started` are PERIODIC, all others have their whole budget, and the
current one has started. `Dispatch` stops the kernel unless a task with its
whole budget starts at `tons`, and that test is exact in every clock modulus.

`OrderInv` is what keeps the queue sorted while tasks rotate: the current task
is due, so is every task that has used some of its budget, and neither the clock
nor a start time has wrapped. `insert` is then a merge at the first place its walk stops at
(`InsertStops`), the rotation of the front passes only due tasks, and the tick
can only make more of them due. The premise `NoWrap` says that the clock, and
the clock with any offset or period added, stays below its modulus: the first
65536 ticks of the machine less a period, about eleven minutes. It holds in
`Scheduling.cfg`, and it is necessary, as `claim_periodic_order` shows.

**The lists.** The properties follow `next` from each head, and what a walk meets
after a pointer has been changed cannot be said without induction along it.
`ListInv` names the sequence behind each list instead: `Stands(list, nx, q)` is
that head, tail and length are those of `q` and each element's `next` is its
successor in `q`; the queues have no element in common, and what is outside
points to nothing. That the recursive `Walk` then *is* `q` followed by `NULL`
(`WalkIs`) takes no induction either: `q` satisfies its equation, and two
solutions would differ at a least step. There is one lemma for an element that
comes to the end (`AppendStands`), one for an element that comes anywhere
(`InsertStands`), one for an element that goes (`RemoveStands`), and a lemma
for each function of the code that names its case: `deque` and
`msg_find_receiver` both take an element from its place, with 1 for the front.
That the lists share one `next` field is in `OneQueue`: an operation changes the
fields of its own list and of free tasks only.

**The stubs.** `OsInv` is `CallsInv` and `StubInv`, of three parts for each task:
`InCall`, it is inside the stub of the call its state belongs to, and a dead
task owes nothing; `ServedOnce`, at most one task has its message or is about to
return with it, and then it waits for the reply; `NamesSender`, `Msg_Recv`
returns the pid of the task whose variable it is about to read. `ServedOnce` is
what makes the copy through the sender's pointer safe: that variable changes
only when its owner leaves `Msg_Send`, for which the reader would have to reply
first. The refinement is one lemma per handler, which says how `CallOf` changes
for the tasks it concerns and that it stays for the others; creation, tick and
the calls without messages are stutters.

**The ring buffer.** `UartProofs` has its own `IInv`: the write index is at or
behind the read index if the wrapped flag is set and at or ahead of it if not,
and a task past its test has a byte to read. The last part is what the gap
between the two sections of `UART_Async_Receive` needs: the interrupt can only
add to what was there. The refinement compares the sequence `Waiting` before and
after each step byte by byte; `Slot`, the place of the k-th byte, is linear
arithmetic because `%` is only applied below twice the size. `RxInv` of
`RemoteRxProofs` says how many bytes `RXData` holds at each place, and at the
reads that it holds and can take a packet's worth: only it takes bytes, so the
count may be used after it was made.

**The game.** `DeadInv` counts what is left after death: the commands given so
far and `MovesLeft`, the one under way and the rest of a retreat, are at most
one retreat and one more. `HealthInv` is `AliveHasHealth` outside the turn of
`lightSensorRead` that took the last of the health and goes on to test it, and
outside the part of `start_game` before its reset.

**Project 1.** `SchedInv` ties the remaining times to the times that are due,
modulo the clock: what is counted off is what `millis()` went on by, so the
relation survives overruns and wraps. An idle time is the least of the remaining
ones, so it ends at a release and before every other.

`PeriodsKept` is about the processor's load. Between two times at which nothing is
ready lies a busy period; if one run of every task fits into the shortest period
(`Fits`), each task runs at most once in it, and it ends before any is due again.
`FitInv` says so of the rest of it: there are a set `waiting` of the tasks that
have not run and an `age` with `age` and the longest runs of `waiting` together
no more than the longest runs of all, and a task is late by at most `age`, one
that has run by that less its period. A call takes the task out of `waiting`, an
idle time ends the busy period and puts all of them back. `Fits` is a hypothesis of
the two theorems and not an assumption on the constants. TLC evaluates it for the
base station's schedule (`BaseStationFits`), and it cannot be weakened by one
unit: three tasks of period 4 that take 2, 2 and no time lose a period. The sums
of the longest runs are a recursive function on the sets of tasks, `Turns`, whose
equations are shown to have a solution, and additive, by cardinality.

`FeedInv` says that the
bytes in the port are a stretch of the stream that begins with a packet, until
`disturbed`.

**Assumptions.** `MaxThreadAssumption` (at least one descriptor),
`TickAssumption` (a modulus of at least 2), `MaskAssumption`, `DataAssumption`
and `CreateAssumption` (requests have the types of the stubs' parameters).
They are declared in `Kernel` and TLC evaluates them in every run that extends
it. `TaskAssumption` and `SlotAssumption`: there are finitely many descriptors
and messages, and `NULL` is none of them. `Uart` assumes a ring of at least one byte (`SizeAssumption`) and that 0, the
initial content, is a byte (`ByteAssumption`). `PayloadSizeAssumption` and `PayloadAssumption`: a payload
is that many bytes. `GameAssumption`: health begins above 0 and fits its variable.
`ArmAssumption` orders the limits and says that the clock is longer than the
longest threshold. `ScheduleAssumption`: periods and delays are at most half the
clock; `Fits` is a hypothesis of `ScheduleTypeCorrect` and `PeriodsKept` alone; `FeedAssumption`: a packet is shorter than the base station's period.

**Model-checked only.** Liveness (`RRServedWithoutTermination`, `HitsKill`,
`LaserRunsOut`, `ModeChangesUntilDeath`, `HeldStickMoves`, `KeepsTaking`), which
is out of the prover's reach. `TakenFromOnePacket`: it is true of the payloads of the run
and not of every one (section 3), and what the sums of a payload make of it takes
induction over data.

The proofs avoid induction over sequences: the first ready task, the first
matching message, the place of an insertion and the step at which two walks
differ are obtained as least elements of a set of indices (`LeastNat`,
`FirstIndex`, `FirstExists`), from the well-foundedness of `<` on
the naturals, and what holds of every set of tasks from a counterexample with
the fewest elements; facts about `%` from the uniqueness of quotient and remainder
(`ModIs`).

## 6. What is not modelled, and the plan

Parts that could still be modelled, in this order:

1. An abstract scheduler (three sets of ready tasks, no queues), with `Kernel`
   shown to implement it.
2. The stations on the kernel's clock: whether `updatePacket` can come between
   the bytes `TXData` sends, whether a command's bytes to the Roomba are cut by
   the song of `die` or `modeChange`.
3. Project 2's kernel, as far as project 3's does not replace it.

**Not going to be modelled.** `cswitch.S` (register saves; it is the atomicity of
an action), what the Roomba does with its command bytes, motor PWM, analogue
filters, the LCD and the keypad's letter, the tests and the website: pure input
and output, or no state to get wrong.

# Verification of the stm32f407-netbox firmware

TLA+ models of the concurrent core of this repository, TLC runs on small
instances, and TLAPS proofs. `PROJECT.json` maps every definition to the lines
it models and lists runs, mutants, findings, hazards and theorems.

## The system

The repository is an RT-Thread 4.0.2 board support package for an STM32F407
with a SIM800C modem. Its own code is small (`applications/beep.c`,
`applications/main.c`, `board/board.c`); what makes it work, and what is hard to
get right, is the kernel and the middleware it carries.

| Part | State | Operations | Used by / talks to | What is hard |
|---|---|---|---|---|
| kernel mailbox (`ipc.c`) | ring of mails, offsets, lists of waiting senders and receivers | send (with or without waiting, from interrupts too), receive, reset, create, delete | song player; thread timers; scheduler | waiters overtaken between wake-up and running, timeouts that race with wake-ups, reset, wrap-around |
| song player (`beep.c`) | selected song, length, position, PWM channel | play, switch, stop | mailbox `beep_mbox`; shell and application send to it | commands arriving at any moment, a full mailbox, failures at start |
| AT client (`at_client.c`) | `resp`, `resp_status`, semaphores `resp_notice` and `rx_notice`, receive line | execute a command, wait for the connection, parse lines, receive interrupt | UART driver, modem, AT sockets and the SIM800C driver | answers late or never, timeouts, three contexts sharing fields without a lock |
| threads and scheduler | ready lists by priority, thread status | start, suspend, resume, change priority, delay | everything | preemption, priority inheritance |
| semaphore, mutex, event, message queue (`ipc.c`) | value, owner, waiting lists | take, release, send, receive | drivers, AT, file system | priority inheritance, overflow, wake-up by others |
| timers (`timer.c`) | sorted lists of timers, soft timer thread | start, stop, check | delays and timeouts | tick wrap-around, callbacks run unlocked |
| work queue, ring buffer, serial device | work lists, buffers with mirrored indices | submit, cancel, put, get | drivers | test-and-suspend in two steps, interrupt producers |
| AT sockets, SIM800C driver, SAL | socket list, packet lists, events | open, connect, send, receive, close, URC callbacks | AT client | descriptors that are positions in a list, callbacks after close |
| EasyFlash, FAL, DFS | flash sectors, partitions | set, get, collect, recover | `fs_init` | power loss between two writes (initialisation of EasyFlash is commented out in `main.c`) |

`main` is empty; `fs_init` and `vcom_init` run once at start. The rest of the
tree (CubeMX output, mbedtls, lwIP, cJSON, libmodbus, iotkit, HAL drivers) is
generated or third-party code and is not modelled.

What makes the modelled parts correct: a mailbox hands each mail to one
receiver, in order, and never leaves a mail (or a slot) beside a thread that
sleeps for it; the player sounds the notes that were asked for and stops when
told to; a command of the AT client returns, with its own answer or an error; a
mutex has one owner, who knows it, runs at least as urgently as its waiters, and
has its own priority back afterwards; a timer is called when it is due, also
when the tick counter wraps around, and not after it was stopped; a descriptor
finds its own socket, which delivers the bytes that arrived, in order, to a
receiver that does not sleep on them; an environment variable keeps the value
of the last call that set it, whenever power is lost.

## Modules

| Module | Models |
|---|---|
| `IpcList` | waiting lists of IPC objects: `rt_ipc_list_suspend`, `rt_list_remove` |
| `Mailbox` | `rt_mb_send_wait`, `rt_mb_send`, `rt_mb_recv`, `rt_mb_control`, and of the kernel `rt_tick_increase`, `rt_thread_timeout`, `rt_thread_resume`, `rt_thread_control` |
| `BoundedFifo` | abstract specification: a bounded queue that hands each mail to one receiver |
| `MailboxRefinement` | the queue as a function of the ring; `ImplementsFifo` |
| `Mutex` | `rt_mutex_take`, `rt_mutex_release`, priority inheritance, timeouts of waiters |
| `BeepTone` | songs, note decoding, PWM setting and tick conversion of `beep.c` as operators |
| `BeepSong` | the song thread and its senders; the mailbox is an instance of `BoundedFifo` |
| `AtClient` | callers, parser thread and receive interrupt of the AT client, the modem |
| `Timer` | `rt_timer_start`, `_stop`, `_control`, `_detach`, the tick interrupt, the timer thread |
| `AtSocket` | `at_socket`, `at_connect`, `at_recvfrom`, `at_closesocket`, the callbacks for data and CLOSED, of the SIM800C driver its results |
| `EasyFlash` | `ef_set_env_blob`, `ef_get_env_blob`, `ef_del_env`, garbage collection, `ef_load_env`, loss of power |
| `IpcListProofs`, `MailboxProofs`, `MutexProofs`, `AtClientProofs`, `BeepSongProofs`, `AtSocketProofs`, `TimerProofs`, `TimerOrderProofs` | theorems about the modules they extend |
| `MC...` | instances for TLC |

### Mailbox

A step is a section that the code runs with interrupts disabled, or the work of
the tick interrupt for one timer. `stat`, `error` and the two lists are the
fields of that name; `call[t]` is the stack frame of a thread inside a mailbox
call (its mail, its `timeout`, the ticks since it last suspended itself). A
thread that has been resumed but has not run is visible as `stat = "ready"`
with a call in progress: `SendResumed` and `RecvResumed` are what it does next
(return the error, try again, suspend again with the time that is left). Any
ready thread may take the next step, which includes every schedule of the
priority scheduler. `IsrSend` is a send from an interrupt handler;
`rt_thread_resume` is a resumption from outside such as that of `vcom_init`.
The threads may own mutexes: `InheritPriority` is what `rt_mutex_take` of another
thread does to the owner, who may be asleep in the mailbox, and
`GiveBackPriority` what the owner's `rt_mutex_release` does. `rt_thread_control`
changes the priority of a sleeper without moving it in its list; `raised`
(history) holds those sleepers, and `PrioritySelected` promises them nothing.
Expired timers are served before threads run again (`Due`), because the tick
interrupt walks the whole timer list.

Absolute ticks are replaced by ticks since an event, which stop at the
timeout; the wrap-around of the tick counter is therefore not part of this
module. `rt_mb_detach` and `rt_mb_delete` are not modelled.

### Mutex

Steps and schedules are those of `Mailbox`. `rt_mutex_take` has four outcomes
(the owner takes it again, it is free, refused, wait) and a continuation
`TakeResumed`, which is what the caller does when it runs again: it returns
`thread->error`, or `RT_EOK` because the release already made it the owner.
`rt_mutex_release` refuses strangers, decrements `hold`, frees the mutex, or
hands it to the first waiter. `Inherit` and `Restore` are the two calls of
`rt_thread_control`; like the code they change the owner's priority only, do
not follow chains of owners, and do not move a waiter in its list. Signals are
not configured, so `-RT_EINTR` does not occur. `taken`, `outer`, `nested` and
`alone` are history: what the callers were told, and in which order they
nested. `rt_mutex_detach`, `rt_mutex_delete` and a resumption from outside are
not modelled. After such a resumption the caller would return `RT_EOK` without
being the owner; the only one in this repository is that of `vcom_init` at
start.

### Song player

`pc` names the places where the thread can be held up: before each mailbox
operation and at the two delays of a note. The songs are those of `beep.c`,
end mark included. Sending to a full mailbox changes nothing (the result is
ignored). The thread has priority 2 and every sender is less urgent, so it has
created its mailbox, or returned, before the first command. `late` is a history
variable for `StopIsPrompt`.

`BeepTone` leaves `freq_tab_new` undefined for the tones and lengths whose
table reads would lie outside the tables (`DecodableTone`, `DecodableLength`);
the songs contain none (`PlaysLastCommand` would fail to evaluate).

### AT client

`client->lock` admits one call at a time (module `Mutex`), so the model has one
call. `client_parser` handles one line in one step: it
has priority 9, its callers are less urgent, so no caller runs within it. The
converse is possible: the parser may run between any two steps of a call, and
the interrupt between any two steps of either. Each assignment of
`at_obj_exec_cmd` that the parser can observe is in a step of its own.
Reading the UART is modelled line by line; the three steps of
`at_client_getchar` (read nothing, reset `rx_notice`, take it) are kept apart.
The modem is external: it answers each command with one of `Answers`, the empty
one (no answer) included, after any delay, and sends unsolicited lines.
`ended`, `dropped`, `touched` and `spoiled` are history. The model allows
schedules in which a caller runs while the parser is ready; every
counterexample below also exists when callers only run while the parser sleeps.

### Timer

Three actors: the tick interrupt (`Interrupt`), the timer thread
(`TimerThread`) and a caller of `rt_timer_*` (`Caller`). The interrupt is not
interrupted. The timer thread has priority 4 and the threads that start timers
are less urgent, so the caller moves only while the timer thread is suspended;
the tick may advance between any two steps of a thread. The thread timer of the
timer thread is one of the hard timers, so that its sleep, its wake-up by
`rt_timer_start` and `rt_thread_timeout` are part of the model. Ticks and
deadlines are numbers modulo `TickMod` as in the code; `left` is history: the
deadline as an integer distance, against which order and punctuality are
stated. The caller's `rt_timer_start` is its first section (`StartFirst`), the
computation of the deadline (`StartTime`), the section that links (`StartSecond`)
and the wake-up of the timer thread; `rt_timer_stop` is three steps, and the walk
of `rt_soft_timer_check` keeps the saved next node. Timeout functions do what
`CallbackOps` says, to any timer of their kind, the one whose start or stop they
interrupted included. `rt_timer_start` links without removing first, and
`rt_timer_stop` clears `ACTIVATED` after the section that removes: if the timer
was linked in between, the caller writes to a linked timer (`CallerWrites`), and
`crossed` (history) says so. The properties hold until then.

Left out: a timeout function acts on timers of its own kind only; one of a hard
timer stops timers but starts none (the hard timers of the firmware are thread
timers); a start in the timer thread, between whose sections only ticks can come,
has its deadline in the first one; reading and writing a timer's flags, in
`rt_timer_control` and where `rt_timer_stop` clears one, is one step.

### AT sockets

A slot is an element of `device->sockets[]`; `_socket_list` holds the slots that
are linked, and a descriptor is a position in it. The parser of the AT client
has priority 9 and the threads that use sockets are less urgent, so a callback
is one step; a thread's call ends a step wherever the parser can change what it
reads next: before and after the driver's connect, between the look at the list
and the wait, between the wake-up and the look at the state. A packet may be lost
on its way: `urc_recv_func` drops it if it finds no memory or the data is not
complete in time (`DataArrives` changes nothing), and `at_recvpkt_put` may find
none, after which the notice is given all the same (`at_recv_notice_cb`). Bytes
are numbered as they are queued (`stored`). `at_recvpkt_get` looks for the next
packet in the node it has just freed; if that memory was allocated and zeroed in
between (`rt_calloc`), the walk ends there, after the `k`-th packet. Any other
content of the freed node is a wild pointer and is not modelled. `tidy` (sockets were closed in the reverse order of their opening,
none leaked) and `clean` (no CLOSED came between the modem's connection and the
end of `at_connect`, and the slot's old connection is gone) are history, and
name what the code needs of its users and of the modem: without them the
properties fail, as "Findings" says. `at_shutdown`, and `at_bind` where it
closes, do what `at_closesocket` does.

### EasyFlash

A call holds the port's lock, so it is one step: an operator on a machine `m`
that holds the flash, the variables in RAM, and `images`, the set of all states
of the flash the call went through, one per write. `LosesPower` leaves one of
them and clears the RAM. `ef_load_env` is three actions (headers and interrupted
collections, search, collection and retry), each of which may lose power again.
A node has its four writes, a format has two (erase, header). A single write is
not torn. `may[k]` is history: the values the last call that returned, or was
interrupted, allows; after a recovery it is narrowed to the value that was
found, so that a value may not come back later. The RAM cache of nodes is
modelled, with at most as many keys as it has places; the cache of the sectors'
ends agrees with the flash and is left out. `Init` is the flash after the first
format, in sectors of one of the sizes `Spaces`; `space` never changes.

## Runs

| Run | Instance | Shows |
|---|---|---|
| `mailbox` | 3 threads, 1 mail, 2 slots, priority lists, one inherited priority, timeouts 0, finite and for ever | `TypeOK`, `NoLostWakeup`, `ListsMatchStates`, `DeadlineKept`, `PrioritySelected` |
| `mailbox_fifo` | 2 threads, 2 mails, 2 slots, FIFO lists, waits of one tick and for ever, fair | `RingConsistent`; refinement of `BoundedFifo` (`ImplementsFifo`); `TimedCallReturns`, `MailIsFetched` |
| `mutex` | 3 threads of priorities 2, 9, 20, 2 mutexes taken up to twice each, priority lists | `TypeOK`, `OwnerKnows`, `NoWaiterForgotten`, `PriorityRestored`, `WaitersInherited` |
| `beep_song` | the real songs, mailbox of 4, commands 0, 1, 2, faults, fair; all 60 tunings, all tones and lengths of the format | `PlaysLastCommand`, `StopIsPrompt`, `NotesInOrder`, `StopSilences`; `InTune`, `InTime` |
| `at_client` | 2 commands, 6 kinds of answer, responses of 2 lines, 1 unsolicited line, fair | `TypeOK`, `AtMostOneStaleNotice`, `OwnAnswer`, `ErrorHasCause`, `CallReturns` |
| `at_client_stale_notice`, `at_client_rx_lost` | 3 commands | violations, see Findings |
| `timer` | 1 hard timer, 2 soft timers, the thread timer, 16 ticks; timeout functions that stop their own timer or start another, the caller's included | `Sorted`, `OnTime`, `SleepCovered`, `TimesOutSuspended`, `StopHolds` |
| `timer_stop` | the same with timeout functions that stop another timer | violation of `StopHolds` |
| `at_socket` | 2 threads, 2 slots, 3 bytes in packets of 1 and 2, lost packets, buffers of 2, fair | `OwnSocket`, `StreamInOrder`, `NoSleepOnData`, `ZeroMeansClosed`, `RecvEnds` |
| `at_socket_descriptor` | 2 threads, 2 slots | violation of `DescriptorIsNumber` |
| `easyflash` | 2 sectors of 6 or of 12 units, 2 keys with nodes of 2 or 3 and of 2, up to 2 losses of power, fair | `OneCopy`, `Durable`, `KeepsReserve`, `LoadEnds` |

Bounds. Two slots and three threads let a waiter be overtaken by one thread
while another one sleeps behind it, on either side of a full or empty ring;
two different mails let a wrong order show across a wrap-around; threads of
equal role are symmetric; the one inherited priority is that of the most urgent
thread, so a waiter may be raised past the other two. Three priorities and two mutexes are the smallest
instance with a chain of owners, a hand-over past a second waiter, and a release
out of order; the mutexes are symmetric, the threads are not. Four commands are the real
capacity of `beep_mbox`, and the songs have their real lengths. Two commands
are enough for an answer or a notice to reach the next call (the proofs cover
any number); a response of two lines is the smallest in which a
line is stored, one is dropped and the end still comes.

`timer`: a `TickMod` of 16 lets the tick wrap around many times while deadlines
lie on both sides of the wrap; `MaxLag` bounds the successive ticks that find a
thread at work (the code has no such bound; with none, no timer is punctual).
Timeouts are shorter than half the range, as the assertion of `rt_timer_start`
asks, by as much as a timer may be late (`Longest`): that comparison is made with
timers that have expired and still wait. The constraint `Claimed` ends behaviours in which the timer thread took
a deadline of `RT_TICK_MAX` for "no timer", or a call crossed with a start of its
timer (see Findings): the properties claim nothing of them. `at_socket`: three
bytes in packets of one and two, read in buffers of two, make a buffer end
inside a packet, at its end, and span two; notices of lost packets are given up to a
count of `MaxNotice`; the second slot carries no data, and is there
for descriptors, reuse and the interleaving of opening and closing. The
constraint `Tidy` ends behaviours of which nothing is claimed. `easyflash`: two
sectors are the `ENV_AREA_SIZE` of `ef_cfg.h`. `Durable`, `OneCopy` and
`KeepsReserve` say how much room they need (`Roomy`): all nodes at their longest,
and one unfinished copy for each loss of power so far. Twelve units are one more
than that after two losses, six one more than that before the first; a collection
comes every few updates. In six units the trap that `LoadEnds` excepts is
reached, after one loss and after two. Two losses of power reach an interrupted
recovery of an interrupted call. The four properties also hold with every size
from 5 to 11, and with nodes of 2 and 3, or of 4, 2 and 3; with `>=` in place of
`>` in `Roomy`, `Durable` fails with 8 units, nodes of 2 and 3, and one loss.

Deadlock checking is off where the system may stop: in `beep_song` a failed
assertion stops it, in the AT client runs the bound on commands does, in `mutex`
callers that wait for each other's mutexes for ever stop themselves, and in
`at_socket_descriptor` a thread whose descriptor finds no socket.

Fairness. `mailbox_fifo` assumes that ticks keep coming, that expired timers
are served, and that a ready thread inside a call eventually runs: the more
urgent threads of the board all block. Strong fairness is needed because the
tick interrupt may keep postponing a thread's step. `beep_song` assumes
that the song thread, the most urgent one, runs when its delay or wait is over.
`at_client` assumes that ready threads run and timers expire, and nothing
of the modem. `at_socket` assumes that a thread inside a call goes on when it is
not blocked, and that the driver's connect and close return (their waits have
timeouts). `easyflash` assumes that `ef_load_env` runs on while the
system is not up; it is stated on `phase` and `losses`, which each of its steps
changes, because TLC would otherwise run the whole recovery to evaluate
`ENABLED`.

## Findings

Shown by a run:

* An answer that arrives after the timeout of its command but before
  `client->resp` is cleared leaves a notice behind, and the next command returns
  success without an answer (`at_client_stale_notice`).
* A receive interrupt between the empty read and the reset of `rx_notice` is
  forgotten; the parser sleeps on received data (`at_client_rx_lost`).
* `rt_soft_timer_check` saves the next node before it calls a timeout function;
  if the function stops that timer, it is called nevertheless, again and again
  (`timer_stop`).
* A socket descriptor is the position in the list when the socket was opened;
  after an earlier socket is closed it finds another socket or none
  (`at_socket_descriptor`).

Reached by the models with other constants; no run keeps them:

* `beep_mbox` stays `RT_NULL` when the song thread fails at start, and the next
  command fails the assertion of `rt_mb_send_wait` (`SendAsserts`).
* `at_client_obj_wait_connect` frees its response object while the parser can
  still write to it (`FreedIsUntouched` does not hold).
* EasyFlash does not start again (`Trapped`; without it `LoadEnds` fails in run
  `easyflash`). Power was lost between `PRE_DELETE` and the dirty mark of the
  sector, and there is no room for the node: `move_env` fails, no sector is dirty,
  `gc_collect` finds nothing, and `ef_load_env` repeats this for ever. One loss is
  enough where the new node is shorter than the old one, because `set_env` reserves
  room for the new one only, or where the set is about to take the last empty
  sector (see below). Otherwise, with values of one length, two losses are: with 8 units
  and nodes of 2 and 3, power is lost in an update of the first key, and again
  when the recovery has marked the sector `FULL`, before it copies the node.
* EasyFlash gives away its last empty sector (`KeepsReserve` without `Roomy`): a set
  that returns `EF_ENV_FULL` leaves `gc_request` set, and the next one takes the
  sector kept for the collection. The update after that collects a sector whose
  nodes cannot be moved; `do_gc` formats it all the same and a value is lost
  (`Durable`, with `space = 5`, three keys with nodes of 2, and no loss of power).
* Each loss of power in a collection leaves an unfinished node in the target; if the
  rest does not fit, `do_gc` formats the source (`Durable` without `Roomy`). A
  recovery that finds neither room nor an empty sector asks for no collection; it
  ends, and the value is gone.

Read in the code while modelling:

* A soft timer whose deadline is exactly `RT_TICK_MAX` is taken for "no timer":
  the timer thread suspends itself until another timer is started in front of it
  (`missed`). A one-shot timer that its own timeout function starts again is
  running with its flag cleared, and `rt_timer_stop` refuses it.
* A timeout function that starts a timer while `rt_timer_start` of the same timer
  is between `timer.c:315` and `327` links it; `rt_timer_start` then overwrites
  the deadline of a timer that is in the list, links it a second time, and the
  list is knotted. Between `timer.c:441` and `444` of `rt_timer_stop` the same
  start leaves the timer running with `ACTIVATED` cleared: it is called although
  it was stopped, and the next `rt_timer_stop` refuses it (`crossed`; without it in
  their premises, `Sorted`, `OnTime` and `StopHolds` fail).
* A mutex owner that waits in a mailbox, or for another mutex, keeps its place in
  the list when its priority is raised, so a waiter may be behind less urgent ones
  (`raised`).
* AT sockets: CLOSED that arrives before `at_connect` has set its callbacks or
  the state is dropped or overwritten, and a receiver waits for ever; a slot is
  reused while its old connection lives, and gets its data (both excluded by
  `clean`); `alloc_socket_by_device` that fails for memory loses the slot
  (excluded by `tidy`). A packet that finds no memory, or is not complete in time,
  is lost in the middle of a stream without any sign to the receiver;
  `at_recv_notice_cb` ignores the result of `at_recvpkt_put`, so the buffer of
  such a packet is never freed, and the bytes that come after a timeout are read
  as lines. `at_recvpkt_get` and `at_recvpkt_all_delete` read the next pointer of
  a node they have freed. Data and CLOSED that arrive together make `at_recvfrom`
  return 0 with the data still queued; `MSG_DONTWAIT` returns 0 when there is no
  data. The event bits of the SIM800C driver are shared by its sockets.
* EasyFlash: `ef_load_env` holds the lock when it calls `ef_env_set_default`,
  which takes the same semaphore again: on a blank flash the start blocks for
  ever. `move_env` in the recovery passes `NULL` to `strlen` (the model leaves
  the cache alone). With more than two sectors the search of the recovery may
  end before a `PRE_DELETE` node.

Not counted as findings, because no document says otherwise: a thread that
releases the outer of two mutexes first may keep a priority it inherited
(`original_priority` of the inner one is that priority), which is why
`PriorityRestored` asks for `nested`; a mutex with `RT_IPC_FLAG_FIFO`, such as
`client->lock`, may be handed to a slow waiter while an urgent one stays behind
it, and the new owner does not inherit (hence the condition of
`WaitersInherited`); a song that is
switched to starts with its second note (`index = 0` is followed by the
increment of the loop), and a stop discards the commands queued behind it. A
response that does not fit is returned as success, because the final `OK`
overwrites `AT_RESP_BUFF_FULL`.

## Proofs

Assumptions: `MailboxAssumption` (a finite set of threads, a capacity of at
least one, natural priorities, timeouts that are natural or
`RT_WAITING_FOREVER`, an empty slot that is no mail). For every such instance:

* `TypeCorrect`, `RingIsConsistent`, `ListsAgreeWithStates`, `NoWakeupIsLost`,
  `DeadlinesAreKept`, `MostUrgentFirst`: the safety properties of the run
  `mailbox` and the ring invariant.
* `MailboxImplementsFifo`: every step of the mailbox is a step of `BoundedFifo`
  or leaves the queue alone.

The argument is one inductive invariant `IInv` of `MailboxProofs`. The checked
properties are not inductive alone: `NoLostWakeup` counts the threads that are
awake inside a call with `error = RT_EOK`, so it needs that a sleeping thread
has that error code (`ErrorsReset`) and that sleeping threads are exactly the
linked ones (`ListsMatchStates`); `DeadlineKept` speaks of sleeping threads
only, and needs the same equation for threads that are awake inside a call
(`CallsOK`). `PutMailStep`, `TakeMailStep`, `SuspendReceiverStep`,
`SuspendSenderStep`, `UnlinkStep`, `ResetStep` and `TickStep` show once what
each kind of step preserves, and `IInvNext` has one case per action. The list
facts (`SuspendFacts`, `UnlinkFacts`, `TailFacts`) are proved element by element
in `IpcListProofs`. `MostUrgentFirst` compares the priorities of the moment:
`PriorityStep` shows that a change of priority while the owner is
awake disturbs no list, and that a raised sleeper leaves the order of the others
alone. The refinement needs only that the slot written is none of
the occupied ones, which follows from `RingConsistent`.

`MutexAssumption` (any set of threads and mutexes, priorities 0 to 31, a nesting
below 256, an owner and a mutex that are none) gives `MutexTypeCorrect`,
`OwnersKnow`, `NoWaiterIsForgotten` and `PrioritiesAreRestored`. The inductive
invariant of `MutexProofs` adds what the properties leave open: `FieldsAgree`
(`value`, `owner` and `hold` move together), `ListsAgree` (a waiter is linked
once, which the hand-over needs: the tail of the list must not contain the new
owner), `CallsAgree` (a caller that wakes without an error owns the mutex
exactly once, or `TakeResumed` would break `OwnerKnows`), and `PrioritySaved`:
while a thread has mutexes its own priority is kept in the outermost one, and a
thread that was handed its first mutex but has not run has it there too.
`TakenFacts` and its companions say once what the history variables record;
`IInvNext` has one case per action.

`AtClientAssumption` (answers are sequences of kinds of lines, natural bounds)
gives `ClientTypeCorrect`, `StaleNoticesBounded` and
`ErrorsHaveCause` for any number of commands. `AtMostOneStaleNotice` is not
inductive: it holds because `client->resp` can cause one notice and every call
consumes one or finds none, which `NoticesBounded` and `WaitsForNotice` state
place by place of the call. `ErrorHasCause` needs `StatusHasCause`: from its
first assignment on, the status of a call is its own.

`WaitersAreInherited` has an invariant of its own, `InheritInv`: the waiters
that have no mutex are in the order of their priorities (`WaitersOrdered`;
the others are not, because an owner's priority changes while it waits), so the
waiter a release picks is the most urgent of them; and a thread that never had
two mutexes at once has at most one (`OneMutex`), so that restoring its priority takes
nothing from another mutex's waiters.

`AnswersAreOwn` also uses `AnswersAssumption`: OK or ERROR is the last line of
an answer, the protocol on which `client_parser` relies when it takes such a
line for the end. `OwnInv` says of a client that no timeout and no partial wait
has spoiled: the lines in flight, unsolicited ones apart, belong to the call
that waits (`FlightOwn`), and so do the lines of the response object, with the
verdict of the last one in `resp_status` once it has ended (`RespOwn`).

Song player (`BeepSongProofs`). `BeepSongAssumption` and `SongsAssumption` (no
song has a rest or a tone outside the tables; `beep_set` divides by the
frequency) give `PlaysLastCommandHolds`, `StopIsPromptHolds` and the action
property `NotesInOrderHolds` for any songs, commands and capacity. `IInv` ties
`song_len` to the song while it plays, and `AudibleTone` shows that the
arithmetic on 16 bits never yields a frequency of zero. `StopIsPrompt` is not
inductive: each note begun with a stop in the mailbox is paid for by one place
that a stop has moved forward (`StopAdvances`). `InTuneHolds` and `InTimeHolds`
prove the arithmetic of `BeepTone` instead of enumerating it. A position of the
transposed table is a note of `freq_tab`, an octave higher after a carry
(`TableIs`), and `Transposed` says what the two halvings or doublings, one for
the table and one for the tone, lose against a single one; `DutyCycle`,
`NoteLengths` and `TicksCover` are about the PWM signal and the delays.

AT sockets (`AtSocketProofs`). `AtSocketAssumption` (finitely many slots
numbered from 0, positive sizes) gives `DescriptorsAreOwn`,
`ZeroMeansClosedHolds` and `ClosedWakes`. Everything is said of behaviours that
are `tidy`, like the properties themselves. The invariant says that the socket
at position i of the list has descriptor i (`ListOwn`), that no two threads hold
one socket (`Distinct`), and which states of socket, connection and notice go
together at each place of a call (`ConnOK`).

`StreamInOrderHolds` and `NoSleepOnDataHolds` add `DataInv`. `SockData`: the
packets of a socket are not empty and hold, in order, the bytes behind those
its reader has got, up to those that were queued. `ThreadData`: a receiver between
its look at the list and its wait has found no packet there, or one that came
since, together with a notice. That `at_recvpkt_get` takes the first bytes of the
packets, and no more than the buffer holds, is `GetQueue`. It and the
concatenation of the packets are recursive functions, so what they compute for
every list is proved by refuting a shortest list that is an exception
(`NoLeast`, `FlattenFacts`, `WalkFacts`), which needs no theorem with an
operator as its parameter.

Timers (`TimerProofs`). `TimerAssumption` (a positive number of ticks, times
shorter than half of them by the lateness a timer may have, at least one tick
while a thread is at work, disjoint kinds) gives `ListsAreSound` and
`TimesOutSuspendedHolds` whatever timeout functions do. These theorems, like the
properties, speak of the time before a call has crossed with a start of its
timer; a timeout function may do anything else to that timer. The thread timer runs
only while the timer thread sleeps (`SleepOwn`); between the sections of a call
the timer it will link has a deadline (`AppOwn`), and a timer that is being called
is in no list (`IrqOwn`, `ThrOwn`); that the caller's timer is in no list when it
is linked is what `crossed` observes.
`StopHoldsSafely` has the hypothesis `SafeOps`: timeout functions stop only
their own timer and start only others. Both halves are needed. With "stop other"
the property fails (`timer_stop`); with "start self" a one-shot timer is linked
with its flag cleared, and `rt_timer_stop` refuses it. The run `timer` has
exactly these operations. Then the flag is set for every linked timer
and clear for every stopped one (`ActiveOK`), and the saved next node of the
soft walk is linked, or about to be (`WalkOK`). `StopInv` was checked with TLC
before it was proved.

`TimerOrderProofs` adds the times: `SortedHolds`, `OnTimeHolds` and
`SleepCoveredHolds`, for every number of timers and ticks and whatever timeout
functions do. Like the properties they speak of behaviours in which no deadline
was taken for "no timer" (`missed`) and no call has crossed with a start of its
timer (`crossed`).
The properties speak of `left`, an integer; the code compares deadlines modulo
`TickMod`. `DeadlineOK` relates the two wherever a deadline will be read: in a
list, in the saved next node of the walk, between the two sections of a start.
The comparisons are right only if both deadlines are less than half the range
apart (`DiffFacts`, `LaterFacts`, `DueFacts`), so the invariant `TimeInv` must
bound how late a timer can be at each place (`HardTime`, `SoftTime`, `CallTime`,
`AppTime`): the bound of a soft timer grows with `lag`, the ticks that have found
a thread at work, because a sleeping timer thread is called in time
(`SleepOK`). That closes a circle: the sleep is in time because the list is in
order, the order is right because no timer is too late, and none is too late
because of the sleep; so the three are proved together. `NowOK` bounds the age
of `current_tick`, which `rt_soft_timer_check` reads only once per timeout
function. `StepTimes` has one lemma per action.

`MaxLag` is the one assumption here that the code does not make: RT-Thread
has no bound on how long threads are kept from running, and without one no timer is
punctual and two deadlines can drift further apart than half the range. It is at
least one because a tick between two steps of a thread cannot be excluded.

Only model-checked:

* liveness (outside the prover's reach, as is `ENABLED`);
* EasyFlash: its recovery is made of the folds of the community modules, which take
  operators. That `Roomy` is room enough was found and checked with TLC, for the
  sizes named above; with more than two sectors it may ask for more than is needed.

## Not modelled

* Ends of life: `rt_mb_delete`, `rt_mutex_detach` and the like, which free or
  unlink an object under its waiters; nothing in this repository does it to an
  object in use.
* Work queue, ring buffer, completion, data queue and the serial device: the
  application uses none of the first four directly, and the receive path of the
  UART is part of `AtClient` line by line. `workqueue.c` tests its list and
  suspends its thread in two steps.
* Semaphore, event and message queue: they share the waiting lists of `Mailbox`
  and the questions asked there; `AtClient` and `AtSocket` use semaphores as
  counters.
* The scheduler: every module allows all schedules of its threads that the
  priorities allow, or more.
* Of the AT sockets sending, poll events, options, name resolution and the
  implicit connect of UDP; of the SIM800C driver commands, retries and event
  bits.
* Of EasyFlash `ef_env_set_default`, `env_auto_update`, printing, torn writes;
  its log and IAP parts. `main.c` has `easyflash_init` commented out.
* FAL, DFS, SAL, netdev, the heaps, HAL drivers, CubeMX output and the vendored
  packages (most of the lines of the tree): dispatch, address arithmetic,
  register access, generated and third-party code.

## Plan

1. Done: `IpcList`, `Mailbox`, `BoundedFifo` and its refinement; `BeepTone`,
   `BeepSong`; `AtClient`; `Mutex`; `Timer`; `AtSocket`; `EasyFlash`; proofs of
   all but the last, as "Proofs" says.
2. `MessageQueue` and `Semaphore` where they ask more than `Mailbox` does; the
   ring buffer as a refinement of a bounded queue.

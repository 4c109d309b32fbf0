# Formal models of dtmf2

dtmf2 is a small telephony service: `amidtmf2` listens to an Asterisk server
over AMI, keeps the state of calls in memcached, offers HTTP routes to send DTMF
tones and transfer calls, and is watched by `processmon` over a WebSocket.
Under it are two libraries of its own: `AsyncThreadPool`, a thread pool with two
priorities, and `tst`, an epoll socket server with a worker pool. This directory
holds TLA+ models of these parts, TLC configurations that check them, and
proofs for the pool, the socket server, the AMI connection, the readers of the byte stream, the calls
and the monitor. Paths below are relative to `src/`.

Run a configuration with `tlc -config X.cfg M` (M is in the table of runs) and
the proofs with `tlapm M.tla` for each `*Proofs` module. `PROJECT.json` maps every
definition to the source lines it stands for and lists the hazards and what was found.

## 1. Inventory

### AsyncThreadPool (`AsyncThreadPool/`): modelled

- **State.** Two `std::queue`s (`g_queueRealtime`, `g_queueNormal`), two one-job slots
  (`g_nextRealtime`, `g_nextNormal`), the table `g_thread` with a state (`nThreadStat`), a
  job pointer and times for each worker, the flags `g_mainThread_run`,
  `g_workThread_run`, one mutex `hMutex` and one condition `hEvent` for all.
- **Operations.** `atp_create`, `atp_addQueue`, `mainthread` (moves jobs from queues to
  slots and signals, at the end waits for, cancels and frees the workers), `workthread`
  (waits with a time limit, takes a job from a slot, or runs the idle or exit
  function), `atp_destroy` (graceful: wait until everything looks empty; force: discard
  the queues; then free the slots, clear the flag, join `mainthread`).
- **Hard.** The queues have no lock; the flags and states are read without one;
  signals are lost when nobody waits; `atp_destroy` looks at slots and queues
  without `hMutex`; the worker skips the wait (and the lock) in `stat_exit`.
- **Correct when.** A job is run once, freed once and never used after; jobs of
  one priority run in order; realtime jobs are preferred; a graceful end runs
  everything; nothing is left behind; the table outlives the workers;
  `atp_destroy` returns.

### tst (`tst/`): modelled, for a listening server

- **State.** `m_connect` (descriptor to `TST_SOCKET`, under `m_mutexConnect`), the
  epoll set (every descriptor with `EPOLLONESHOT`), the fetched events, and for
  each worker `thread_stat`, `tst_socket`, a mutex and a condition.
- **Operations.** `tst_main` fetches events, accepts, closes broken connections and hands
  the rest to a suspended worker; `tst_work` calls the user function, then closes
  or re-arms; `closesocket`; `destroy`; the signal handler of `amidtmf2` that clears
  `m_main_run`.
- **Hard.** The only protection of a connection in use is that its one-shot event was
  taken; descriptor numbers are reused at once; state and socket of a worker are
  two writes of one thread and two reads of another, and the reader has no lock.
- **Correct when.** A connection in use gets no event and is not deleted; `m_connect`
  agrees with the open descriptors; every object is deleted; every event
  reaches a worker; the threads stop.

### amidtmf2 (`amidtmf2/`)

- **AMI requests** (`amiproc.cpp`), modelled. *State:* one `TST_SOCKET` in the global
  `ami_socket`, with an `AMI_MANAGE` as user data: `mutexAMI` for requests, `mutexResp` and
  `condResp` for the response, the pending `pResp`, `resp_waitcount` and `actionid`. *Operations:*
  `ami_sync` sends one action and sleeps once, up to 5 s; `ami_event`, in a worker of tst,
  fills in the response or queues an event job in the thread pool. *Hard:* an answer may come after its
  caller left; fields are read before the mutex is taken; the connection can be closed under
  a caller. *Correct when* a caller is told Asterisk's verdict on its own action or an error, no
  freed response is written, events keep their order.
- **Login and actions** (`amiaction.cpp`, `amidtmf2.cpp`), modelled. The main loop queues `amiLogin` every
  3 s while `ami_socket` is NULL; `amiSendDtmf` sends one action per digit; `dtmf2_disconnected`
  resets the global from `tst_main`. *Correct when* a lost connection is renewed and users of
  the old one notice.
- **Call events** (`processevents.cpp`), modelled. Jobs of the thread pool read, change and write a
  call's record in memcached. *Hard:* the events of one call are jobs of several workers. *Correct when*
  the record is there during the call and names its channels.
- **HTTP and WebSocket** (`http.cpp`, `websocket.cpp`, with `tst_work`'s reading), modelled as readers of a
  byte stream. *State:* `TST_DATA` (`s`, `req_pos`, `req_len`, `com_len`, `checked_len`), `REQUEST_INFO`,
  `WS_INFO`. *Hard:* three pieces of code read the same stream, and TCP cuts it anywhere. *Correct
  when* each message is handed over whole, once, in order, and nothing is written past the buffer.
- **Monitor peer** (`ws_routes.cpp`), modelled: `g_processmon_sd` admits one process monitor.
- **Helpers** (`util.cpp`, `http.h`, `WebConfig.cpp`), modelled where the service depends on them: frame
  lengths, query strings, manager messages, configuration lines.
- **Logging** (`logger.cpp`): formatting and output, not modelled.

### processmon (`processmon/ws_client.c`, `procmon`, `crontab`): modelled

A process kept by cron connects to `/alive`, sends keepalives, and when it cannot connect or
loses the connection starts the service and exits. Port 4061 keeps a second one
away. *Hard:* two processes, two threads of the monitor, restarts, a port that a child
may inherit, descriptors that are used again. *Correct when* a service that ended is
started again, and a running one is watched, in the end by one monitor.

### The rest

`udplogd/udplogd.c` is a single-threaded receive-and-append loop. Vendored code (civetweb, SHA-1),
the patched Asterisk channel driver, the example program and the installation files
are not modelled.

### How the parts interact

Asterisk and HTTP clients reach tst as sockets; tst calls the user functions
(`ami_event`, `http`, `websocket`) in its workers; they queue jobs in the AsyncThreadPool (events,
login), while HTTP handlers send AMI requests and sleep in a worker of tst for responses that another worker of tst
delivers. `tst_main` deletes connections and calls `dtmf2_disconnected`. `main` stops tst first
(`server.destroy`, amidtmf2.cpp:307) and then the pool (`atp_destroy(gracefully)`, 309). After SIGINT the first
call returns at once, so a worker of tst can still be in `ami_event` and queue a job (amiproc.cpp:332)
while the pool is being destroyed.

## 2. Modules

| Module | What it is |
|---|---|
| `AsyncThreadPool` | the pool: one action per section of `mainthread`, `workthread`, `atp_addQueue`, `atp_destroy` between two points where another thread can see a difference |
| `JobPool` | the abstract promise: lines of waiting jobs, running jobs, ended jobs; jobs are thrown away only after closing began |
| `TstPool` | the listening server: epoll with one-shot events, clients, `tst_main`, `tst_work`, `closesocket`, `destroy` |
| `AmiManage` | the manager connection: Asterisk, the login job, `closesocket`, callers in `ami_sync`, workers in `ami_event` |
| `ActionService` | the abstract promise of `ami_sync`: Asterisk decides on an action, its caller is told that or an error |
| `StreamReceive` | the byte stream of a connection and its readers: `tst_main`, `tst_work`, `http`, `websocket`, `ami_event` |
| `ProcessMonitor` | the service, its monitors, cron, port 4061 and the 409 answer |
| `CallInfo` | the events of calls, the workers that handle them, the record in memcached |
| `Codecs` | conversions as operators: frame lengths, `urlDecodeRewite` and `CQueryString::Parse`, `parse_amievent`, `CWebConfig::Set` and `Get` |
| `*Props` | the properties of each, with the refinement mappings to `JobPool` and `ActionService` |
| `AsyncThreadPoolProofs`, `JobPoolProofs` | theorems of the pool: its threads, then its jobs |
| `TstPoolProofs` | theorems of the server: tokens, then objects, the table and types |
| `AmiManageProofs` | theorems of the manager connection: callers, then answers and events |
| `StreamReceiveProofs` | theorems of the readers of the byte stream |
| `ProcessMonitorProofs`, `CallInfoProofs`, `CodecsProofs` | theorems of the monitor, of the call records and of frame lengths |
| `MC*` | values of constants and symmetry for TLC |

Operators whose name ends in a remark after an underscore and that are marked *faulty* are
plausible mistakes; nothing uses them. Each is the change that makes one property fail.

**AsyncThreadPool.** Variables carry the source's names. `hMutex` holds the name of its owner;
unlocking does not check it, as with a default glibc mutex. `hEvent` is the set of
workers asleep in `pthread_cond_timedwait`; a worker leaves the set by a signal or
a `Timeout` and then needs the mutex again. Control is in `mainPc`, `workPc`, `destroyPc`. Job functions are
opaque: they return one of `FuncResult`. `log` is a history of pushes and starts
and `freed` counts `free` calls per job; nothing reads them but properties, and the
code that follows freed memory or pops an empty queue sets `crashed`, after which
nothing is claimed. Time is not counted: `overtime` says whether `mainthread` would compute that
a worker has exceeded the limit, `late` whether its current call really has.

**TstPool.** A connection is the number of its `TST_SOCKET` object, a descriptor may be
returned again by `accept` once it is closed. `interest` is the epoll registration;
`Fetch` disarms what it reports. `Erase`, `Close` and `Delete` are the three steps of `closesocket`, which
run in `tst_main` and in workers. `Mark` and `Give` are the two writes of the hand-over and `Look`, `Else`, `Idle`,
`Reset` and `Take` the unlocked reads and writes of the worker. `StaleSd` is what `socket->sd` of a deleted object
may be read as. Once `m_workers` is freed (`Kill`) workers take no more steps, because what they would do is undefined.

**AmiManage.** A connection is a number, its object goes from `new` (before `tcp_connect`) over
`user1` and `client` to `closing` and `deleted`. It composes what two libraries do for it: the one-shot
event of tst (`armed`), which gives `ami_event` to one worker at a time, and the one login job. The
steps of `ami_sync` end where the code reads a global again or takes a lock; `mutexResp` is held inside one
step only. A wait ends by a signal, by its time limit (`Expire`) or, with `SpuriousWake`, with 0 and no signal; `late` has the requests
whose wait ended without a signal. `resp_waitcount` is changed without its mutex, so an increment may be lost (`Count`). The answers of
Asterisk carry the ActionID of their action, the only thing the code compares. A step that
follows NULL or deleted memory sets `fault`, and there the model ends: the properties say what must have happened before.

**StreamReceive.** A byte is the pair of its message's number and its position, so a handler's input
can be compared with what was sent. `Send` adds a message to the stream, at any time; `Arrive` cuts it; `Event` is the count `tst_main` takes with `SIOCINQ`; the readers
take `Least` of what they want, what fits and what is there. The header's end (CRLFCRLF) is the last
byte of the header.

**ProcessMonitor.** `mon` is the step of each monitor, `lock` who has port 4061 open (a child inherits it), `in` and `out`
the frames under way, `pc` the step of the thread that has a descriptor. `Erase`, `Compare`, `Reset`, `Close` are `closesocket`
with its call of `dtmf2_disconnected`; `Check` and `Accept` the two unlocked steps of `websocket_alive`.

**CallInfo.** Each event is emitted in order and taken by a worker; a handler is one, two or three steps around the calls of
memcached. The expiry after one second of the empty value that DTMF_STOP stores is a step of its own (`Expire`). `overlap` is a
history variable: two events of one caller were under way at once.

**Codecs.** A state is an input; `Next` makes it one token longer. The operators work on sequences of tokens (a digit, `%`, `&`,
`=`, CR, LF, blank, ...), in the places where the code compares bytes. The input for frames is a length below 2^32 (so the upper
four bytes of the longest form are 0), and a header is its bytes: `ws_writetext` writes it, `Extended` reads it as `websocket` does.

## 3. Runs

| Run | Module | Result | Shows |
|---|---|---|---|
| `atp_graceful` | MCAsyncThreadPool | pass | two callers, three jobs, graceful end: lock discipline, each job held in one place until it is freed once, order, refinement of `JobPool`, and that at most the last job of each priority is lost |
| `atp_force` | MCAsyncThreadPool | pass | forced end with exit functions and callers that go on: jobs of a priority start in push order, at most one normal job goes past a waiting realtime job, exit functions finish first |
| `atp_expire` | MCAsyncThreadPool | pass | forced end with `endwaittime` running out: nothing is left behind, a job's function is only cancelled when it is late |
| `atp_live` | MCAsyncThreadPool | pass | every accepted job is started or discarded, `atp_destroy` returns |
| `tst_pool` | MCTstPool | pass | a connection in use is silent and alive, `m_connect` agrees with the descriptors, no object leaks |
| `tst_live` | MCTstPool | pass | the server stops after a signal or `destroy` |
| `tst_lost_event` | MCTstPool | violation | an event given to a worker on its way through the idle or reset branch is lost |
| `ami` | MCAmiManage | pass | callers are told Asterisk's verdict on their own action (refinement of `ActionService`); answers go astray, and freed memory is touched, only after a timeout or a lost connection; events keep their order |
| `stream` | MCStreamReceive | pass | messages are handed over as sent, reads fit the buffer, refusals are for size, what has arrived is handed over |
| `monitor` | MCProcessMonitor | pass | the remembered monitor is there, a service that ended is started again, a monitor that was stopped or turned away does not start a running one, a running one is watched, in the end by one monitor |
| `calls` | MCCallInfo | pass | the record is there exactly during a call and names its channels, unless two events of that caller overlapped |
| `codecs` | MCCodecs | pass | each conversion gives what a definition without its scanning gives, for every input up to the bounds |

**Bounds.** *Thread pool and tst:* two workers, because the races are between one worker and `mainthread` (or
`tst_main`) and between two workers; three jobs with two of one priority, so that
order within a priority and preference between priorities both occur, and the
slot and the queue of one priority are occupied together; two callers in
`atp_graceful`, one elsewhere. Workers (and descriptors) are interchangeable: symmetry is
used in safety runs only. In `tst_pool` two connections share two descriptors, so a closed number is
reused while another worker is still in `closesocket`, and both are served at once.
It leaves `tst_send` out of what the user function returns, which would make descriptors permanently
ready; `tst_live` and `tst_lost_event` have it. *ami:* two workers, so that one waits for what the other delivers; two requests, so that the
answer of the first can meet the second; two events for their order; two connections, so that one is lost and
renewed under a caller. *stream:* three messages and a buffer of five bytes: a header that fills it, a body that
just fits and just does not, frames with each form of header, payloads that need more memory and payloads over the limit, each with a message before and
after. *monitor:* a monitor of cron and one started by hand, two descriptors, one end of the service, one signal or kill. *calls:* two callers,
two calls each, two workers. *codecs:* lengths of three bytes out of 0, 1, 125, 126, 127 and 255 (each form of the length occurs, at its limits), queries of
seven, messages of eight tokens, files of four lines: each syntax can occur twice, next to itself.
Whatever else is not named in a cfg is unbounded.

**Assumptions of the passing runs.** *Pool:* `LateProducers = FALSE` except in `atp_force`: callers stop before `atp_destroy`. This is
a contract of the library. amidtmf2 does not keep it strictly: it calls `server.destroy` first, but that can return while a worker of tst
is in `ami_event` (section 1). Otherwise a job pushed after the check in `atp_addQueue` stays in the static
queue or a slot: `NothingLeftBehind` and `JobsHandled` are false, and so is `JobCancelledLate`, since a worker that was
counted as overdue while it was idle can still find such a job and start it before it is cancelled. `WaitCanFail = FALSE`: whole seconds in the time
limit. `UseExitFunc = FALSE` in `atp_graceful`, as amidtmf2 calls it. With exit functions `LockHeld` and
`TableOutlivesWorkers` are false (the table below). Nor is
`DestroyReturns` claimed then: the repeated scan for suspended workers may, in a schedule that fairness of the
threads does not exclude, meet a worker in its idle turn every time.
`EndWaitExpires = FALSE` except in `atp_expire`; in tst it also means that with `destroy` the wait is longer than
the system has been up, since the limit is compared with the begin of a worker's last job, or with 0.
`StaleSd = {NULL}` in `tst_pool`: the freed `sd` is no registered descriptor.
*AMI:* `QuickClose = TRUE`: `closesocket` ends before a login that begins after `dtmf2_disconnected`, which has 3 s of sleep and a TCP connection
to spare. With `FALSE` a caller of the old connection can write its action to the new one, where an ActionID is used twice, and be told the other
action's result: `ImplementsActions` fails. `SpuriousWake = FALSE`: POSIX allows `pthread_cond_timedwait` to return 0 without a signal, and amiproc.cpp:136 has no
loop around it. With `TRUE` a caller can be told ok without an answer and free the response that `pResp` still leads to: `ImplementsActions` fails,
and a spurious wake-up is, like a timeout, a cause of a lost answer or of a write to freed memory. `FaultHasCause` and `AnswerIsDelivered`, which count
such waits (`late`), hold with both values. One login job at a time.
*Stream:* `SplitHeader = FALSE`, see below; an upgrade request has no body. *Monitor:* `OneStays` holds under the premise that keepalives do not meet in
`websocket_alive` for ever: two that do can each be accepted again and again.
*Codecs:* `LengthRead` is about any length of a client's frame, and texts of the service up to 126 bytes.

**Fairness.** *Pool, tst:* each thread is strongly fair, because it needs a mutex that others
take and release again and again and pthreads lets every waiter have it in the
end; a timed wait ends (weak fairness of `Timeout` in the pool, part of the worker in
tst); user functions return. Callers of `atp_addQueue` finish a push they began, but need not
call. Clients owe nothing. That a waiting connection is accepted is not claimed:
`accept` failing leaves the one-shot listening socket disarmed (tst.cpp:299-302), and with every
worker busy `tst_main` looks at nothing else. *Stream:* the server's threads run and what was sent arrives (weak
fairness), since epoll reports a descriptor as long as there are bytes to read and it is armed. *Monitor:* cron runs every minute, what has begun goes on (weak
fairness per process and per descriptor); nobody need start, stop or kill anything by hand. *AMI and calls* state safety only.

**Disagreements met, without a run.** Each is a counterexample TLC gives with the named constants; the property is in the module's
`Props`.

| Where | Property and constants |
|---|---|
| AsyncThreadPool.cpp:469 | `GracefulRunsAll`: `Worker = {w1, w2}`, `Producer = {a1}`, `RealtimeJob = {r1}`, `NormalJob = {n1}`, `EndCode = "gracefully"`, `FuncResult = {0}`, `UseExitFunc`, `EndWaitExpires`, `LateProducers`, `WaitCanFail` all FALSE: a job moved from queue to slot between two reads is freed without having run |
| AsyncThreadPool.cpp:484 | `FreedOnce`, as above with `EndCode = "force"`: a job that is still used is freed |
| AsyncThreadPool.cpp:484 | `NoJobDropped`, as the last with `RealtimeJob = {r1, r2}`, `NormalJob = {}`: `mainthread` and `atp_destroy`, which pops without `hMutex`, read the same front and pop two jobs; the second is neither run nor freed |
| AsyncThreadPool.cpp:261 | `JobsHandled` under `FairSpec`, as the first with `WaitCanFail = TRUE`: tv_nsec without a carry, the wait is rejected |
| AsyncThreadPool.cpp:294 | `LockHeld`, `atp_graceful` with `UseExitFunc = TRUE`: `mainthread` sets `stat_exit` on a worker between its job and the top of its loop; the worker skips lines 257-263 and unlocks a mutex somebody else holds |
| AsyncThreadPool.cpp:229 | `TableOutlivesWorkers`, `atp_graceful` with `UseExitFunc = TRUE`, with either value of `EndWaitExpires`: `mainthread` frees `g_thread` once a worker reports `stat_exited` (304), which is before its last write to the table (418) |
| tst.cpp:541 | `RunHasSocket`: `Worker = {w1, w2}`, `Sd = {s1}`, `MaxConn = 2`, `FuncResult = {0, 2, 4}`, `ConnectedResult = {0, 4}`, `StaleSd = {NULL}`, `AcceptCanFail = TRUE`: tst_run is seen before the socket |
| tst.cpp:641 | `QuietWhileUsed`: `Sd = {s1, s2}`, `StaleSd = {s1, s2}`, else as above: the re-arm after `closesocket` arms another connection in use |
| amiproc.cpp:134, amiaction.cpp:289 | `fault = "none"` as an invariant of `ami`: a late answer is written to a freed response; a lost connection is used by a caller |
| amiproc.cpp:136 | `ImplementsActions`, `ami` with `SpuriousWake = TRUE`: a caller is told ok although Asterisk has decided nothing |
| websocket.cpp:202-231 | `HandedAsSent`, `stream` with `SplitHeader = TRUE`: a segment that ends inside a frame header is misread, no read there looks at its result |
| processevents.cpp:98 | `StopDeletes`, `calls`: a START or DialEnd handled beside DTMF_STOP leaves the record for an hour |
| websocket.cpp:64 | `LengthRead` without its limit: texts of more than 126 bytes get 127 and eight bytes in host byte order, those up to 65535 should get 126 and two |

The graceful or forced end of the pool is cut short when
`atp_addQueue` races it. When `endwaittime` runs out as well, `g_thread` is freed while
a worker is still in its exit function or in a job. The idle and exit functions start without `beginWorktime`, so they can be
cancelled although they have only begun. In tst, after SIGINT `destroy` returns at once and `tst_main`
finds a limit of 0, so that running workers are cancelled and `m_workers` is freed
under them (tst.cpp:448, 478, 807); a worker that was told to exit counts as ended (441)
although it may still read the table.

Smaller ones, read in the code while it was translated. AMI: when every worker sleeps in `ami_sync` nobody can read the answers, and each
caller times out; a failed login leaves its descriptor open (amiaction.cpp:103); a message of 4096 bytes or more leaves no room to read, and the level-triggered
event comes back for ever (amiproc.cpp:225). Stream: a body that just fills the buffer is ended with a zero behind it (http.cpp:178); a read of the payload blocks if the segment ended after
the header, and FIN and continuation frames are not told apart. Monitor: `recv_last` is never read (ws_client.c:61), so a service that hangs is never restarted; `dtmf stop` while a monitor runs
is followed by a restart; with USEHTTP=YES the 200 answer has no blank line at its end (http.cpp:80-97), the client finds no
CRLFCRLF and starts the service each time. Helpers: the log copies a message without a zero behind it
into an `AMI_EVENTS` that nothing initialised (amiproc.cpp:311-313), so `parse_amievent` may read on into what was there (`EventRead` is about terminated text; the
jobs' copy, line 328, goes to memory that `atp_alloc` has zeroed); a malformed `%zz` leaves a byte of the old string; decoding comes before the split at `&`, so an encoded `&` splits; `a=1&a=` keeps 1;
`[` anywhere in a configuration line makes it a section, and the section is uninitialised before the first; `strrtrim` assigns the pointer instead of the character (http.cpp:37); `trim` takes bytes from 0x80 for
blanks where char is signed; a channel name stored empty is read back as one blank.

## 4. Proofs

`AsyncThreadPoolProofs` proves, for any finite set of workers and any sets of callers and jobs, about the threads:

- **TypeCorrect**: `Spec => []TypeOK`.
- **LockSafe**: `Spec => []LockHeld`, for pools without exit functions whose user functions return
  `stat_suspend` or `stat_run`. `LockHeld` says that whoever is in code `hMutex` protects is its owner. It is not
  inductive: a worker in `stat_exit` at the top of its loop would enter without locking.
  `LockInv` adds that no worker is in `stat_exit` before it has left its loop, and that each
  thread's own control point implies ownership. It says so until `mainthread` tells workers to exit (`Telling`), which
  without exit functions it never does.
  The interesting actions are the locks (the mutex was free), the unlocks (the owner leaves its
  section) and the wait (the mutex is given up with the section).
- **LockUntilTold**: `Spec => [](LockHeld \/ Telling)`, the same for pools with exit functions: the discipline ends only where `mainthread` begins to tell
  the workers. The theorems about jobs rest on it, since by then the order of the jobs is decided.
- **TableSafe**: `Spec => []TableOutlivesWorkers`, with the further assumption that `endwaittime` does not run out. `ReapInv`
  relates what `mainthread` has concluded about a worker (`szThreadStatus`) to the worker's
  control: only a worker that is past its last access can be counted.
- **NothingLeft**: `Spec => []NothingLeftBehind`, for either end code and any results of user functions, if callers stop before
  `atp_destroy`. `LeftInv` says from which step of `atp_destroy` each queue is empty, that the slots stay
  empty from `stop` on because only `mainthread` fills them and only from a queue, and that `mainthread` leaves its loop after that.
- **CancelledLate**: `Spec => JobCancelledLate`, an action property, under the same condition. `LateInv` says that a worker inside a job's function is in `stat_run` and that
  what `mainthread` computes for it is the time of this call: by `LeftInv` none starts after `mainthread` began to count.
- **ExitFuncSafe**: `Spec => []ExitFuncFirst`, if no user function itself returns `stat_exited`. `ExitInv` says that `stat_exited` is set on the way
  out only and the workers' run flag cleared only when all have it.

`JobPoolProofs` continues with the jobs, for user functions that return `stat_suspend` or `stat_run` (`Regular`). Two theorems need nothing more: they hold for
either end code, with or without exit functions, and with callers that go on during and after `atp_destroy`.

- **StartsAsPushed**: `Spec => []StartsInPushOrder`, jobs of one priority start in the order in which they were pushed. `RankInv` ranks the jobs of a priority: those that started were pushed
  before the one in the slot, and that one before those in the queue, which stand there as they were pushed. The job that `mainthread` has copied and not popped counts as in the slot. A forced `atp_destroy`, which pops and frees
  beside `mainthread`, only removes jobs from the ranks, so the order of the others stands.
- **OvertakenOnce**: `Spec => []AtMostOneOvertakes`, at most one normal job pushed later starts before a realtime job that is queued or has started. `PassInv`: once a normal job has gone past, the normal slot is
  empty and `mainthread` not about to fill it (`NormalHeldBack`) until the realtime job is in its own slot, where workers look first. `mainthread` alone fills slots, under `hMutex` (`LockInv`).

The other theorems of the whole run assume `Graceful`: `atp_destroy`
is called with `gracefully` and callers stop before it. amidtmf2 calls it so, except that a worker of tst may still be queueing an event; a forced end violates `FreedOnce` and `NoJobDropped`, and a late caller the rest (section 3). Exit
functions and `endwaittime` are left open. The step lemmas ask only for `Calm`, a step before `atp_destroy` or a graceful end, so the last two theorems need no `Graceful`.

- **HeldUntilFreed**: `Spec => []HeldOrFreed`: a job never has two holders (`OneHolder`), is freed at most once (`FreedOnce`), and an accepted one is in a line or with a worker until it is
  freed (`NoJobDropped`). `DrainInv`: a graceful `atp_destroy` reaches its clearing loops only past empty queues, so
  `mainthread` alone pops, and the queue it serves does not become empty under it (without this `front` and `pop` would be undefined behaviour). `PlaceInv`: a job is at one stage (caller, line,
  worker, ended), no line has it twice and no two callers or workers have the same. A `Line` is what is in slot and queue
  of a priority together; between `front` and `pop`, when the slot and the head of the queue have the same job, it counts once. With it every step of the pool is one of six (`EveryMove`): a caller's check, a push, a take, a finish, the freeing of the slots, or a step that moves no job.
  `Accounted` says where each pushed job is.
- **StartsInTurn**, **LosesSlotsOnly**: `Spec => []StartedInOrder`, `Spec => []GracefulLosesSlotsOnly`. `OrderInv` relates each position of a line to the history (`Turn`): before
  the job there was pushed, only jobs were that have started or stand before it: none is passed over. After the slots were freed at most one job of each priority waits.
- **PromiseKept**: `Spec => KeepsPromise`, the pool implements `JobPool`. Initial states map to initial states, and each kind of step to `Submit`, `Start`, `End`,
  `Close`, `Discard` or a stutter.
- **SafeBeforeDestroy**, **PromiseBeforeDestroy**: until `atp_destroy` is called, nothing crashes, `HeldOrFreed` and `StartedInOrder` hold, and every step is one of `JobPool`, whatever
  the end code, the exit functions and the callers that go on after it: nothing before the call depends on them.

The inductive invariants, here and below, were model-checked on the bounds above before they were proved.
Proved from `PoolAssumption` only, which TLC evaluates in every run.

`TstPoolProofs`, for any workers, descriptors, numbers of connections and results of the user functions, from
`ServerAssumption` and `StaleSd \subseteq {NULL}` (without it the property is violated, section 3):

- **QuietSafe**: `Spec => []QuietWhileUsed`. Nothing in the property says why a descriptor in use stays disarmed, so
  `TokenInv` follows one token for each open descriptor. epoll has it while the descriptor is armed; the one-shot event
  passes it to `tst_main` (`InMain`), `tst_socket` to a worker (`Holds`), the re-arm back to epoll; `close` ends it,
  and a descriptor that is closed has none, so `accept` makes a new one. Its parts: one holder (`Tokens`), one event for a descriptor
  (`OneEvent`), tokens only for open descriptors (`Opened`), and what the threads in `accept` and `closesocket` know of theirs (`Fresh`, `Closing`, `Linked`). The steps that
  pass a token are `Fetch`, `Connected`, `Give`, `Take`, `MainClose`, `WorkClose` and `WorkRearm`.

From there on, about the objects:

- **AliveSafe**: `Spec => []AliveWhileUsed`, no object is deleted under a thread that has it, with the further assumption that
  `EndWaitExpires` is false. `Objects` adds to each token the
  object: its holder has the one that `m_connect` has (`Named`), no two descriptors have the same (`Once`), and an object
  that is not in `m_connect` yet or any more belongs to the one thread that accepts or closes it (`Apart`).
  For `destroy`, which deletes without asking anybody, `EndInv` says that a worker which `tst_main` has stopped waiting for is in
  `tst_exit` or on its way out of its loop. The second case is needed: a worker in its idle turn overwrites
  `tst_exit` with `tst_run` after it was counted.
- **MapSafe**: `Spec => []MapMatchesDescriptors`. The property looks at descriptors, the danger is an event or a re-arm of a connection whose entry is gone.
  `Reach` (the `Registered` descriptors) says who may still get an event of a descriptor or arm it again, and that each of them finds the entry.
- **LeakSafe**: `Spec => []NoLeak`. `KeptInv`: an accepted connection is in `m_connect`, or with its one thread in `accept` or `closesocket`, or deleted.
- **ServerTypeCorrect**: `Spec => []TypeOK`. Its one difficult conjunct is that `accept` finds a connection: `ListenInv` says that the listening
  socket is armed, or has one event under way, and that a connection waits while it has.

The last three need nothing of `EndWaitExpires`: they rest on `LiveObjects`, the part of the objects' invariant that does not speak of the end.

`AmiManageProofs`, for any workers, connections, requests and events, from `AmiAssumption`; the last conjunct of that assumption, that no caller is told a
result by the name of NULL, is about the model's constants only.

- **OneSleeperSafe**: `Spec => []OneSleeper`, two callers never sleep on one `AMI_MANAGE`. What keeps the second out was
  decided two steps earlier, so `CallerInv` says that a worker between its lock and its unlock owns `mutexAMI` of its
  connection, and that only workers in the wait sleep. The interesting steps are `Lock`, which finds the mutex free, `Return`, whose owner is awake,
  and `Handle`, which only wakes. The theorem holds up to the first use of freed memory, where the specification stops.
- **AmiTypeCorrect**, **FaultCaused**: `Spec => []TypeOK`, `Spec => []FaultHasCause`. `SocketInv` places each living connection: it is the global one, and armed or
  with exactly one handler, as one-shot events promise; callers hold connections that were there once. `RequestInv` and `PRespInv`
  say whose response `pResp` is; `FaultInv` that a freed one needs a wait that ended without a signal.
- **EventOrder**: `Spec => []EventsInOrder`. `OrderInv`: the events that are jobs already, the one a handler carries and those in the socket of the living
  connection are, in this order, increasing.
- **AnswersDelivered**: `Spec => []AnswerIsDelivered`. `DeliverInv` holds until a wait ends without a signal or a connection is lost: `resp_waitcount`, although it is read and changed without
  the mutex, is one for the caller that has `mutexAMI` and one for a handler that is about to answer, and the one answer that is due is in one place.
- **ActionsKeptOnOwn**: `Spec /\ []OwnSocket => ImplementsActions`, the connection implements `ActionService`, if no wait ends spuriously (`SpuriousWake = FALSE`), as long as a caller writes to the connection whose `mutexAMI` it has (`OwnSocket`): what
  goes wrong when `ami_socket` is read again (amiproc.cpp:135) is the only way to a wrong result. `OnceInv`: an ActionID is at most once among actions and answers of a connection. `MatchInv`: an answer with the ActionID of
  a waiting caller answers that caller's action; `OwnSocket` is needed for the write only. `OutcomeInv`: a request is told one outcome, and one it owns.
- **ActionsKept**: `Spec => ImplementsActions` with `QuickClose` and without `SpuriousWake` (section 3), because then `OwnSocket` holds (`SameConnection`).

`StreamReceiveProofs`, for any messages, any number of them, any size of the buffer and any segments, from `MessageAssumption`:

- **HandedSafe**: `Spec => []HandedAsSent` where `SplitHeader` is false, that is, where a frame's header arrives in one segment.
- **HandedUnlessGarbled**: `Spec => [](closed # "garbled" => HandedAsSent)` without that condition. A frame header read in part is thus the only way in which a
  reader gets out of step. What the server would do after it is not followed (the model ends the connection there), so nothing is claimed of it.
- **FitsSafe**, **RefusedSafe**: `Spec => []FitsBuffer`, `Spec => []RefusedForSize`, with the same remark.

All rest on `StreamInv`. `Whole` says of the unread stream (`kernel` and `wire` together) that at each byte the rest of its message follows, and then the first byte of the next message or nothing; it
needs no induction, since a read from the front keeps it for the bytes that are left. `Begins`: the stream begins with the byte that the reader needs next. `Pieces`: `head` and `s` hold
what was read of the current message. `Phase` says for each position of the readers what they have: `AtHeader`, `AtParse`, `AtBody`, `AtRoute` of `http`, `AtFrame`, `AtFrameHeader`, `AtPayload`
of `websocket`, and `AtHeader` again for `ami_event`, with the part that `tst_work` reads for them in `AtBody` and `AtPayload`. `Unsplit` carries the condition about headers to the three reads that
do not look at their result; `Closed` what is known once the connection ended. `FitsBuffer` and
`HandedAsSent` are conjuncts: where the rest of a body goes depends on the size that `Parse` compared, two events earlier.

`ProcessMonitorProofs`, for any monitors and descriptors, from `MonitorAssumption`:

- **RememberedSafe**: `Spec => []RememberedIsOpen`, a monitor is turned away only because of one that was accepted. `MonitorInv` adds that at
  `Close` the descriptor is forgotten: between `Compare` and `Close` only the descriptor's own thread could remember it again, and it
  is in `closesocket`.
- **StopStays**: `Spec => WantedStopStays`, an action property: while the service has never ended, no monitor starts it beside the one that runs. A monitor takes the end of its connection for the
  end of the service unless it has set `nStop` or was answered 409, so `StopInv` says why the service ends a connection: the first frame on its way to a monitor is a 409 or the
  monitor has set `nStop` (`Told409`), what the service closes is a connection whose monitor is gone, has such a frame or has set `nStop` (`Served`), and only a monitor that has set it says goodbye (`Goodbye`).
- **MonitorTypeCorrect**: `Spec => []TypeOK`, with the conjunct that no frame of a closed connection waits for the next one on its descriptor.

`CallInfoProofs`, for any callers, workers and numbers of calls, from `CallInfoAssumption`:

- **RecordSafe**: `Spec => []RecordFollowsCall`: while no two events of a caller overlapped, the record of a caller without an event under way is there exactly
  during the call. `InLine` relates the events that are left (`QueueInv`), those that workers have (`JobInv`) and a caller without any (`IdleInv`): a caller's events follow each other as the dialplan emitted
  them, the last is that of the call's stage, and the next one finds the record as the one before it leaves it.

`CodecsProofs`, for any set of lengths below 2^32, from `CodecsAssumption`:

- **LengthSafe**: `Spec => []LengthRead`. A number is its two halves (`Halves`), a half its two bytes (`FourBytes`), and each of the three forms of a header is read
  back (`ShortRead`, `TwoBytesRead`, `EightBytesRead`).

Only model-checked: liveness (`JobsHandled`, `DestroyReturns`, `StopsEventually`, `AllHanded`, `ServerRestarts`, `ServerIsWatched`, `OneStays`), which is out of
the prover's reach with fairness and ENABLED; and `FormRead`, `EventRead` and `ConfigRead` of `Codecs`, whose scans are folds and recursive
functions: what they compute for inputs of every length would need induction over data, which these provers cannot do. Every other safety and action property of a passing run has a theorem. `OneSleeper` is proved and is in no run.

## 5. Not modelled

*Components:* logging, udplogd (one loop, one thread, its only state a file name), SHA-1, civetweb, the Asterisk channel driver, the example,
the installation files. The vendored files (civetweb and two copies of `chan_pjsip.c` with their includes) are
by far the larger part of the lines under `src/`; the models are about the code that is dtmf2's own.

*In the modelled ones.* AsyncThreadPool: configuration calls (`atp_setfunc` shares a block of user data between workers that is freed for each), statistics, thread creation, and overlap inside one `std::queue`
operation (each push or pop is one step). tst: a client as main socket (`m_fmain`), `need_send` (which amidtmf2
never calls), writing `req_len` bytes before the user function,
a timed wait that fails, statistics, and the tree walk of `m_connect.find` without its mutex.
`destroy`'s check of `m_main_run` and its assignment are one step. Which suspended worker is chosen is left open; the code takes the first.
AMI: `ami_async` and the -98 branch (not reached), overlapping login jobs, `amiDeviceStatus`. HTTP: the splitting of header lines, the texts of answers, a negative Content-Length. WebSocket: ping, pong,
binary and continuation frames. Monitor: USEHTTP, answers 400 and 401, the counting of 201. Calls: failures of memcached, expiry after 3600 seconds, two calls of one caller at once. Codecs: base64 and helpers the service never calls, `%` with bytes from 0x80, the limits of 100 entries.

## 6. Plan

1. Proofs: `NoJobDropped` for late callers that push before `stop` is set.
2. `JobQueue`: `std::queue` pushes split into their steps.
3. Overlapping login jobs and their descriptors in `AmiManage`; the HTTP monitor.
4. `m_fmain` and `need_send` in `TstPool`, for other users of the library.

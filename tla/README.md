# A TLA+ model of bifang

bifang is a C++11 server framework for Linux: N threads run M coroutines
("fibers"), an epoll scheduler suspends a fiber instead of blocking its thread,
hooked system calls make this invisible to the code above, and TCP, HTTP and
WebSocket servers, database clients and loadable modules are built on top.

This directory holds TLA+ modules for it, configurations for TLC, and proofs for
TLAPS. Paths below are those of the repository; line numbers are in
`PROJECT.json` (`map`).

    tlc -config MCHook.cfg MCHook             # one run
    tlc -config MCServices.cfg MCServices     # several components, one at a time
    tlapm SchedulerProofs.tla                 # the proofs of one of eight modules

## Inventory

For each part: its state, its operations, how it interacts with the others,
what is hard about it, and what makes it correct.

**Fiber** (`src/src/fiber.cpp`). State: `m_state`, `m_id`, stack and context per
fiber; globally the counters `s_fiber_id`, `s_fiber_count` and a heap of returned
ids. Operations: construct, destroy, `reset`, `swapIn`/`swapOut`, `call`/`back`,
`yield`, `run`. A fiber runs on the thread that swaps it in, which is another one
each time. Hard: its state is read by threads that scan the queue while its own
thread changes it. Correct: one thread at a time on a stack; the assertions of
`swapIn` and `yield`; ids belong to one living fiber.

**Scheduler** (`src/src/scheduler.cpp`). State: the list `m_fibers`, the atomic
counters of active and idle threads, `m_autoStop`, `m_stopping`. Operations:
`schedule` (one task or a range), `start`, `stop`, and on each thread `run`, with
the virtual `idle`, `stopping` and `tickle`. Hard: fibers that schedule
themselves before they yield, counters that are raised under the lock and lowered
without it, stopping while tasks still schedule tasks. Correct: no task runs twice
at once or is lost, a queued task is taken, `stop` leaves nothing behind and returns.

**IOManager** (`src/src/iomanager_epoll.cpp`, `src/src/iocontext.cpp`). A
Scheduler and a TimerManager. State: an IOContext per descriptor (the events
waited for, and who waits), `m_pendingCount`, epoll, a pipe to wake idle threads.
Operations: `add`, `del`, `cancel`, the overridden `idle`, `stopping`, `tickle`.
It calls `schedule` from idle threads. Hard: edge-triggered reports held by several
threads at once, three reads in `stopping`, a wake-up that is skipped when nobody
seems idle. Correct: no event is missed or delivered twice, the count is exact,
threads sleep only while there is nothing to do, nothing is left behind at the end.

**Timers** (`src/src/timer.cpp`). State: `m_timers` ordered by `m_next`,
`m_tickled`. Operations: `addTimer`, `addConditionTimer`, `cancel`, `refresh`,
`reset`; idle threads call `getNextTimer` and `listExpiredCb`. Hard: an order that
must not change under an element, one wake-up for many insertions, callbacks
collected before and run after a cancel. Correct: a timer is found while it is
there, fires, and does not fire after a cancel.

**Hooked calls** (`src/src/hook.cpp`, `src/src/fdregister.cpp`). State: FdData per
descriptor number. Operations: `read`, `accept`, `send` ... over `do_io`,
`connect_with_timeout`, `close`, `sleep`. They use IOManager and its timers, and
the TCP and UDP servers, sockets, HTTP and Redis use them. Hard: the wait, its
timer, a `close` and the next socket with the same number interleave. Correct: a
timeout ends the wait, `close` releases the waiter, `connect` tells the truth.

**Sockets and addresses** (`src/src/socket.cpp`, `src/src/address.cpp`). State of
a Socket: a descriptor, or -1, the flag `m_isConnected`, two addresses. Operations:
`bind`, `connect`, `reconnect`, `close`, `send` and `recv`. It has no lock; servers,
sessions and clients share it. Hard: between `::close` and `m_sock = -1`, and while
a call waits, the number may become another descriptor. Correct: an object holds
the descriptor it opened and closes no other. Addresses are written for the log and
cut again when they come from a configuration; correct: what is written reads back.

**TCP and UDP servers** (`src/src/tcpserver.cpp`, `src/src/udpserver.cpp`). State:
listening sockets, `m_isStop`. Operations: `bind`, `start`, `stop`, `startAccept`,
`handleClient`. Hard: `stop` wakes a fiber whose hooked `accept` tries again.
Correct: after `stop` no client is accepted and the sockets are released.

**Configuration** (`src/src/config.h`). State: a value and its callbacks per name.
Operations: `get`, `setValue`, `addCallback`, `load`. Other parts watch parameters
and keep what they were told. Hard: callbacks under a read lock, the value stored
under a later write lock. Correct: the last value notified is the value stored.

**Logging** (`src/src/log.cpp`). Appenders with a list of buffers, a thread that
writes them, rolling by a timer, reopening by a signal; patterns for the lines.
Hard: the thread writes without the lock, and starts before the object is complete.
Correct: every event is written once, in order, to the file that is open, as its
pattern says.

**Daemon, server, modules** (`src/src/process.cpp`, `src/src/server.cpp`,
`src/src/module.cpp`, `src/src/worker.cpp`). A parent process that restarts its
child, a file with the child's number, commands that signal it; tables of worker
groups and modules, filled at start-up. Hard: the windows between a crash and the
restart, and between a fork and the handlers. Correct: a stop command stops, a
crash restarts, commands reach the server.

**Buffer and streams** (`src/src/buffer.cpp`, `src/src/stream/`). State: a chain of
blocks, a position, a pointer to its block. Operations: `write`, `read`,
`setPosition`, `toString`, the vectors a socket reads into and writes from. Hard: the
boundaries of blocks and the end of the last one. Correct: a sequence of bytes.

**HTTP** (`src/src/http/`, `src/src/authorization.cpp`). State: parsers with
pointers into a buffer, requests and responses with parameters and fields, the
tables of servlets, files of passwords. Operations: `recvRequest`, `recvResponse`,
`sendResponse`, `setContent`, `setRange`, `getMatchedServlet`, `check`. Hard: reads
that cut a message anywhere, files that change while they are sent, tables that
change while they are asked, offsets that are wrong by one. Correct: the servlet the
tables name gets the parts and the content that were sent, and the client gets the
file that Content-Length and the validators describe.

**WebSocket** (`src/src/ws/`). Frames with masks and lengths of three forms,
messages in fragments with control frames between them, several senders on one
connection. Correct: messages arrive whole, in order, and unmixed.

**Database clients** (`src/src/sql/`). Pools of connections per name, transactions.
Hard: connections fail between any two steps, and are used outside the lock.
Correct: a connection is in one place and has one user, who finds it out of any
transaction.

**Text** (`src/src/json/`, `src/src/uri.rl`, `src/src/bencode.cpp`,
`src/src/util.cpp`). JSON, URIs, bencoded values, base64, hexadecimal, URL escapes:
sequential, but with edges at every character and width. Correct: what one function
writes the other reads back.

**Modules** (`src/module/`). A chat room (names and sessions), a WebDAV server (a
lock table with expiry), static content. Correct: a name has one session; a lock
that has been granted protects its path until it expires or is given up.

**Left aside**: cppjieba (vendored), `create/` (a shell script), configuration data
and tests, wrappers of pthread primitives. `PROJECT.json` lists every component with
its status, and 40 hazards with the line where each of them bites.

## Modules

| Module | What it models |
|---|---|
| `FiberPool` | what a scheduler promises: wake-ups, no queue, no threads |
| `Scheduler` | `Scheduler::run/schedule/start/stop` with the part of `Fiber` they drive; refines `FiberPool` |
| `IOManager` | extends `Scheduler`: `idle`, `stopping`, `tickle`, timers and events as tasks to come |
| `IOEvents` | the IOContexts, epoll, and the reports idle threads hold |
| `Timer` | `TimerManager`, the clock, and how long idle threads sleep |
| `HookIO` | one descriptor number: hooked calls, their timers, `close`, reuse |
| `Sockets` | a `Socket` object over the descriptors it holds one after the other |
| `TcpServer` | `start`, `stop` and the accept loop of a server, and the backlogs of its sockets |
| `AsyncLog`, `LogFormat` | the asynchronous appender; patterns and lines |
| `Daemon` | `daemonStart`, the pid file, `-s` and `-r`, `main()` |
| `ConfigVar` | `Config` and `ConfigManager` |
| `ByteStore`, `Buffer` | a sequence of bytes with a position; the chain of blocks, which refines it |
| `HttpStream` | messages cut into reads: `recvRequest`, `handleClient`, `recvResponse` |
| `HttpRequestParser`, `HttpResponseParser` | the generated machines with their callbacks, byte by byte |
| `HttpParams` | path, query, cookies and form of an `HttpRequest`, from client to server |
| `HttpAnswer` | a file as an answer: conditions, ranges, limited rate |
| `Servlets`, `Authorization` | which servlet gets a request, and who may use it |
| `WsMessages` | one direction of a WebSocket |
| `ChatRoom` | the sessions and names of the chat room, several senders on a stream |
| `WebDav` | the lock table and the requests it guards |
| `ConnPool` | the pools of the MySQL and Redis clients, transactions |
| `UriParser` | the machine of `uri.rl`, and `toString` |
| `JsonText`, `Bencode` | values, their writers and their readers |
| `TextCodecs`, `Addresses` | the encodings of `util.cpp`; addresses and networks |
| `SchedulerProofs`, `IOManagerProofs`, `CoreProofs`, `HookIOProofs`, `ServerProofs`, `ServicesProofs`, `WebDavProofs`, `DeliveryProofs` | inductive invariants and theorems, see Proofs |
| `MCServices`, `MCServer` | small instances of components that share no state, one at a time |
| `MCHook` | `Scheduler` and `HookIO`: fibers and who resumes them, one at a time |
| `MCIdle` | `Timer` and `IOEvents`, the two things `idle()` attends to, one at a time |
| `MCIOManager`, `MCWebDav` | symmetry, or an instance and a specification for TLC |

The parts that share state are modelled in one module or extend one another:
`IOManager` runs on top of `Scheduler`, `HookIO` holds the timer, the event and the
fiber of a call together, `TcpServer` has the hooked accept and `cancelAll`, `ChatRoom`
sends over the streams of its sessions, `HttpResponseParser` reuses
the machine of requests and that of URIs, `HttpParams` the escapes of `TextCodecs`.
Components that meet only through calls that return at once are kept apart;
`MCIdle`, `MCHook`, `MCServices` and `MCServer` choose one of them in the initial state, and the
variable `part` says which.

Definitions whose comment begins with "Mutant" are faulty variants that show that
a property can fail; no specification uses them.

### Scheduler

A task is a `FiberOrCb`: a fiber or a callback. `fibers` is `m_fibers`; `state`
is `m_state` (HOLD is never seen here: `yield` leaves EXEC and `run()` resets it
to INIT after the swap). `pc[th]` is a thread's place in `run()`: `scan` (before
the critical section), `got` (took a task, counter raised), `run` (inside the
fiber), `swapped` (back, counter not lowered), `settle` (state not reset), `none`,
`idle`, `idleout` (the idle path), `exit`. One action is one critical section or
one access to an atomic or to `m_state`, so every order of these is explored. `cpc`
is the constructing thread's place in `start()`/`stop()`; with `UseCaller` it runs
the loop itself from `stop()` on.

`CanSchedule` states how the callers in the repository use `schedule`: a task is
handed over once, and later only by the one party it armed before it yielded. This
is an assumption on the environment; the check that an armed task may be scheduled
*before* it yields is what makes the scan's test for EXEC necessary.

### IOManager

`IOManager` extends `Scheduler` and uses its actions. `ipc[th]` is the place in
`idle()`; `tick[x]` says that `x` is about to call `tickle()`. Time is abstract: a
timer becomes due, and a descriptor ready, at any time; `epoll_wait` may return at
any time. Therefore a property such as `TaskCovered` asks for a wake-up *on its
way*; that a sleeper wakes by itself within 2500 ms does not count.

### IOEvents

A slot `<<fd, event>>` is an event and whoever waits for it. `Ctl` is `epoll_ctl`
of an edge-triggered set: `rdy` holds what will be reported, and ADD or MOD reports
what is ready already. `batch[th]` is what `epoll_wait` has returned to `th` and
`idle()` has not handled. An ASSERT that fails is recorded in `aborted` and ends the
behaviour, as it ends the program; their runs set CHECK_DEADLOCK FALSE for this
reason.

### Timer

`m_timers` is a set of pairs `<<key, timer>>`, the key being `m_next` *at
insertion*: `find` and `erase` act on `Key(t)`, with the present `m_next`. The
clock is read where the code reads it, which may be before a lock is taken
(`Construct`, `ReadClock`). A delay may be 0, as the hooked sleeps pass it: such a timer
is due when it is inserted. The runs stop at `MaxTime`, hence CHECK_DEADLOCK FALSE.

### HookIO

One descriptor number and one event of it. `conn` counts how often the number has
been opened, `owner[c]` is the opening a call was made for. The timer passes through
`timerSet` (in m_timers), `listed` (callback scheduled), `cancelling` (callback
between its test and `cancel`). Three variables that never change after `HookInit` say
how the program is deployed: `kind` (all calls are reads and the like, or all are
`connect`), `oneThread` (a step of the program may start only when every fiber is
suspended), and `ownerCloses` (a descriptor is closed only while no call uses it;
the TCP server's sessions do so). TLC explores six of the eight deployments in one run,
without those with several threads and another fiber that closes (see Known counterexamples),
and each property names the deployments it holds for.

### TcpServer

A fiber of `startAccept` is identified by its socket and the call of `start` that
scheduled it. `top` is the test of `m_isStop`, `try` the system's `accept`, `wait`
the yield inside `do_io`, `woken` the time until it runs again; `Retry` is the
`goto good` of `do_io`. A socket is open as long as `m_socks` or a living fiber
refers to it (`Socket::ptr` is a shared pointer). The backlog is a queue per
socket, in the order in which clients came. `late` counts, up to 2, the clients each fiber
has accepted since `stop` was called. The task of `stop` is split into its loop
(`CancelAll`) and `Clear`, because fibers run on other threads in between.

### Sockets

One `Socket` object and the kernel's table `fds`: what each number stands for
is nothing, a descriptor of this Socket in one of its states, or somebody else's; the
kernel gives the lowest free number. A fiber is at a `spot`; a call that waits keeps
the number it was made with (`fd_`), as a hooked call does. The rest of the program
opens and closes descriptors of its own (`OthersOpen`, `OthersClose`). `close()` is
`close`, `SysClose` and `Forgets`; `singleThread` says whether other fibers may come
between these. Any fiber may connect it while another waits in its own connect(), or has been woken and
not run yet. `harmed` remembers that somebody else's descriptor was closed, `swapped` that
`m_isConnected` was set by a connect() whose number was another's by then. No two fibers read
one number at a time, where `IOManager::add` asserts.

### AsyncLog, LogFormat

An event is its number in the order of the calls of `log()`; a stream is open or
not, good or bad. The thread's steps are `Turn` (the test of the loop), `Swap`, and for
each write `Sentry` (is the stream good?), `PutBytes`, `WriteDone`; `Reopen` and `Rolling` close the
stream under the appender's lock, which the thread does not hold, and `OpenAgain` opens it.
`Initialise` and `OpenFirst` are the constructor after the thread has started. The
patterns of `LogFormat` grow by a character; `Vec` is what the loop of `init` cuts,
`format` the line that comes out, and `Meaning` reads the pattern a character at a time, in
the modes text, letter, braces.

### Daemon

An invocation is a run of the program from the shell, with or without `-d`;
processes have numbers that are used once. What the kernel does (signals, `waitpid`)
is external; `Ends` is how the daemon reads the status, `Names` the writing of the pid
file, `SetHandler` and `Bind` the two points of `main()` from which on a signal or a second
server is treated differently.

### ConfigVar

Each setter is in one call at a time, at one of its steps: the read lock with one
callback after the other, then the write lock. A listener keeps what it was told. A name
stands for itself in lower case; `capitals` says that it is written otherwise (`cased`).

### Buffer, ByteStore

Blocks have `m_baseSize` bytes, `m_cur` is 0 for the null pointer; one action per
operation, with the loop over blocks as an operator (`Places`). `ByteStore` has a
sequence, a position and the result of the last call; the refinement mapping puts
the blocks one after the other. An operation that follows the null pointer
is named in `fault` and is the last one, which `buffer_end` asks about. The loop of
`writeToFile` is a function of the number of its turns (`AfterTurns`).

### HttpStream

A byte is what it is to the parser: part of a head, its end, a digit of a chunk's
size, CR, LF, or the v-th byte of a content. The socket gives any number of bytes
that were sent, or the end. `HttpNext` follows the loops of the three functions; the
buffer, `parse_offset`, and the copies out of it are explicit, and bytes that a copy takes
from the wrong place are seen in the content.

### HttpRequestParser, HttpResponseParser, UriParser

A state of the generated machine is a place in the grammar of the `.rl` file, and an
edge is a set of characters, a list of actions, a next place. The three modules
translate the generated tables, not the grammar: what ragel made of a
priority or of an ambiguous rule is what the code does. Actions set the parts with
`mark` and `field_start`, as in `http_parse.cpp`. The next-state relation feeds one more
character of a set that has a member of each class the machine tells apart,
after each of a list of beginnings that reach the parts of the head. The
properties compare with a reference that splits the text at its separators.

### HttpParams, TextCodecs

Texts are sequences of bytes. The client's `setPath`, `setQuery`, `setCookie`,
`setContent` are actions, `toString` and the server's view are operators.

### HttpAnswer

The file has an inode, a size, a time and a version; others write, replace and
remove it, and the clock ticks. The handler's steps are `lstat`, the choice of the
answer, the head, and each block that is read and sent, with the sleeps of a limited
rate. `lengths` remembers how long the file was since its content was chosen. A client keeps what it
got, with the validators, and asks again.

### Servlets, Authorization

The two lookups of `getMatchedServlet` are two steps, between which modules add and delete
entries; `covered` and `choices` remember which table has had an entry all the time, and which
servlets were right at some moment. The manager's mutex covers `init`, that is `__lstat` and
the reading, and not `check`.

### WsMessages, ChatRoom

`WsMessages`: a message is cut into frames by the sender, which pings between them;
bytes arrive up to any point where the connection may break. `ChatRoom`: a session's
fiber is at one step of `handle()` or of a send; a write to a full socket waits.
`oneThread` and `roomy` (no write waits) are variables that never change: each part of
`Room` names the deployment it holds for.

### WebDav

Locks are in a set in tree order: an element whose key was changed may be missed by a
descent, so `Finds` and `Inserted` give every outcome that some shape of the tree has (`Descents`).
`refreshes` remembers whether a refresh has looked for its lock so far, and missed it;
`orderly` says that none has. A request
is a thread's `step`: the tests of the header, the lock it cancels, the second test
of the destination, the operation on files. `workers` says whether one thread serves
all requests or two do.

### ConnPool

A connection is where it is (idle, with a caller, being deleted), connected or not,
and with or without an open transaction on the server. The pool's lock covers the list
only; ping, reconnect and delete are steps outside of it. `redis` chooses between the two
managers, which differ in when they mark a connection and record errors.

### JsonText, Bencode, Addresses

Values are built with the operations of the class (one action each) and written and
read by operators that follow the code. Integers have `Width` bits, so that both edges of
their types occur. These modules use recursive operators and are for TLC only.

## Runs

| Run | Instance | Shows |
|---|---|---|
| `scheduler` | 2 workers + caller, a fiber and a callback, 1 yield each | exclusive running, exact counter, nothing lost, drained at stop, queued is taken, stop returns, refines `FiberPool` |
| | hooked calls: 2 fibers, one with a timeout, 2 openings, 6 deployments | timeouts and `close` end the wait, `connect` tells the truth, no stale registration |
| `iomanager_workers` | 2 workers, 2 tasks | one wake-up per task, exact pending count, timers covered, no task left |
| `iomanager_alone` | caller only, 3 tasks | the early return of `stop`; whoever waits is served, nothing waiting is left |
| `idle` | 1 descriptor, 2 threads, `del` used | epoll and the count in step with the IOContexts, no missed and no double wake-up, who is ready is woken |
| | one-shot + recurring timer, delays 0 and 2, 2 threads | set order, wake-up in time, cancel is final, timers fire |
| `services` | 19 components, see below | one property per component or group of them |
| `server_processes` | the accept loop, a Socket, the log, the daemon | descriptors belong to their holders, events are kept, the server is reached and restarted, `stop` ends when clients come |

The last two runs take one component at a time, chosen by `part`:

| Property | Component | States |
|---|---|---|
| `LockTable`, `GuardedWrites` | `WebDav` | as long as each refresh has found its lock: none is lost; with one worker no two clients hold locks that exclude each other, and nobody changes what another's live lock protects, at the moment of the change |
| `Room` | `ChatRoom` | who is logged in is reached under that name; who has left does not keep it; frames do not mix: each for the deployments named in it |
| `PoolInv` | `ConnPool` | a connection is in one place and has one user, who finds no transaction open |
| `MessagesArrive` | `WsMessages` | the messages received are the first of those sent, in order, however cut, with pings between; no frame is lost while the connection stays whole |
| `AnswersRight` | `HttpAnswer` | Content-Length is what follows, or less follows because the file had no room for the part (it has shrunk since, or is empty); "not modified" is never said of an older copy; the rate is kept |
| `DispatchRight` | `Servlets` | an entry that stays in its table is found, a path before a pattern |
| `FileKnown` | `Authorization` | of the names in the file, the passwords compared are those of the file with that time, unless two versions have one time |
| `ListenersAgree` | `ConfigVar` | what is stored was told to every listener, last: but for one added during a change, two setters at a time (for "last"), and names with capitals |
| `TextsReadBack` | `HttpStream` | contents survive any cut into reads |
| | `HttpParams` | parameters, cookies, paths of any bytes arrive |
| | `HttpRequestParser`, `HttpResponseParser` | the parts of a head are those between its separators; heads end where they end; what is written reads back |
| | `Bencode`, `JsonText`, `TextCodecs`, `Addresses` | writer and reader agree, and arrays with holes are sequences |
| | `UriParser` | `UriRight`: each part of a URI is what stands between its separators, and what is accepted reads back, but for paths without a slash in front; nothing is thrown for a URI whose host and port, if marked, are there and whose user has no colon |
| | `LogFormat` | a pattern is refused exactly when it has no meaning, and a line is what it means |
| `ImplementsStore` | `Buffer` | refines `ByteStore` |
| `AcceptorInv` | `TcpServer` | accepting fibers stay registered, at most one late client for each |
| `SocketInv` | `Sockets` | on one thread the Socket closes its own descriptors only and wakes its waiters, and is connected when it says so, unless a connect() went on with another's number (`swapped`) |
| `BusyServerEnds` | `TcpServer` | no client starves; `stop` ends when clients come |
| `LogKept`, `LogFlushed` | `AsyncLog` | an event is in the file, in a buffer, lost or dropped, in the order of the calls; it is lost only to a close in the middle of a write, and dropped only where a buffer is too small or exactly full; each is written or given up in the end |
| `Reachable`, `Supervised` | `Daemon` | commands reach the one server; a crash has a successor, a stop ends the daemon |

Each of these properties has a mutant of the code that breaks it (`mutants` in `PROJECT.json`):
of a property that names several components, one that breaks it for one of them; more such
changes of the code stand, as mutants, in the modules. The early return of `Scheduler::stop`,
which needs a scheduler without workers, is model-checked in `iomanager_alone` (where it is the
same code over an overridden `stopping`), and covered for `Scheduler` itself by the theorem
`StopsDrained`.

Six runs expect a violation; each states what a comment, an assertion or a document of the
repository says, and TLC shows how the code breaks it (`findings` in `PROJECT.json`):

| Run | What happens |
|---|---|
| `ioevents_stale_report` | a report of both events, one handled already: `trigger` asserts |
| `hook_late_add` | the timer fires before the event is registered: no timeout |
| `socket_swapped` | a `close` wakes who waits in `connect`, the number becomes another's before he runs, and the Socket without a descriptor says it is connected |
| `tcpserver_stop` | `cancelAll` wakes the hooked `accept`, which tries again and waits again: the port stays open until another client comes |
| `webdav_refresh` | `LOCK` changes the key of a lock that is in the set, `refresh` misses it, the set is out of order, and the next `eraseExpired` takes a lock that has not expired |
| `buffer_end` | the position is set to the end of a full last block: the null pointer behind it is followed before it is tested |

### Bounds

Two threads and a caller give every pairwise race; what a third thread adds is another copy of
a race, and most safety properties are proved for any number (see Proofs). In `IOEvents` two
threads hold reports, and a `cancel`, or one of the two, makes the other's stale. Two or three
tasks suffice for one that runs, one that is queued behind it and one that schedules them.
`MaxYields` bounds how often a task suspends itself: the second suspension is the first one
that follows a resumption on another thread. `Delays` has 0, due at once, and 2; `MaxTime` lets timers of
either fire and be reset, and lets a thread sleep for `MaxTimeout`. `MaxConn` 2 lets a stale callback or a
stale fiber meet a later opening of its number. `MaxStarts` 2 is one restart.

`Fds` has two numbers: the Socket's own, which may go to somebody else, and another.
`BufferLen` 3 with lengths up to it fills a buffer exactly, nearly, and not at all. `MaxForks`
5 is two invocations with restarts, `MaxCrashes` 1 with `MaxSignals` 2 lets a command meet the
window of a restart. Blocks of two bytes, at most two of them (three in `buffer_end`), and calls
of up to two bytes reach each boundary. `MaxEntries` 3 is a lock that is in the table twice and
another one. In `webdav_refresh` four locks with one timeout of 3 are the fewest that show it,
and five entries are these and one that is put in again. `HeadLen` 2, `Radix` 2 and
`BufferSize` 4 make each field of a message longer than one read may be. `Width` 8 has the
edges of an integer within reach of three digits. `MaxPattern` 5 holds two directives, or one
with a text in braces. The parsers get every sequence of up to three characters, of all
classes but the two brackets of a tag, after each of the beginnings in `MCServices`, which reach
every part of a head and hold the tags, so that each pair of neighbouring edges of the machine is
taken. `MaxClock`, `MaxNow`,
`MaxSeconds`, `MaxMtime` bound clocks: a lock expires, a rate is exceeded, a connection grows
old. `MaxObjects`, `MaxItems`, `MaxParams` are two or three: one, another, and a repetition; in
`services` callbacks are told only while one parameter has been made (`OneIsTold`), as a second
object has callbacks of its own. A
component stops at its bound, hence CHECK_DEADLOCK FALSE.

### Fairness

Threads run (weak fairness of the loop of each thread: the operating system
schedules them and no loop waits for another one). A task ends or suspends itself
(weak fairness of `Yield` and `Finish`): a fiber that never gives the thread up is
not the scheduler's fault. `epoll_wait` returns, because its timeout is at most
2500 ms. `stop`, once called, proceeds. The clock runs, and in `iomanager_alone`
each peer answers; in `HookIO` no peer needs to. Expiry and the callback of a
timer, and the steps of a fiber, are strongly fair in `HookIO`, because on one
thread they are enabled only between the steps of other fibers, and the queue is
first come, first served (`QueuedIsTaken`). In `TcpServer` the system's `accept`
succeeds if it is tried again and again with a client in the backlog; only
`server_processes` assumes, in addition, that clients keep coming to an open socket
(`TcpFair`, that is `BusySpec`), which `tcpserver_stop` shows to be needed. The thread
of the log runs; it gets its lock in the end, strongly fair because `reopen` and
`rolling`, which come seconds apart, hold it between two of its attempts (`LogFair`).
The parent of a server is not stopped by anybody (`DaemonFair`); its child may crash.
Nobody is obliged to call anything. `MCServices` has safety properties and a refinement without
liveness, and no fairness.

## Known counterexamples

Where a passing property has a condition, the condition is needed: without it the
code behaves as follows. The table can be reproduced with the change that it names; a
property that says what a comment promises without the exceptions stands in the module,
and takes the place of the INVARIANTS and PROPERTIES of the configuration named.

| Property | Change | What happens |
|---|---|---|
| `TaskCovered` (`IOManager`) | `IOSpec`, `Workers = {w1}`, `UseCaller = FALSE` | a task is queued between a thread's scan and its `m_idleThreadCount++`: no wake-up; it waits up to 2500 ms |
| `LeavesNoWaiter` (`IOManager`) | the same | a task adds a timer between the reads of `stopping`, and all threads leave |
| `ContextAssert` (`IOEvents`) | `UseDel = TRUE` | `reset` always throws: `del(fd)` leaves the write half (nothing in the framework calls `del`) |
| `NeverReplaced` (`HookIO`), "what exists already cannot be replaced" (`iomanager_epoll.cpp:128`) | without `oneThread \/ ownerCloses` in `FiberInit` of `MCHook` | on several threads another fiber than its user closes a descriptor: the call registers after the cancel of `close` and is forgotten; when the number is opened again and waited for, `add` asserts |
| `NoFalseConnect` without `oneThread` (`HookIO`) | | a late timeout of an earlier `connect` lets a later one succeed early |
| `OneAcceptor` (`TcpServer`), the same assertion | `MCServer.cfg` | `start` before the task of `stop` has run: two fibers accept on one socket, and the second to wait fails the assertion |
| `NamesIgnoreCase` (`ConfigVar`), "names do not depend on case" (`config.h:863`) | `MCServices.cfg` | a name with capitals is never found: each `get` makes another parameter, and `load` sets the last |
| `LateListenersToldToo` (`ConfigVar`), "if the value has changed, the callbacks are notified" (`config.h:987`) | `MCServices.cfg` | a listener added between the callbacks and the store is not told of the change |
| `LastToldIsStored` (`ConfigVar`), the same | `MCServices.cfg` | of two setters the first to notify stores last, and the listeners keep the other value |
| `SuffixIsLast` (`HttpAnswer`), "the last 500 bytes" (`http_common.cpp:688`) | `MCServices.cfg` | `bytes=-1` of a file of 5 bytes: two are sent |
| `DefaultIfNoneMatched` (`Servlets`), "used when no path has matched" (`servlet.h:205`) | `MCServices.cfg` | an entry moves from the patterns to the paths between the two lookups: the default answers |
| `PathIsKept` (`UriParser`), the drawing at `uri.h:14` | `MCServices.cfg` | `urn:a` has an empty path |
| `UriOrNull` (`UriParser`), "a Uri if it could be read, else nullptr" (`uri.h:39`) | `MCServices.cfg` | a part that ends without having begun: `create` throws |
| `SocketInv` (`Sockets`) without the test of `singleThread` | `~ singleThread` in `PartsInit` | two `close()` calls close a number twice, the second time somebody else's; two `connect()` calls leak a descriptor |
| `LocksDisjoint`, `GuardedWrites` without the test of `serial` (`WebDav`) | | two LOCKs are both granted; a file is changed after a lock on it has been granted |
| `LocksKept` without `orderly` (`WebDav`) | | the run `webdav_refresh` |
| `LoggedInListed` without `oneThread`, `FramesWhole` without `roomy` (`ChatRoom`) | | two sessions take one name; frames of two senders mix |

**Sockets.** A `connect` that goes on after its number was reused asks another
descriptor for its error and says "connected" (`socket_swapped`). The `close()` of a failed `connect` may close what a later
one has opened. `m_localAddress` is kept from an earlier descriptor, and after a `bind`
to port 0 it keeps 0. `reconnect` of a live connection fails with EISCONN and closes it.
A `recv` is tried again on the number it was called with.

**WebDAV.** Between the test of a request and its file operation another thread may grant a
lock. `refresh` may leave a lock in the table twice, so that UNLOCK does not release it, and
expired locks that are out of order linger; when it has missed its lock, the next expiry may
drop a live one (with a real `std::set`: four locks of 3 s, or three if a refresh shortens the
timeout). DELETE and MOVE of a collection do not look at locks inside it. COPY, MOVE and DELETE
cancel the client's lock before the tests of the header that may refuse the request. The move
removes the destination before the rename that may fail.

**Database clients.** A connection whose reconnect fails is leaked. `execute` always
clears `m_hasError`, so that a transaction with `auto_commit` and a failed statement goes
back to the pool open. The size of a pool bounds idle connections only.

**HTTP messages.** When the head of a chunk is split between two reads the parser starts
anew in the middle. The client copies the first bytes of a content from the start
of the buffer, where the head is. Requests that were sent before the last answer
are dropped with the buffer. In the parser of responses: an empty value of
Connection, Transfer-Encoding or Content-Length takes the line end for a space, and a
head that ends there is never finished, or the next field's name reaches into bytes
that were not read; an empty reason is read as "\r"; "gzip, chunked" is not taken for
chunked; a chunk of 2^31 bytes or more has a negative size. In that of requests: a line
without ":" takes the end of the head into a name; a method that begins like a known one is
read as that ("GETX"); the authority of an absolute URI becomes part of the path
("//host/path"); blanks after a value are kept; six groups of an IPv6 address are
spelt `6( h16 ":" )`, the byte 6 and one group; `uri_relaxed` is never initialised.

**HTTP parameters and files.** A piece of a query without "=" swallows the parameter after
it; values of a form are not decoded; `getParam` decodes a name that is decoded
already; `HttpClient::DoRequest(url)` encodes path and query twice. "bytes=-N" sends N + 1 bytes (`SuffixIsLast`); a
range of an empty file begins at a wrapped size; a file that shrinks while it is sent
leaves the answer short; If-Range and the content are looked up one after the other; HEAD
gets a body; If-None-Match compares a prefix.

**Servlets and their guard.** An entry that is moved from the patterns to the paths
between the two lookups is answered 404 (`DefaultIfNoneMatched`). A second change within a second is missed; a name that
is taken out of the file stays; when the file is gone the entry is
erased and the servlet is open to all; `check` reads the table that another request's `init` writes.

**Log.** `m_running` is initialised when the thread runs already, which may leave its
loop at once. A stream that is closed and opened in the middle of a write is open and
bad, which `reopen` does not cure. A "%" that ends a pattern is dropped without an
error; a time format of more than 64 bytes prints an uninitialised buffer.

**Daemon.** Between a crash and the restart `-s` finds no server, and a second daemon may
start; when that one ends, it removes the other's pid file. `-s` to a child that has crashed
but has not been waited for is reported a success, and the child is started again. `-r` before
`sigaction` ends the child.

**Configuration.** `config.h:863` says names are case-insensitive, but `get` looks
up the name as it was given (`NamesIgnoreCase`). A callback that sets or watches its own parameter asks
for the lock its caller holds. Of two threads that set a parameter the last one told
need not be the last one stored (`LastToldIsStored`); a listener added between callbacks and store misses
the change (`LateListenersToldToo`).

**Buffer.** Besides `setPosition` at the capacity: a read of nothing at the end follows the null
pointer, and `writeToFile` from the middle of a block subtracts the offset from a length that may be
smaller.

**Text.** Bencode: `operator==` compares strings with `<`; empty strings are written and
cannot be read; `removeIndex` asks for a dictionary. JSON: an array with holes that is
resized to a smaller size throws; "-" reads as 0; a lone low surrogate is replaced when it is
written. URI: the path of "urn:example:animal:ferret:nose" is empty
(`PathIsKept`); "user:pw@host", "file:///etc", "http://h:" construct a string
from a null pointer and throw (`UriOrNull`); "u:80@h" has the user "80"; "a/b" has the path "/b"; the
whole URI is lower-cased; "[fe80::1]" is refused. `trimRight` drops the last
character; `split` with a maximum of 1 sets no limit. WebSocket: a ping with a payload or a mask
puts the two ends out of step; an empty data frame closes the connection. Addresses: one
zero group that is the last gets a colon too many; an IPv6 host without brackets is
split at its first colon; a prefix of 0 shifts by the width.

## Proofs

TLC checks the instances above; the theorems below hold for every value of the constants
that satisfies the assumption named in the module. Eight modules hold them. Each proves
an invariant that is inductive (initially true, kept by each action) and stronger than
the property; what had to be added to the property, and why, is said here.

| Theorem | Property | Assumption |
|---|---|---|
| `SchedulerProofs`: `MutualExclusion`, `CounterExact`, `StopsDrained`, `NoTaskLost` | `OneThreadPerFiber`, `CountersExact`, `Drained`, `NothingLost` | `SchedulerAssumption`: finitely many threads, at least one; the caller is not a worker |
| `Refinement` | `ImplementsPool` | the same |
| `IOManagerProofs`: `OneFiberEach`, `WakeUpKept`, `NoTaskLeft`, `NoWaiterLeft` | `OneThreadPerFiber`, `WakeUpsKept`, `LeavesNoTask`, `LeavesNoWaiter` | the same |
| `CoreProofs`: `EventTables`, `NothingMissed`, `WakesWaitersOnly` | `AllTablesAgree`, `NoMissedEvent`, `WokenOnce` | finitely many descriptors |
| `CoreProofs`: `SetConsistent`, `NoTimerOverslept`, `CancelledStaysQuiet` | `SetInv`, `WakesInTime`, `CancelIsFinal` | a thread; finitely many delays, 0 among them or not |
| `CoreProofs`: `ListenersTold` | `ListenersAgree` | a value to set |
| `CoreProofs`: `BufferImplements` | `ImplementsStore` | a block has at least one byte |
| `HookIOProofs`: `NothingLeft`, `ConnectTruthful` | `NothingLeftBehind`, `NoFalseConnect` | the number is opened at least once |
| `ServerProofs`: `AcceptorSafe`, `SocketSafe`, `ServerReached`, `EventsKept` | `AcceptorInv`, `SocketInv`, `Reachable`, `LogKept` | descriptors, lengths and bounds are natural numbers |
| `ServicesProofs`: `PoolSafe`, `RoomSafe` | `PoolInv`, `Room` | `PoolSize` is a natural number; `Nobody` is not a user |
| `WebDavProofs`: `LocksHold`, `WritesGuarded` | `LockTable`, `GuardedWrites` | paths are not empty; what has something below it is a directory |
| `DeliveryProofs`: `MessagesDelivered`, `FileAnswered`, `RightServlet`, `PasswordsKnown` | `MessagesArrive`, `AnswersRight`, `DispatchRight`, `FileKnown` | keys of masks are not empty; sizes are natural numbers, a block and a second not 0; 0 stands for no password; patterns match paths that there are |

**Scheduler.** `Exclusive` needs to know that a task's right to run is
in one place (`OneToken`: armed, once in the queue, or taken) and what a fiber's
state says about its holder (`HeldState`: a fiber back from `swapIn` that has not
ended is still EXEC, so the scan passes over it, although it may be queued again).
`Drained` needs `QuietInv`: from the first `stopping()` that holds on, nothing can
become active again, since only running tasks schedule tasks; `CountInv` turns the
counter the code tests into "no thread holds a task". `CountInv` counts threads with
`Cardinality`, hence the lemma `CountMove` on moving one thread between two sets.
`IInv` is the conjunction; `InitInv` and `StepInv` prove it inductive conjunct by
conjunct, each with one step per action. Lemmas on sequences (`RemoveAtSet`,
`AppendSet`) say what the queue's operations do to its set of entries. `Refinement`
needs two facts more (`MapInv`): a task that is taken is taken by one thread, and the
pool counts the suspensions that the fiber has made. Each step is then a step of
`FiberPool` or leaves the pool's variables as they are.

**IOManager** has the actions of `Scheduler` over another idle loop, so the inductive invariant
is built anew (`IOInv`). The conjuncts of `Scheduler` that do not speak of the idle loop are
kept (`RunInv`). To them come: where a thread may be in `idle()` (`PlaceInv`); that a callback
that a timer holds is nowhere else and has not run (`HoldInv`); that the pending count is exact
but for the events that are being triggered (`PendingExact`); that once all threads have left
nothing starts again (`LeftInv`); that `m_tickled`, which keeps others from waking anybody,
means that a thread will ask for the earliest timer before all sleep, or that a wake-up is on
its way (`CoverInv`); and, for the caller alone, that what it has read in `stopping()` still
holds (`AloneInv`). TLC checked `IOInv` on three instances before it was proved.

**IOEvents.** `AllTablesAgree` is inductive by itself: it already relates all tables.
`NoMissedEvent` is inductive given it; the case that matters is a report that is stale
for one of its events, where the `epoll_ctl` that follows reports anew what is left.
The count is a `Cardinality`, so each of the six paths has a lemma on adding or taking slots.

**Timer.** `WakesInTime` depends on `m_tickled`, whose meaning is `TickleInv`: if it is
set, somebody is about to be woken or is awake, and will look at the set again.
`ClockInv` says that every time that was read from the clock lies in the past, so that a timer
is due no later than its delay from now, and `CallbackInv`
that a one-shot timer a thread has listed has lost its callback, which is why
`cancel()` cannot answer true for it. `Min` and `Max` of finite sets are shown to exist
first (`FiniteBounds`).

**Buffer.** A theorem of refinement: each step of the chain of blocks is one of `ByteStore` or
leaves its variables alone. `BufInv` says that the chain has room for what there is and that, as
long as no null pointer has been followed, `m_cur` is the block of the position, or null at the end of
the last block. The place of a byte is a quotient and a remainder; the prover has no
arithmetic of products by a constant it does not know, so the lemmas give it what is needed
(`DividedOnly`: a quotient and a remainder are the only ones; `Within`, `Further`), and then say
what `Places`, `Stored`, `Loaded`, `Grown`, `Moved` come to in terms of bytes (`PlacesAre`,
`StoredIs`, `LoadedIs`, `GrownIs`, `MovedIs`). `writeToFile` is a recursive function: that it
exists (`PiecesExist`) and what it has copied after k turns (`FileInv`, by a least
counterexample) is proved for it. `FileInv` says what the code does from the middle of a block: either all
that has been copied is what is there, or the rest is shorter than its offset and the loop runs
into a negative length or the null pointer (`Lost`), so that a wrong file is never mistaken for a finished one.

**ConfigVar.** `ConfigIInv` adds to the two parts of `ListenersAgree` (`ToldInv`,
`GivenInv`) what a thread in the middle of `setValue` has told to whom (`SetterInv`), and that
two such threads on one parameter are noted (`AloneInv`).

**HookIO.** `HookIInv` adds that a timer or its callback belongs to a call that has not
returned (`CallTimers`); that nobody begins to wait between the steps of `close()`
(`ClosingInv`); that a descriptor that only its user closes is the one its call was made for
(`OwnerInv`); that what epoll is about to report has happened, and a connection stays
made (`LevelInv`); and that a fiber is woken by its own timer, or because its call would
succeed (`WokenInv`). Each part names the deployments it holds for, as the properties do.

**Servers.** `TcpIInv` adds that a client waits in one backlog, once (`OnePlace`), that `start`
schedules fibers that have not been before (`StartsInv`), and that a fiber that has
accepted after `stop()` is at the test that ends its loop (`LastOne`). `SocketIInv`, for one
thread, says that one fiber closes at a time, and closes the one descriptor of the Socket
(`CloserInv`, `OneDescriptor`), and that the number a call was made with stands for that descriptor
until it is closed (`CallInv`). `DaemonIInv` says that the address is bound by the process that
serves it and, unless two invocations have raced, that one invocation is at work, that it waits for
each process that is there (`Awaited`), and that the file names the one that has written it (`NamedInv`). `LogInv` adds to
`LogKept` when the thread has buffers (`WritingInv`), that a stream is bad, or an event lost, only after the
steps of a write met those of `reopen` or `rolling` (`StreamInv`), and that what a buffer holds are the
events since some moment (`CurInv`), from which follows that a drop needs a buffer exactly full (`DropInv`).

**Services.** `PoolIInv` adds that a caller has a connection just while it is not asking
for a first one (`HasOne`), and that the server has nothing open once a transaction has
ended with success (`EndedOnServer`). What `erase` leaves in the list is a
recursive function in the model, which the prover can unfold. `ChatIInv` says where the only thread
may leave a fiber (`RunInv`), that the name that is about to be added is still free (`AddInv`), that who is
leaving is no longer in the table (`LeaveInv`), and who is in the middle of a frame (`FrameInv`).

**WebDav.** The searches of `std::set` find what they should only in a table in order. `OrderInv`
says that it is in order but for the lock whose key has just been changed, until the first
refresh that misses its lock; `TestedInv` says of each step of a request that what its test
found still holds when it is acted on, which is where the single worker is needed. The lemmas say
that in such a table a search finds each lock (`FindsAll`), an expiry erases exactly what has
expired (`ExpiryExact`), an insertion keeps the order (`InsertKeeps`), and that a walk up and down the tree
sees every lock that excludes the path (`SeenFromBelow`, `SeenFromAbove`). The condition
`orderly` in the two properties is not a convenience: the run `webdav_refresh` shows what happens without it.

A theorem has the exceptions of its property, which the runs that expect a violation, or the
counterexamples above, show to be needed: `SocketSafe` that of `swapped`; `AcceptorSafe` says nothing of
the assertion in `add`, which ends a behaviour; `PoolSafe` permits the open transaction of
`auto_commit` with a failed statement and the leaked connection; `ListenersTold` excludes the
listener that comes during a change, two setters at a time, and names with capitals; `EventsKept`
an event lost to a close in the middle of a write; `FileAnswered` a file that has become too short, or is
empty; `RightServlet` an entry that is moved; `PasswordsKnown` a name that has been taken out of
the file, and two versions with one time; `RoomSafe`, `LocksHold`, `WritesGuarded` name their deployments.

**Delivery.** Four theorems, each with an invariant of its own. `WsInv`: what the sender has been asked is a ledger
(`asked`), and each entry says what has been said up to it (`LedgerInv`), without taking back a
message that was complete (`OrderInv`); the receiver is at some entry i, has the messages up to
it, and what is on its way are the pieces of the frames after i, cut short only if the
connection has ended (`ReceiverInv`, `Transit`); and a connection is closed for a reason
(`ReasonInv`). `AnswerInv`: the answer is empty up to the content (`EarlyInv`), the part that was chosen lies
in the file as long as it is that file (`RangeInv`), what has been written fits (`SendInv`); a time
that was the file's is never its time again after a change (`Dated`), which is why a copy with that time
is not stale (`StaleInv`); and who sleeps may send when he wakes (`WakeInv`). `ServletInv`: what is
called covered has an entry still, and the servlet that is right now is one of the choices.
`AuthInv`: no time that is kept is later than that of the file.

### What is only model-checked

- Liveness and what depends on fairness or ENABLED: `StopReturns`, `QueuedIsTaken`,
  `StopServes`, `Fires`, `ReadyIsWoken`, `CallsEnd`, `BusyServerEnds`, `LogFlushed`, `Supervised`.
  The prover has no rules for them.
- `TextsReadBack`: it compares recursive definitions (the parsers and the loops that feed them,
  `HttpParams`, `Bencode`, `JsonText`, `LogFormat`, folds in `TextCodecs` and `UriParser`) for every
  input, which takes an induction over data.

With these exceptions each property of a passing run is a theorem. The violations are shown
by TLC alone.

## Not modelled

In the modelled parts: a scheduler that is started again; failing `epoll_ctl` calls
(except for closed descriptors in `HookIO`); a clock that goes back; `EINTR`; more
than 40 events per `epoll_wait`; the growth of the table of IOContexts, which a slower
thread may undo; the ids of fibers, which only the log reads; `bind` of the servers; TLS; the
UDP server, which has no accept loop; the encodings of numbers in a Buffer, its `read` at
another position than the present one, and the capacity that a failed read from a socket has added; the handshake
of a WebSocket; results and replies of the databases; PROPFIND and the contents of
WebDAV answers; conversions between configuration and JSON; comments in JSON.

Components: pthread wrappers (a critical section is one action here); zlib and iconv
streams (library calls); cppjieba (vendored, and not called); worker groups and the table
of modules (filled once at start-up and only read afterwards); `create/` (a shell script).

## Plan

To be modelled next: the growth of the table of IOContexts, as part of `IOEvents`, with the
resize that a slower thread undoes; the handshake of a WebSocket; the UDP server. To be proved, should the
prover get rules for it: the liveness properties, beginning with `QueuedIsTaken`, for which
`IInv` of the scheduler says which thread has to take the task.

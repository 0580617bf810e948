# A TLA+ verification of eComInit's service manager

The repository holds the beginnings of a service manager in the manner of SMF and systemd: a
daemon (`sys.manager`) that keeps service configuration in SQLite and talks JSON-RPC over a
Unix socket, the tools that talk to it or to its repository, a code generator for the RPC
stubs, and the small libraries they share. This directory models its control: the two
drivers of the event loop, the server built on it, the RPC transport and the code generated
for it, the repository with everyone who uses it, and the `sd-daemon` compatibility library.
Each model is written from the source; `PROJECT.json` maps every definition to the lines it
stands for.

## 1. Inventory

| Part | Source | State | Operations | Hard because |
|---|---|---|---|---|
| Event loop, `poll()` driver | `lib/eci/Event-Poll.cc` | `signalFired`, `signalsFired[]`, self-pipe, `timers[]`, `sigSources`, `timerSources`, `pFDs`, `fdSources` | `sigHandler`, `addFD/Signal/Timer`, `delFD/Timer`, `loop` | a signal handler runs between any two instructions; callbacks change the lists being scanned; ids and descriptors are reused |
| Event loop, `kqueue()` driver | `lib/eci/Event-KQueue.cc` | kqueue, source lists | same interface | lists and kernel filters change in separate calls that may fail; handlers delete what `loop` stands on; one event per call |
| WSRPC transport | `lib/eci/WSRPC.cc` | `curMsgLen/Off/Buf`, `completions`, `received` | `writeObj`, `doRecv`, `readyForRead`, `processMessage`, `sendMessage`, `awaitReply` | blocking reads, fragments, timeouts and late replies, nested synchronous calls |
| WSRPC listener | `lib/eci/WSRPC.cc` | `clientXprts` | `fdEvent`: accept, drop, dispatch | clients close at any moment |
| Manager | `cmd/manager/Manager.cc`, `RPC.cc` | `shouldRun`, the loop, the listener, the backend | `init`, `run`, callbacks | one thread does everything |
| Backend | `cmd/manager/Backend.cc`, `lib/eci/SQLite.c` | two SQLite connections, a prepared statement | `init`, `repositoryInit`, snapshots, `shutdown` | death between schema and metadata; locks |
| addsys | `cmd/addsys.cc` | bundle tree, one connection | `parse`, `process*`, `import`, `deleteBundle` | one transaction over many statements; concurrent runs |
| Composed property query | `lib/eci/queryGetInstancePropertiesComposed.sql` | - | one query | layers against instance level |
| wsrpcgen | `cmd/wsrpcgen/*` | scopes, syntax tree | parse, name lookup, emit stubs | what the emitted code does with good and bad requests |
| sd-daemon | `lib/eci-daemon/sd-daemon.c` | environment, `errno`, descriptors, notification socket | `sd_listen_fds`, `sd_is_*`, `sd_notify*`, `sd_booted`, `sd_watchdog_enabled` | errors half-way, state that calls leave to each other |
| Core | `lib/eci/Core.c` | pipe of a pending process | fork-and-wait, exit status, `timeSpecToMSecs` | parent and child; no caller |
| lssys, Logger, lemon | | | | see `components` in `PROJECT.json` |

How they interact. `Manager::run` calls `EventLoop::loop` until a SIGINT callback clears
`shouldRun`. `loop` dispatches flagged signals and timers, polls, and calls `fdEvent` per
ready descriptor; the manager hands it to `WSRPCListener::fdEvent`, which accepts (and
through `clientConnected` calls `addFD`), drops (through `clientDisconnected`, `delFD`) or
lets the transport read. A complete request goes to the generated dispatcher, then to a
`Manager` method, which may call the backend; its result is written back to the same socket
before `loop` goes on. Everything but the signal handler is one thread, so the concurrency
is thread against handler, manager against its clients, and process against process on the
SQLite files: `addsys` opens the repository itself, without asking the manager.

What makes the parts correct:

- Event loop: nothing is dispatched that did not happen; what happened stays on record until
  it is dispatched; timer ids and flags belong to the timer that has them now; every
  flagged event is dispatched; lists and kernel agree.
- Server: the tables of descriptors agree; an event reaches the connection it was reported
  for; the byte stream stays in step; a call has one answer; closed clients go.
- RPC client: a call is settled once, by its own reply or by giving up, and returns.
- Generated code: arguments and results arrive, of their types and whole as far as the
  conversions are; success means executed.
- Repository: an import is all or nothing and as if alone; references hold; the composed
  view is the highest layer of the most specific level; nothing is served half made.
- sd-daemon: a claimed descriptor can be used; a barrier orders; what is passed is announced.

## 2. Modules

| Module | Models | Role |
|---|---|---|
| `EventLoopPoll` | signals and timers of `Event-Poll.cc` | specification and properties |
| `EventLoopPollProofs` | - | TLAPS proofs about `EventLoopPoll` |
| `ManagerServer` | `Manager` run loop, descriptor side of `Event-Poll.cc`, listener, server side of a transport | specification and properties |
| `WSRPCTransport` | a process that calls and is called over one connection, and its peer | specification and properties |
| `RPCService` | what a caller is promised | abstract specification, implemented by `WSRPCTransport` |
| `EventLoopKQueue` | `Event-KQueue.cc` over the kernel's queue | specification and properties |
| `TimerService` | what `Event.hh` promises of a timer | abstract specification, implemented by `EventLoopKQueue` |
| `Repository` | tables, bundle processing, import, deletion and the composed query, as operators | used by `RepositoryAccess` |
| `RepositoryAccess` | runs of `addsys` and the manager on the repository files | specification and properties |
| `WSRPCGen` | name lookup and the code `wsrpcgen` emits, run on one call | specification and properties |
| `SdDaemon` | `sd-daemon.c` and the service manager it talks to | specification and properties |
| `WSRPCTransportProofs`, `EventLoopKQueueProofs`, `ManagerServerProofs`, `RepositoryAccessProofs`, `WSRPCGenProofs`, `SdDaemonProofs` | - | TLAPS proofs about the module of the name |
| `FoldInduction` | - | induction along a left fold and along a recursion on the naturals, for a step given as a constant operator |
| `MC...` | - | the instances TLC checks, and the claims of comments that the code does not keep |

Operators that end in a word like `Forgotten`, `Kept`, `Late`, `Short`, `Twice` stand next
to the definition they distort. They are the mutants of `PROJECT.json`: plausible slips in
the code that the named property must notice.

### 2.1 EventLoopPoll

Variables carry the names of the code. `signalsFired`, `valid` and `fired` are sets of
indices instead of Boolean arrays. `pc` names the next step of the one thread; `ret` is
where a callback returns to, so client code (`pc = "client"`) is the program outside
`loop()` when `ret = "loop"` and a callback otherwise. Client code may add and delete timers
anywhere; signals are added outside `loop()`. Atomicity: the handler suspends the thread, so
each delivery (`Deliver`, `Expire`) is one action, possible before every step of the thread,
and the thread's steps are cut wherever it touches a flag the handler writes. Lines 302 and
303 are two steps; line 188, a read-modify-write of the byte two bit-fields share, is two
steps (the default build is unoptimised and does emit a load and a store).

A timer is the n-th successful `timer_create()`; `sival`, `ktimer` are the kernel's view of
it, `timer` the handle in the table, `timerSources` the list by arming number (the list only
grows at its end, so its order is that of the numbers). The entry past the end of `timers`
is given storage of its own, one of the outcomes a build can have. History variables:
`raised` and `passes` count deliveries and passes per signal, `owed` holds the sources not
yet told of a delivery, `fate` what became of a timer the client was given.

Left out: `printf` in the handler; a `kill -ALRM` from outside, which carries no entry
number; errors of `sigaction`; `delTimer` of an id the client does not hold; its return
value (always `-ENOENT`).

### 2.2 ManagerServer

A client connects, writes messages, shuts down or closes at any time. A message is two
writes of `writeObj`, the length and the body; of a body only matters whether it is a call
(a request with an id: always answered, with a result or an error) or not. `sock` is what is
written and not received. The kernel gives out the lowest free descriptor, so descriptors
are reused at once. `pFDs` is the array without the self-pipe, with `revents`; `i` is the
index of the scan, kept as in the code: after a `delFD` the next entry sits in slot `i`,
`pFDs[i].revents = 0` then clears that entry's event, and the scan goes on at `i + 1`. The
blocking `recv()` for the body is a step that is not enabled until the client writes or ends
its stream. SIGINT is the only signal here. Lines 302 and 303 are two steps (`CallLoop`,
`ClearSignalFired`), and a SIGINT that comes between them is `"lost"` until the next one. The
manager ends by `Exit`, by SIGPIPE (`ProcessMessage`), by the assertion in `doRecv`
(`ReadLengthAborts`), or, when `addFD` has reallocated `pFDs` and then fails to make the
source (76-85), in freed memory (`mode = "dangling"`).

`MaxMsgs` bounds the messages of all clients together.

Left out: partial bodies (they are in `WSRPCTransport`) and lengths, a full sending buffer,
`POLLERR` alone, the backlog limit of 10, what the service methods do.

### 2.3 WSRPCTransport and RPCService

The process under study has a `stack` of activations: `awaitReply` of a synchronous call,
`readyForRead` called by the event loop, and callbacks - a method implementation or a
delegate - from which further calls are made, so that synchronous calls nest as deep as
there are calls. `rx` is the receive state of `doRecv`, `received` the replies that found no
completion, `err` and `done` what each completion was given, `ret` what a stub returned. The
peer answers calls in any order, makes requests of its own, writes a message as a length and
a body in one or two pieces, and may close at any time. A body in two pieces is written over
itself by `doRecv` line 399: what is parsed may be the message, another object or no JSON at
all. `poll()` may time out whenever there is nothing to read. Undefined behaviour - the
range-for over `received` from which the element is removed - is a choice between going on
and dying.

`RPCService` is the abstract view: a call is invoked, its method is executed at most once,
and the caller learns success or error only after that, or gives up. The refinement maps the
stub's result and the delegate's call to `outcome`; a wrong, repeated or early result would
map to no state of `RPCService`.

Left out: `EINTR`, a full sending buffer, memory, `rand()` giving the same value twice (the
mutant `RandRepeats` shows what it would do) or 0.

### 2.4 EventLoopKQueue and TimerService

`filters` and `active` are the kernel's queue (external). A filter whose condition comes true
is queued behind the others, once; `loop` takes the first whose condition still holds, and
those before it leave the queue. A signal's report clears it, a one-shot timer's report
removes its filter, and a descriptor goes to the end of the queue, where it is reported
again as long as it is ready. When the write filter is refused, the read filter added before
it is taken back, or that fails too and `orphans` keeps the descriptor. All operations may be
called between calls of `loop` and from within a handler. `HandlerReturns` is the rest of
`loop`'s branch, where a timer's source is erased through an iterator that the handler may
have invalidated (`Crashed`). Assumed of the program, as the manager does it: a descriptor is
added once and deleted before it is closed, and some event is asked for (`POLLIN | POLLHUP`,
so never the empty set). Left out: failing `addSignal` and `addTimer`, which leave the lists
as they were (the double failure of lines 128 and 136 excepted), and the missing `return`s of
`init` and `addSignal`.

### 2.5 Repository and RepositoryAccess

A bundle is a tree of named strings, objects and arrays; `process` makes a service with
properties, pages and instances of it, `import` writes it to the tables, all as operators,
so that a transaction is one value `tx` computed from what the run has read. A table is a
function from ids to rows; `seq` is `AUTOINCREMENT`. In `RepositoryAccess` a run of `addsys`
goes through opening, reading the old bundle (shared lock), writing (reserved), `COMMIT`
(exclusive), release and exit; each step meets the locks of the others at once as an error,
because no busy handler is installed. The manager goes through `Backend::init` file by file,
then answers snapshot requests that read row after row. Everyone may be killed between any
two steps; a run killed in `COMMIT` leaves a hot journal. SQLite's locks are external.

Assumed: `-c` is given only while nobody uses the file (SQLite's own rule for removing a
database); the repository at hand has the services of `Seed`, because `addsys` cannot create
one (section 5): a run on a bundle of another service is refused with its transaction begun.
`RefCount` stays what it is at insertion, as in the code, where nothing writes it.

### 2.6 WSRPCGen

An interface is data: scopes, type definitions, programs, versions and methods. One call is
followed from the stub through `handleReq` to the implementation and back; requests of
clients that were not generated lack arguments or have wrong ones. The implementation may
succeed, set the result itself, or fail. `serialise` and `deserialise` are what the emitted
`wsRPCSerialise...` functions do, down to the flag they leave (`DeserialiseInto`: for a list
whose elements are all good the flag stays what it was, which is why a method that begins
with a list refuses every call). Three conversions lose something, and the model keeps what
they do: a string goes as `c_str()` and is read as one (`CStr`), an int64 is narrowed to int
(`ToInt`), and an enum, whose value is a number that several entries may have, comes back as
`kMax` - and is refused - if its number is one more than the last entry's.

What recurs in the code is a function on the naturals here: `search[n]` follows parents and
imports n scopes out, `values[n]`, `objects[n]`, `serialise[n]`, `deserialise[n]` and
`carried[n]` go n levels into what nests. `Nesting` and `Depth` are the levels an instance
uses; `FoundIn`, `Serialised` and `Deserialised` are the bodies of the code's functions, with
the recursive call left to the level below. Types may refer to themselves through lists.

The reference definitions are written from the language, not from the generator: `visible`
and `Member` say what C++ takes a name for (the innermost scope that has it; everything
included is one outermost scope; a further part is a member), `Values` which values a type
has, and `Carried` what the way to the other side leaves of one: strings end at their first
NUL, all else is as it was. The interfaces modelled are those whose emitted code compiles and
means something:

- `ScopeAssumption`: imports do not go in circles, a scope defines a name once;
- `Clear`: a name has one meaning, and each further part is a member of the one before;
- `DefAssumption`: the entries of an enum differ in name and in string;
- `ProgramAssumption`: a program defines no types of its own. Its scope would be written
  `name::`, which is no class (that is `nameVTable`, gen.cc:848), and the stubs and delegates
  are outside the class that holds them;
- `WireAssumption`: method and version, joined, name one method among all that are served.

`wsrpcgen` checks none of the five: they are up to who writes the interface. C++ objects to
an unclear name; nobody objects to two entries with one string, or to two programs on one
transport with a method of one name and version, where the first program has the calls of
both. `ForeignAssumption` is what libucl guarantees of a parsed object: a key per member.

### 2.7 SdDaemon

State is what calls leave to each other: the environment (each variable unset, malformed,
out of range, or a number), `errno`, the open and close-on-exec descriptors, the
datagrams the service manager has not read. A function is an action that sets `last`;
`sd_notify_barrier` is two, with the wait between. The service manager (external) reads in
order, or goes. The kinds of a descriptor and the arguments of the `sd_is_*` predicates are
small sets. What `strtoul` gives is narrowed to `pid_t` and `int` as the code narrows it
(`Narrowed`), with a small `IntMax` in the instance: a `LISTEN_PID` of 2^32 + pid is taken for
ours, and a large `LISTEN_FDS` wraps.

## 3. Runs

| Run | Instance | Question |
|---|---|---|
| `loop_safety` | 1 signal delivered twice and SIGALRM, array of 1 entry (2 with the one past its end), 3 armings, pipe of 4 | the invariants and the action property of signals and timers |
| `loop_liveness` | 2 signals around SIGALRM, each delivered twice, 2 entries, 2 armings, pipe of 4 | is every flagged event dispatched |
| `lost_signal` | 2 deliveries | Event-Poll.cc:299: not so between lines 302 and 303 |
| `server_safety` | 3 clients, 2 descriptors, 2 messages, clients symmetric | do the tables agree, are events true, do streams stay in step, one answer per call |
| `server_liveness` | 2 clients, 2 descriptors, 2 messages | are calls answered, closed clients dropped, a SIGINT that was not lost obeyed |
| `client_calls` | 2 synchronous calls, 1 asynchronous, 1 request of the peer, replies to one call in one or two pieces | own reply, once; nothing overlooked; stream in step; refinement; do calls return |
| `nested_reply` | the same calls | WSRPC.hh:194: a call that was completed during a nested one returns a timeout |
| `kqueue_loop` | 1 descriptor, 1 signal, 2 timers | lists against kernel; refinement; starvation |
| `sd_daemon` | 3 descriptors, 26 environments, 2 calls | barrier, claims, kinds |
| `repository_imports` | 4 bundles (two of one file, one of the administrator's layer, one of a new service, which is refused), the manager started 3 times with other options | references, serial commits, whole repositories, the composed view; do runs and snapshots end |
| `rpcgen_calls` | structs (one of lists of itself), lists of up to 2, enums (one meets its `kMax`, one has a number twice), a string with a NUL, an int64 that is no int, shadowed names and names imported twice over, 2 programs, nesting of 4, chains of 5 scopes, foreign requests | conversions, dispatch, results |
| `missing_param` | same | WSRPC.hh:128: a call that was not made is answered with success |

Why the bounds are enough. Three armings on two entries let an entry be used, freed, used
again from inside a callback, and freed there. A second delivery of a signal can come while
the first one's sources are being told. Five signals on a pipe of four fill it. Two signal
numbers on either side of SIGALRM (liveness) put a delivery before, at and behind the
position of the scan, and two timers share one flag. Three clients on two descriptors make
`accept()` fail, two entries hang up in one scan, and a descriptor come back for another
client. Two messages, of one
client or of two, show the receive state after a complete message and the independence of
connections. Two synchronous calls nest in either order, with the asynchronous one's
delegate and the peer's request as the places to nest in. Two timers beside a ready
descriptor and a signal queue behind each other in every order. Two runs of the same file
and one of another beside the manager make all the pairs of lock holders. Two calls of
`sd-daemon` are enough for the first to leave state for the second. A nesting of four is a
struct with a list of structs, and a tree of trees; five scopes lead from an enum in a struct
through its unit and the unit's import to what that imports.

The runs of the event loop and the server check deadlock; the ends they know about - the
process crashed or stuck in its handler, the manager gone - have stuttering actions of their
own (`Halted`, `Gone`). The others say `CHECK_DEADLOCK FALSE`: all calls made and answered,
all runs of `addsys` over, or the process dead, is a proper end there.

The properties:

- `NoSpuriousDispatch`, `DeliveryStaysRecorded`: signals are neither invented nor forgotten.
- `LiveTimerIdsUnique`, `FiredIsOwnExpiry`, `FlaggedTimerIsAnnounced`,
  `TimerEventOnlyAfterExpiry`: reuse of entries never confuses two timers, and `timerEvent`
  is called for a timer that has expired and was not told yet.
- `FlaggedSignalIsDispatched`, `FlaggedTimerIsDispatched`: liveness, with the window between
  lines 302 and 303 excepted, which `lost_signal` shows to be necessary.
- `DescriptorsAgree`, `ReportedEventIsTrue`, `FramingInStep`, `EveryCallAccountedFor`;
  `CallIsAnswered`, `ClosedClientIsDropped`, `InterruptStops`.
- `OwnReplyOnly`, `NoReplyOverlooked`, `InStep`; `KeepsPromise` (the refinement);
  `CallReturns`.
- `SourcesMatchFilters`; `KeepsTimerPromise` (the refinement); `EventReachesHandler`.
- `ReferencesIntact`, `ComposedIsReference`, `ServesWholeRepositories`; `CommitsAreSerial`,
  `ImportEnds`, `SnapshotEnds`.
- `ArgumentsArrive`, `ArgumentsConform`, `SuccessMeansExecuted`, `ResultComesBack`.
- `BarrierMeansConsumed`, `KindsExclusive`, `ClaimIsUsable`.

Those of the runs that end in a violation are in section 5.

Every module has a `TypeOK` that documents its variables. That of `EventLoopPoll` is checked
by a run and proved; those of the other modules are proved (section 4).

Fairness. `EventLoopPoll`: weak fairness of the thread (it is scheduled, callbacks return,
`Manager::run` calls `loop()` again), except that `poll()` is only obliged to return when
the pipe is readable or its timeout passed. None for signals or timers. `ManagerServer`:
weak fairness of the manager and of a client between the two writes of `writeObj`, which
writes the body or dies; without the latter the blocking `recv()` is a counterexample to all
three properties. `WSRPCTransport`: weak fairness of the process's own steps, of `poll()`
reaching its deadline, and of a peer that has begun to write a message; the peer need not
answer. `EventLoopKQueue`: weak fairness of `loop` (it is called again) and of handlers
returning. `RepositoryAccess`: a process that can go on does, stated over `pc` and `lock`
(`AddSysGoes`) and over the manager's place (`SnapshotGoes`); nobody has to be started or
killed.

## 4. Proofs

Every invariant and every action property that a run checks is proved for every value of the
constants, with the two refinements. Each inductive invariant was first given to TLC on the
instance of its run. A step lemma has one case per action; a theorem then combines the
initial states and the steps. The assumptions are the named `ASSUME`s of the modules; TLC
evaluates them on every instance.

### 4.1 EventLoopPollProofs

For every number of signals, table entries, sources and armings and every pipe capacity
(`SignalAssumption`, `BoundAssumption`):

- `TypeCorrect`: `Spec => [](TypeOK /\ CounterInv)`. `CounterInv` keeps the loop counters
  inside their arrays; without it `sig + 1` and `timID + 1` could leave their types.
- `SignalsSafe`: the two signal invariants. `DeliveryStaysRecorded` needs `OwedInv`: what
  is owed is owed to an existing source other than SIGALRM's.
- `TimersSafe`: the three timer invariants, from the inductive `TimerInv` and
  `AnnouncedInv`. A timer lives in three places - table entry, source, kernel timer - that
  change at different lines; `AddingInv` and `DeletingInv` say how they stand inside
  `addTimer` and `delTimer`, `LiveInv` and `ValidInv` tie live timers and valid entries to
  each other, `ArmedInv` says whose SIGALRM may still come, `SourceInv` and `IteratorInv`
  what the list holds while `loop()` keeps an iterator across a callback.
- `TimerEventsInOrder`: the action property, over the step that calls `timerEvent`, from the
  same invariant.
- `NoSpuriousDispatchHolds`, `LiveTimerIdsUniqueHolds`, `FlaggedTimerIsAnnouncedHolds`: the
  parts of those conjunctions that a run checks, each by
  itself.

### 4.2 ManagerServerProofs

For any finite set of clients, any descriptors and any number of messages
(`ServerAssumption`): `TablesAgree`, `EventsAreTrue`, `StreamsInStep`, `CallsAccounted` and
`ServerTypes`. The parts of `IInv` and what they are needed for:

- `Tables` is `DescriptorsAgree` with "no descriptor twice in `pFDs`" in place of "as many
  entries as sources". Only so does `delFD`, which removes the first entry with the
  descriptor, remove the last one; the count follows by a bijection.
- `Owners`: a client has one connection, which is pending or accepted. Without it an
  `accept()` could give a second descriptor to the same stream.
- `TurnState`: between the halves of `doRecv`, and in `processMessage`, the scan stands at an
  entry of an open connection. `ReportedEventIsTrue` is inductive together with it, although
  entries move while the array is scanned.
- `Framing` extends `FramingInStep` to empty streams and to connections not yet accepted:
  lengths and bodies take turns from what `doRecv` waits for to what the client writes next.
- `Accounts` extends `EveryCallAccountedFor` to clients that wait for `accept()` or whose
  `addFD` failed; `CallsFew` bounds the counters by what was written.

### 4.3 WSRPCTransportProofs

For any finitely many calls, any requests of the peer and any depth of nesting
(`TransportAssumption`): `OwnReply`, `NothingOverlooked`, `KeepsPlace`, `TypeCorrect` and
`PromiseKept`, which is that `WSRPCTransport` implements `RPCService`, step by step. The parts
of `IInv`:

- `IdsDistinct`, `PeerInStep`, `RepliesTruthful`: an id belongs to one call, and a reply,
  wherever it is, carries the id of a call that was executed. `OwnReplyOnly` rests on these.
- `ReplyInOnePlace`: a reply is being written, in the stream, in `received` or consumed, and
  only one of them. A completion is therefore settled once, which the refinement needs.
- `StackShape`, `AwaitState`: below the innermost activation there are callbacks, and calls
  that will scan `received` as soon as the callback above them returns; a call that waits in
  `poll()` or `recv()` has no reply in `received`. `NoReplyOverlooked` rests on these.
- `StreamShape`: pieces follow each other from what `recv()` expects to what the peer writes
  next, also when a body comes in two pieces. `InStep` is its first link.

### 4.4 EventLoopKQueueProofs

For any descriptors, signals, events wanted and number of timers (`KQueueAssumption`):
`ListsMatchKernel`, `DriverTypes`, and `TimerPromiseKept`, which is that `EventLoopKQueue`
implements `TimerService`. Beside `TypeOK` and `SourcesMatchFilters`, `IInv` has `Reported`:
the list of descriptors and the queue hold an element once, so that erasing the first
occurrence is enough; ids are those given out so far; and a timer that was reported has no
filter but keeps its source until its handler returns. The last part is what makes a second
report map to no step of `TimerService`, and so rules it out.

### 4.5 RepositoryAccessProofs

For any runs of `addsys`, bundles, services at hand and starts of the manager
(`AccessAssumption`: the documents of the well-formed runs are what the parser hands over,
layers are 1 to 4, options are ones `Manager::init` accepts). Two invariants:

- `Control` says who holds which lock where, which files the manager has found whole, and that
  what a run has read and written is still the import into what is committed. From it
  `ServesWhole` and the action property `SerialCommits`. `LocksExclude` is what keeps
  `ReadsCurrent` and `WritesCurrent` while other runs go on.
- `Soundness`: the committed tables and those of every transaction are sound - ids in use were
  given out, every reference has its row, layers are layers, and, as nothing raises
  `RefCount` and every import removes the bundle it replaces, a file has one bundle. From it
  `References`, `ComposedAgrees` and, with `Control`, `TypeCorrect`.

That an import keeps tables sound is an induction over the bundle. `import` is a nest of left
folds, and each gets its induction from an instance of `FoldInduction`, whose step and
invariant are constant operators: `FoldUnfolds` and `FoldKeeps` are proved there once, by a
least counterexample, so no rule with an operator parameter is needed. `ComposedAgrees` shows
that the maximum the query takes exists and is the reference's for any sound tables.

### 4.6 SdDaemonProofs

For any environments, descriptors passed and number of calls (`SdAssumption`):
`BarrierConsumed`, `KindsNeverMix`, the action property `ClaimUsable`, and `TypeCorrect`.
`BarrierMeansConsumed` is not inductive while a daemon waits; `AllQueued` (no
datagram is lost while the service manager is there) and `BarrierQueued` (the barrier is in
the queue at the place behind all that was sent before it) make it so.

### 4.7 WSRPCGenProofs

For any interface, values, programs served and requests of other clients that satisfy the
assumptions of 2.6. The argument has four parts, the first three about
what recurs, by instances of `FoldInduction`:

- Names. `LookupIsRecursive`: a search of `Nesting` scopes has settled, so that
  `lookupIdentifier` satisfies the equation of `scope.cc`, without a bound. `AgreeAt`: what
  is found at a level is visible there, and nothing is found only where nothing is visible.
  With `Clear`, along the parts of a name, `NamesAgree`: generator and C++ take a name for
  the same type.
- Round trip (`RoundTripAt`): what `serialise` makes of a value is an object of the same
  depth, and `deserialise` refuses it (an enum with the number `kMax`, somewhere inside) or
  makes what `Carried` says of it, which is a value of the type. The cases are a list, a type
  libucl knows, an enum (distinct strings) and a struct (distinct ids).
- Conformance (`ConformsAt`): whatever object `deserialise` accepts, it makes a value of the
  type of it, one level deeper where a single element was taken for a list.
- The call. `TakenSo` follows `handleReq` along the arguments: those taken are as wanted, and
  a refusal with `succeeded` set means that an argument is missing after a good one. From
  there `StubTaken` and `ForeignTaken`. The inductive invariant `IInv` says by stage what is
  known: who sent the request (`Sent`), that one implementation at most was called, with what
  was taken (`RanOnce`), and whether a reply means refused, failed there or succeeded, and
  then that its result is what was returned. The four properties are not inductive without
  it: a reply does not show what was executed, nor the caller's value what was sent.

Theorems: `ArgumentsAlwaysArrive`, `ArgumentsAlwaysConform`, `SuccessAlwaysExecuted`,
`ResultAlwaysComesBack`, `TypesStay`, with `NamesAgree` and `LookupIsRecursive`.

### 4.8 Only model-checked

Liveness - `FlaggedSignalIsDispatched`, `FlaggedTimerIsDispatched`, `CallIsAnswered`,
`ClosedClientIsDropped`, `InterruptStops`, `CallReturns`, `EventReachesHandler`,
`ImportEnds`, `SnapshotEnds` - since the prover has no reasoning about fairness and `ENABLED`.

## 5. Results against the documentation

Three runs end in a violation; each finding quotes the line it contradicts:

- `lost_signal`: a signal between lines 302 and 303 of `Event-Poll.cc` waits for the next
  one. A SIGINT lost so leaves the manager running, which `InterruptStops` excepts.
- `nested_reply`: a call whose reply came during a nested call is completed with it, and
  `awaitReply` goes back to `poll()` (364) and returns a timeout.
- `missing_param`: the generated handler reports success for a call it did not make.

Further deviations are visible in the models and have no run, because a property would
repeat one assignment or guard:

- `Event-Poll.cc`: the self-pipe is never read (61), so `poll()` returns at once ever after
  and a full pipe blocks the handler for good (`mode = "stuck"`); entry 256 of 255 is given
  out (134); an id is reused while its source is still in the list, inside a callback (329);
  an expiry inside the read-modify-write of line 188 is lost; a `ts` of zero disarms the new
  timer (158); kernel timers that went off are never deleted (322); `addFD` may throw after
  `pFDs` was moved (76-85).
- `WSRPC.cc`: a late reply to a closed client ends the manager by SIGPIPE (137); `doRecv`
  blocks half-way (399) and asserts instead of ending the connection (393); when the peer
  closes in the middle of a message `awaitReply` goes round for ever (332); a string ends at
  its first NUL (169, 199), and an int64 is narrowed without a check (191).
- Generated code: the methods of a later version cannot be reached (`gen.cc:830`;
  `WSRPC.hh:126`); a method whose first argument is a list refuses every call (742); the
  synchronous stub drops a local failure (607); an enum entry whose explicit value is that of
  `kMax` is refused (511).
- `addsys.cc`: the insertion of a service the repository does not have leaves out `Type`
  (230), which `repositorySchema.sql:5` declares `NOT NULL`, so that no new service can be
  imported; nothing in the repository ever raises `RefCount`, so `import` deletes the old
  bundle of a file, which the comments (182-188, 202) say is retained when a snapshot was made
  from it; a page other than a method ends the run (531; `service_bundle.5:230`).
- `Backend.cc`: a repository that lost its metadata row is refused ever after; a read-only
  manager that meets a hot journal goes round for ever (126).
- `sd-daemon.c`: pids and counts are narrowed without a check (266, 294, 1052), so that
  another's `LISTEN_PID` can pass for ours; `errno` is tested after `strtoul` without having
  been cleared (268), so that `sd_listen_fds` returns an earlier failure in place of the
  descriptors passed (`sd-daemon.h:59`); the loop over the names does not advance (361).
- `Event-KQueue.cc`: only the first source of a signal is told (363); a handler that deletes
  its own timer makes `loop()` erase freed memory (338); when undoing a half-made addition
  fails too, the read filter stays in the kernel without a source (81-85).

## 6. Not modelled, and plan

Not modelled: the grammars and the lexer of `wsrpcgen` (generated code); unions, whose emitted
code compiles but whose `serialise()` has no return statement and whose `deserialise()` reads
the type and keeps no member, so that there is no round trip to state (the one IDL of the
repository, `io.eComCloud.eci.IManager.x:27-32`, declares a union, and no method uses it);
interfaces whose emitted code does not compile: lists of strings (`string outEl`, gen.cc:115),
lists of ints or bools as arguments of `handleReq` (the literal `suc`, gen.cc:118; as members
and results they are modelled), two lists in one block (declared twice) and programs with
types of their own (2.6); `lssys` (one call of
`WSRPCTransport`); `persistentInstanceLookup` and the fork-and-wait handshake of `Core.c`,
which nothing calls; the epoll driver (no code); log output; `lemon` (vendored).

Left: `ManagerServer` could be shown to implement `RPCService` per client, which would join
the two ends of a connection.

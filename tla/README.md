# Vettaiyan EDR: specifications, model checking and proofs

Vettaiyan is a Windows endpoint detection and response system: a kernel driver and a file-system
minifilter collect telemetry, and a user-mode agent (a Windows service) tracks processes by it,
judges behaviour, scans files, responds, and ships the events to a backend. This directory holds TLA+
modules of its concurrent core, the configurations by which TLC checks them on small instances, and
proofs that TLAPS checks for every instance: of each module's type, of every invariant the runs check, of
the action property and of the refinement. Paths below are relative to `src/`; D, F and A stand
for `VettaiyanDriver`, `VettaiyanFilter` and `VettaiyanAgent`.

To use it, in this directory: `tlc -workers 2 -config MCFilterPort.cfg FilterPort` (each cfg's module
is in the table of runs), `tlapm EventBufferProofs.tla`.

## 1. The system

    kernel callbacks --PushEvent--> event queue --read IOCTL--> driver event thread --+
    (process, thread, image,        (D/EventBuffer.c)           (A/EventReceiver.cpp)  |  one mutex
     registry, handle)                                                                 +--> OnKernelEvent
    file-system callbacks --FltSendMessage--> port --FilterGetMessage--> filter thread-+      |
    (F/FsCreate, FsWrite, FsSet, FsClose)                                                     |
          process tracker <- behaviour engine -> response engine (kill, quarantine) <---------+
          telemetry shipper -> backend          scan queue -> scanner thread -> YARA ---------+
          service worker (scanner pipe, shutdown), command thread (command pipe), dashboard

| component | state | operations | what makes it hard |
|---|---|---|---|
| Driver event queue, `D/EventBuffer.c` | a list under a spinlock, its count, a sequence number, statistics | PushEvent, DrainEvents, GetNextSequenceNumber, Cleanup | several processors push while one thread drains; the capacity test and the statistics are outside the lock; the copy to the agent is too |
| Driver load and unload, `D/Driver.c`, `D/CallBack*.c`, `D/DeviceHandler.c` | device, link, five registrations, the queue | DriverEntry, DriverUnload, the callbacks, open, read, close | callbacks run on any thread from the moment of their registration to the end of their removal; DriverEntry may fail half way |
| Minifilter, `F/*.c` | client port, server port, the agent's process id, references on file names | four pre-operation callbacks, one completion, connect, disconnect, send, unload | the agent connects, hangs, dies and reconnects around callbacks in progress; the completion may be drained |
| Event receiver, `A/EventReceiver.cpp` | two threads, two handles, a stop event, callbacks under a mutex | poll, receive, dispatch, shut down | its shutdown waits five seconds per thread and goes on without it |
| Process tracker, `A/ProcessTracker.cpp` | a map from process id to node | create, terminate, evict, alert | ids are reused, events are late or lost |
| Behaviour engine, `A/BehaviorEngine.cpp` | (rules) | one Analyze per kind of event | judges by the tracker's nodes, not by the system |
| Agent service, `A/Agent.cpp` | the phases that are up, service status, stop event, scan queue | start, pipe loops, dispatch, automatic response, stop | a stop at any point of the start or of a wait |
| Response engine, `A/ResponseEngine.cpp` | quarantine entries and vault, the isolation flag (and the firewall's rules) | KillProcess, QuarantineFile, IsolateEndpoint, RemoveEndpointIsolation | two threads, files that change meanwhile, an id instead of a process; rules that outlive the agent, a netsh that outlives the wait for it |
| YARA scanner, `A/YaraScanner.cpp` | compiled rules | scan a file | the path must be one it can open |
| Telemetry shipper, `A/TelemetryShipper.cpp` | transit buffer, batch, counters | ShipEvent, ShipperLoop, shutdown | a backend that fails for long; put-back into a buffer that filled up; a shutdown at any moment |
| ETW consumer, `A/EtwConsumer.cpp` | the kernel's session, the open trace, its thread, callbacks, two deques | start, trace, dispatch, shut down | the session outlives the agent; the thread opens it in its own time; callbacks are called without a lock |
| Telemetry database, `A/TelemetryDb.cpp` | a connection, three statements, one mutex | open, store, close | three threads, and failing inserts nobody looks at; the file outlives the agent |
| Web dashboard, `A/WebServer.cpp`, `A/Notification.cpp` | the server and its pool, the list of event streams under a mutex | views, commands, streams, broadcast, stop | each stream holds a thread of the pool; streams are deleted by their own threads, and cleared by the stop |
| Web page, logging, helpers | see section 8 | | |

What each of these must guarantee is what the modules' properties say (section 4): events are neither
lost nor doubled nor reordered except where the code drops them; every counter agrees with what it
counts; callbacks never meet a queue or code that is gone; nothing the agent does can stop the
system's file I/O; the agent's picture of the processes converges; what is scanned, shipped or killed
is what should be; and every shutdown ends. `PROJECT.json` lists each hazard at its line.

## 2. The modules

| module | models | granularity |
|---|---|---|
| `EventBuffer` | `D/EventBuffer.c` | each statement on shared state is a step: the test at :186, the allocation, the lock, the insertion, the interlocked increment, the unlock, the statistics; in the drain the loop, the read and the write of `g_EventCount -= drainCount`, the copies |
| `LossyChannel` | what the queue promises the agent | abstract: an event is lost before it enters or arrives once, in order, or is thrown away with all the rest |
| `DriverLifecycle` | `D/Driver.c`, the registrations in `D/CallBack*.c`, open, close and read in `D/DeviceHandler.c` | each call of DriverEntry and DriverUnload is a step; a callback enters, tests `g_Initialized`, inserts, leaves |
| `FilterPort` | `F/*.c` and FilterGetMessage in `A/EventReceiver.cpp` | a callback takes the name, decides, builds, looks at the port, waits, releases; connect and disconnect are two assignments each; the cleanup is three steps |
| `AgentService` | start, pipe loops, control handler and shutdown of `A/Agent.cpp`, the threads of `A/EventReceiver.cpp` | each phase of start and shutdown, each wait of a thread |
| `AutoResponse` | dispatch, `A/ProcessTracker.cpp`, `A/BehaviorEngine.cpp`, OnBehaviorDetection, KillProcess | an event is received, tracked, judged, answered and booked in five steps, between which processes end and begin |
| `ScanPipeline` | the scan queue, the scanner thread, QuarantineFile | push and signal, pop, scan; check, hash, move and record are steps between which files change |
| `TelemetryShipper` | `A/TelemetryShipper.cpp` | lock, insert, drain, POST, confirm, put back; the shutdown in four steps |
| `Isolation` | the command thread of `A/Agent.cpp` and the isolation of `A/ResponseEngine.cpp` | each run of netsh is begun, ends in time, late or not at all; the agent may die between any two steps |
| `Dashboard` (extends `Isolation`) | `A/WebServer.cpp`, `A/Notification.cpp` | a request is taken by a thread of the pool; a stream is registered, listens, leaves and is deleted in steps; a broadcast writes to one client after the other |
| `TelemetryDb` | `A/TelemetryDb.cpp` | a store locks, executes, unlocks; the close waits for the lock |
| `EtwConsumer` (extends `TelemetryDb`) | `A/EtwConsumer.cpp`, OnEtwEvent and the shutdown's order in `A/Agent.cpp` | each system call of start and shutdown is a step, as are open, trace, remember, dispatch and store |
| `MCEventBuffer`, `MCScanPipeline`, `MCDashboard` | | values of function constants for TLC |
| `EventBufferProofs`, `DriverLifecycleProofs`, `FilterPortProofs`, `AutoResponseProofs`, `TelemetryShipperProofs`, `EtwConsumerProofs`, `DashboardProofs` | | theorems about the module each is named after (and those it extends), section 6 |
| `AgentProofs` | | theorems about `AgentService` and `ScanPipeline`, the two modules of `A/Agent.cpp`'s threads |

Variables carry the names of the code's variables where they have one, and their declarations say
which; actions carry the names of functions. Variables marked "history" record what happened so that
a property can speak of it, and no action of the code reads them; those marked "external" belong to
the system around the code. A definition that is called a variant in its comment is a plausible bug
of the definition after it: with the variant in its place TLC refutes a property (`"mutants"` in
`PROJECT.json` says which), which shows that the property depends on that line of the code.

Composition: `EventBuffer` implements `LossyChannel` (run `event_buffer`), and `AutoResponse` and
`DriverLifecycle` use the queue at that level, as an ordered queue that drops when full and as a
number of pool entries. `EventBuffer` assumes that callbacks run only while the queue is initialized
and that the clean-up meets no one; `DriverLifecycle` shows both (`CallbacksFindQueue`,
`NothingLeftBehind`). `AutoResponse` and `TelemetryShipper` assume that the two event threads dispatch
one event at a time; `AgentService` has the mutex and the threads that outlive the shutdown.
`Dashboard` composes the server with `Isolation`: a thread of the pool that carries out a response
action is the client of the command thread, and both die with the process. `EtwConsumer` composes the
trace's thread and a detecting thread with `TelemetryDb`, whose mutex and statements they share.

## 3. What is abstracted

- An event is its number and its kind (`EventBuffer`), its kind, process and image (`AutoResponse`),
  or its place in the order of arrival (`TelemetryShipper`); JSON, HTTP and layouts are left out.
- `EventBuffer`: the largest event, EDR_PROCESS_EVENT, fits the agent's 256 KB buffer
  (EventReceiver.cpp:27) and is within PushEvent's limit, and no callback is registered before the
  queue is initialized, so the rejections at :176-182 are never reached by a caller. The values of
  the sequence number do not wrap within the bound. GetEventStatistics only reads.
- `FilterPort`: what the Filter Manager guarantees is listed in the module's header. The sequence
  number and the content of an event are left out; whether there is anything to report (empty names,
  kernel threads, other set-information) is a free choice.
- `AutoResponse`: string matching is a free choice among the verdicts; images are those every list
  calls system processes ("critical") or none does ("tool"); thread counts, children, loaded images
  and the list of recent detections are data nothing decides by. A kill succeeds, since the handle of
  a service opens what the code allows to be killed, and is one step with the end of the process. A
  command to kill the agent itself ends the model and is left out.
- `ScanPipeline`: a file's content is "clean" or "bad" and its hash tells these apart, as SHA-256
  does; YARA's verdict is the content at the moment of the scan. Requests of the dashboard
  (WebServer.cpp:312-330) enqueue like those of the pipe, and its actions go through the command pipe.
- `Isolation`: netsh is external. A rule of a name is there or not ("add rule" may add it twice,
  "delete rule" deletes all). Of the runs that nobody waits for any more only the kind is kept
  (`late`), and one that ends may hit any rule, or be followed by another: more than can happen.
  `settled` remembers the last command that was begun, and becomes "unclear" when a run fails or is
  late, when the agent dies in the middle of one, or when there is a late run about as it begins;
  `RulesFollowCommand` speaks of the others. KILL, QUARANTINE and STATUS are in `AutoResponse` and
  `ScanPipeline`.
- `Dashboard`: a request is a view (or a scan request, which only fills the scan queue), a stream or
  an isolation command. What httplib does with its own thread, its queue and the deleted server
  (WebServer.cpp:465) is taken to be harmless; a write to a browser that does not read ends by the
  library's time-out.
- `TelemetryDb`: statements that were prepared and the connection are one: "open". The event
  threads that store detections and kernel events (Agent.cpp:211, :235, :254) take the mutex like the
  trace's thread, one at a time since they share the callbacks' mutex: they are `Detector`, and the
  rows they write are not kept.
- `EtwConsumer`: an event is its number, over all runs, and one of three kinds. The start after a death
  of the agent is that of a new process, with what the kernel (`session`) and the disk (`rows`) kept.
  ControlTraceW, StartTraceW, CreateThread, OpenTraceW and ProcessTrace may each fail; the code looks
  at the result of neither ControlTraceW (EtwConsumer.cpp:201, :260), and `stopFailed` remembers that
  one left a session. All runs' sessions have one name, by which the thread opens what there is. A
  session that somebody else stops or starts under this name is left out.
- `AgentService`: a component is up or not; whether an initialization succeeds matters only for YARA,
  without which the service gives up. Clients of pipes and both sensors may be silent for ever.

## 4. The runs

Runs that pass, with the distinct states TLC finds:

| run | bounds | shows |
|---|---|---|
| `event_buffer` (42 000) | 2 pushers, MaxQueue 1, a buffer of 2, 3 events of sizes 1 and 2 | `CountMatchesList`, `OverrunBound`, `EveryEventOnce` (with the statistics); the queue implements `LossyChannel` (`DeliversInOrder`); `EventuallyDelivered` |
| `driver_lifecycle` (18 000) | 2 threads, 2 entries, 2 loads | by `TypeOK` there are pool entries only while there is a queue; `CallbacksFindQueue`, `NothingLeftBehind` (neither registrations nor threads in code that is gone), `UnloadEnds` |
| `filter_port` (192 000) | an agent's and a program's thread, 2 connections | `NamesAreReleased`, `OwnIoIsSkipped`, `IoCompletes` |
| `agent_service` (74 000) | none: the code's own threads and phases | `EventsFindEngines`, `ShutdownEnds`, `SeenStopEnds` |
| `auto_response` (518 000) | 2 ids, 4 processes, 2 acts, queue 2, 1 tracked | `TrackerCatchesUp`, `ActsAreAttributed` (alerts and kills), `CulpritIsStopped`; by `TypeOK` the agent and unknown processes are never killed |
| `scan_pipeline` (166 000) | 2 files of one name, 2 producers, 2 jobs, 1 write, 1 command | `EachScannedOnce`, `EntriesMatchVault`, `EventuallyScanned` |
| `shipper` (11 000) | 2 producers, batches of 2, a buffer of 3, 5 events | `EveryEventOnce` (with the order of arrival, the counters and what the backend has), `RetryIsWhole`, `EventuallyStored`, `ShutdownEnds`; by `TypeOK` the buffer stays within its limit |
| `dashboard` (206 000) | 2 threads of the pool, 1 notifier, 2 rules, 1 waiting request; starts, deaths and requests unbounded | `ClientsAreLive`, `RulesFollowCommand`, `RequestsAreServed` |
| `etw` (328 000) | 2 starts, 3 events, deques of 2 | `SessionIsOwn`, `EventsInOrder`, `NothingIsPulledAway`, `TraceComesToEnd` |

Each also checks the module's `TypeOK` (`ScanTypeOK` in `ScanPipeline`, whose names differ from those of
`AgentService` so that one module can extend both). Every property is stated in words above its definition.

Why the bounds are enough. Two pushers, with the reader, already make every pair of sections of the
queue overlap, and with MaxQueue 1 the list overruns its limit, which `OverrunBound` is about; a
buffer of 2 with events of 1 and 2 makes a drain stop at an entry that does not fit. (For any number
of pushers and any sizes the safety part is proved.) A buffer of 3 with batches of 2 and 5 events lets
the buffer fill up during a POST, so that putting the batch back drops events. Two loads let what one
life of the driver leaves behind meet the next. Two connections are what it takes to have a reconnect
while a callback of the first is in progress and while the unload is between its steps. Two ids, of
which the agent keeps one, and four processes give each id more than one owner; a tracker of one
node evicts. Two jobs let one be pushed while the scanner takes the other; two workers and one name
make two quarantines collide in the vault. Two threads of the pool are a stream with a command, two
streams, or two commands of which one finds no pipe; two rules are one that is about and another
between which the agent dies; nothing else of `dashboard` is bounded. Two starts let what a dead agent
left (session, rows), or could not stop, meet the next one; a deque of 2 keeps an order, and loses an event at the third
of its kind, and the three events may be of any kind and fall into either run. The bounds are guards of the actions that create events,
processes, requests and writes, never of the code's own steps.

Runs that TLC refutes, each a finding of `PROJECT.json`:

| run | property | what the counterexample shows |
|---|---|---|
| `failed_load` | `NoCallbackSurvivesFailedLoad` | DriverEntry fails at the process or thread callback (Driver.c:106-126) and leaves the image callback registered, the device and the queue behind; DriverUnload is not called for a driver that failed to load |
| `protected_killed` | `ProtectedNeverKilled` | the guard at Agent.cpp:326-353 reads the tracker's node of an earlier owner of the id; the kill at :356 hits the critical process that has the id now. `ActsAreAttributed` says how far it can go: who is hit acted, or got the id later |
| `stop_lost` | `StopCompletes` | the stop comes between the worker's test (Agent.cpp:713) and ConnectNamedPipe (:734) or ReadFile (:739): CancelSynchronousIo finds nothing to cancel and the worker waits for a client that may never come. `SeenStopEnds` shows that this is the only way |

The passing run of the driver leaves the failure of the image, process and thread registrations out
(`MayFail`), since these are what `failed_load` is about; the passing run of the shipper claims
nothing of a deque that two threads were at.

Two more disagreements, plain enough to need no run: ShutdownTelemetryShipper clears the deque without
its mutex (TelemetryShipper.cpp:407) while an event thread, stopped only later (Agent.cpp:762), may be
inserting, although TelemetryShipper.h:44 calls ShipEvent "Thread-safe"; and a closed file is queued
under its NT device path (Agent.cpp:278), which the scan cannot open (YaraScanner.cpp:92), and the
failure is taken for "no match", so that "Auto-scan new executables on file close" (Agent.cpp:268)
scans nothing.

Smaller disagreements between code and comments, seen while modelling and covered by no run of their
own: EventBuffer.c:9 speaks of a limit that the test at :186 lets callbacks overrun (by how much is
`OverrunBound`, proved); EventBuffer.c:24 counts events "including dropped" as generated, while :220
counts only those inserted (`EveryEventOnce` states what holds); TelemetryShipper.h:13 says "oldest
events are dropped", while the put-back at TelemetryShipper.cpp:343 drops the newest (`RetryIsWhole`);
FilterCommPort.c:46 publishes the port before :47 stores the agent's process id, so the agent's own
I/O can be reported in between, and a reconnect between :168 and :170 loses the id
(`OwnIoIsSkipped` states what holds). Also seen, and outside the models: RemoveEndpointIsolation waits
for and closes the handles of an earlier netsh again if a later one cannot be started
(ResponseEngine.cpp:297); the views take page numbers by std::stoi unchecked (WebServer.cpp:124-128);
": connected" is written to a stream outside the mutex that serializes the other writes
(WebServer.cpp:396); the notification is written to its pipe without a time-out (Notification.cpp:30);
the scanner's thread is not joined before FinalizeYara and DeleteCriticalSection (Agent.cpp:767-769).

Nobody looks whether ControlTraceW has stopped a session. Where EtwConsumer.cpp:200 says "Stop any
existing session with same name" and that fails, StartTraceW fails too and the run traces nothing;
where the stop at :260 fails, the handle is forgotten, the session stays for the next run to meet, and
a thread that opens it late traces on until the process ends. `SessionIsOwn` and `TraceComesToEnd`
state what holds all the same: no run traces another's session, and a trace outlives the shutdown's
steps only in that way.

## 5. Fairness

Weak fairness means: a thread that can take a step goes on some time. It is asked of threads that are
inside a procedure of the code, never of the environment, and of nothing that may stay away: no
callback, event, client, command, file operation, stop or unload need ever come.

- `EventBuffer`: WF of a push in progress and of the drain. The agent polls for ever
  (EventReceiver.cpp:49-107).
- `TelemetryShipper`: WF of ShipEvent, ShipperLoop and the shutdown, whose waits and POSTs end by
  timeouts (TelemetryShipper.cpp:271-280). `BackendRecovers`, SF of a POST that succeeds, is an
  assumption on the backend: asked again and again, it answers. Only `EventuallyStored` needs it.
- `DriverLifecycle`: WF of a callback in progress, of loading and of unloading.
- `FilterPort`: WF of the callbacks, since the file system completes what it has begun. Nothing is
  asked of the agent, which may hang in the middle of everything: that is the point of `IoCompletes`.
- `AutoResponse`: WF of both receiving threads and of a dispatch.
- `ScanPipeline`: WF of EnqueuePath, the scanner and QuarantineFile.
- `Dashboard`: WF of the command thread, of the stop, of a thread of the pool with something to do and
  of a broadcast, whose writes end; SF of a stream's thread that wants the mutex of the list
  (`Waits`), since notifications may keep coming. Nothing is asked of browsers and of netsh, which may
  hang for ever: `RequestsAreServed` holds by the five-second limit.
- `EtwConsumer`: WF of start, shutdown and the trace's thread, including ProcessTrace's return when its
  session or trace is gone; SF of the two acquisitions of the database's mutex in competition with
  another thread. Nothing is asked of BufferCallback's look at the stop event, which needs a buffer.
- `AgentService`: WF of the control handler, start, shutdown, pipe threads and the return from
  OnKernelEvent; SF of the one acquisition of the callbacks' mutex by the shutdown (EventReceiver.cpp:234)
  in competition with the event threads. The five-second wait for a thread may expire at any time.

CHECK_DEADLOCK is off where the component does stop: a driver or filter that is unloaded, a service
or shipper that has shut down, a system whose bounded supply of events or starts is used up.

## 6. The proofs

`EventBufferProofs` proves for every finite non-empty set of pushers, every limit, buffer size, set of
kinds and sizes that fit the buffer (the assumptions are the named ASSUMEs of `EventBuffer`, which
TLC evaluates in the run):

- `TypeCorrect`: `Spec => []TypeOK`. The part that is not bookkeeping is `eventCount \in Nat`: a
  decrement that missed an increment would take it below zero.
- `CountCorrect`: `Spec => []CountMatchesList`.
- `OverrunBounded`: `Spec => []OverrunBound`.
- `EventsKeptOnce`: `Spec => []EveryEventOnce`.
- `ChannelImplemented`: `Spec => DeliversInOrder`, that is, the queue implements `LossyChannel`.

`CountMatchesList` speaks only of moments when the spinlock is free, so no step can be shown to keep
it by itself. The inductive invariant is `IInv == TypeOK /\ LockInv /\ CountInv`: `LockInv` says that
the lock is held exactly by whoever is between acquiring and releasing it, so two sections never
overlap; `CountInv` says by how much the count differs from the list at each point of a section (one
entry linked and not yet counted; `drained` entries taken off and not yet subtracted; the value read
and not yet written). `NextKeepsIInv` has one lemma for a push, one for the drain and one for the
clean-up, each with a step per action.

For the overrun the induction goes over `OverrunInv`: the count, plus the number of pushers that have
passed the capacity test and not yet counted their entry (`Admitted`), plus one is at most
`MaxQueue + Cardinality(Pushers)`. A pusher that passes sees a count below `MaxQueue`, and it was not
in `Admitted` itself; counting an entry moves one from one term to the other; everything else lowers
the sum. `OverrunInvBounds` gets the length of the list back by `CountInv`.

`EventsKeptOnce` adds `EventsInv`, of three parts: `Apart`, that no event is in two of the places where
an event can be (the hands of a pusher, the list, the drain's local list, the agent, the lost and the
flushed); `Numbered`, that the numbers given out are those of the events; `Counters`, that the
statistics are the cardinalities of those places. Each step moves one event, so it is the disjointness
that lets the cardinalities follow. `ChannelImplemented` takes every step to a step or a stutter of
`LossyChannel`: the insertion under the lock is the channel's send, the failed test and the failed
allocation its loss, the copy to the agent its delivery, the clean-up its flush. A move from the list
to the drain's local list is a stutter, since the channel's contents are both. That an event which
enters has neither been sent nor lost before is `Apart`.

`DriverLifecycleProofs` (`TypeCorrect`, `QueueIsFound`, `NothingIsLeft`) takes any sets of threads,
any number of entries and of loads, and assumes `MayFail \cap Required = {}`: no registration that
DriverEntry cannot do without fails, which is what the finding `failed_load` is about. It rests on
`LifecycleAssumption`. The inductive invariant adds to the type three statements about the place
reached in `EntryOrder` or `UnloadOrder`: `CallsInv`, that what is registered or in progress is among
the callbacks (`Live`) that were registered before this place and not removed before it; `QueueInv`,
that the queue is initialized between its two places and empty outside them (so that no pool entry is
without a queue, the part of `TypeOK` that is not bookkeeping); `DeviceInv`, the same of
device and link. The order of the steps enters by `LiveHasQueue`: wherever a callback may be live the
queue is there. So only another order of the steps (the variants `EntryOrderQueueLast` and
`UnloadOrderQueueFirst`, which TLC refutes) or an unregistration that does not wait lets a callback
find no queue.

`FilterPortProofs` (`TypeCorrect`, `NamesReleased`, `OwnIoSkipped`) takes any finite set of threads, of
which any subset is the agent's, and any number of connections. `NamesAreReleased` goes by the
cardinality of `Busy`: each action that takes or releases a name adds or removes one thread (`BusyMore`,
`BusyLess`), and every other keeps the set (`BusySame`). `OwnIoIsSkipped` speaks only of what the agent
has received; `OwnInv` says why an undisturbed operation of its own gets no further: it passes
ShouldExcludePath only while the agent is away, and then finds no port as long as it lasts. For that
`PortInv` ties port and process id to the phase of the connection until the unload begins.

`DashboardProofs` (`TypeCorrect`, `ClientsLive`, `RulesFollow`) takes any pool and notifiers, any
non-empty list of rules and any number of deaths of the agent. Its invariant is in two halves that
touch disjoint variables. `ScriptInv` is about the firewall: what a command has not yet brought about
is among the runs of netsh it still has to do, and no late run is about unless the outcome is
"unclear". `StreamInv` is about the streams: a broadcast holds the mutex as long as it has clients to
come to, so that no client it has still to come to can be deleted. The one step where they meet is the death of
the process, which keeps both.

`TelemetryShipperProofs` (`TypeCorrect`, `EventsAreKept`, and the action property `BatchesStayWhole`)
takes any batch size and limit above 0 (`ConfigAssumption`; the ini file may say 0, and then nothing
is kept) and any finite set of callers. Its invariant is `EveryEventOnce` with what keeps it: no event
that waits (buffer, batch) is one whose way has ended, and batch and buffer together are sorted, so
that what the put-back cuts off at the back is none of the batch. That the batch is within the limit
(`Len(batch) <= MaxBuffer`), also when `BatchSize` is the larger number, gives `BatchesStayWhole`.

`AgentProofs` is about `AgentService` and `ScanPipeline`. The first part (`TypeCorrect`, `EnginesFound`)
is about the code's own threads and phases, so there is nothing to assume. `StageInv` says that what each stage has still to do is an end of its list;
`EnginesInv`, that the three engines are up from their phase until the shutdown is past the receiver,
and that outside no callback is in progress or will find one registered. The receiver's shutdown may
time out on both threads: what saves the engines is that its last step clears the callbacks under
their mutex, after which a thread that still runs finds nothing to call.

The second part (`ScanTypeCorrect`, `ScannedOnce`, `VaultMatched`) takes any finite sets of files and
producers, any names, and any number of paths, writes and commands (`ScanAssumption`). `PathInv` puts
`EachScannedOnce` place by place: the scanned paths are numbered from 1, the one the scanner holds
comes next, those in the queue after it, and the three lengths add up to what was pushed. A push
appends the next number, a pop moves the first of the queue to the scanner, a scan moves it on; only at
the end is this put together to the equation of sequences. That a path requested finds a number within
the bound (`enqueued + Cardinality(todo) <= MaxJobs`) is part of it. `MoveInv` puts
`EntriesMatchVault` name by name: a file's name enters the vault with a thread that is about to record
it, and a thread between its move and its record changes neither its hash nor its path, whatever the
other does (`QuietStep`); and the scanner starts no quarantine while it is in one. What the two threads
and the programs do to the file itself is not restricted: it may be gone, in use or rewritten at each
step.

`AutoResponseProofs` (`TypeCorrect`, `TrackerAgrees`, `ActsAttributed`) takes any finite set of ids, any
of them in use before the driver, and any capacities of queue and map (`ResponseAssumption`).
`TrackerCatchesUp` speaks of what the tracker will believe after the last event about an id; the
invariant `CaughtInv` says the same by the index of that event (`LastLife`) and of the event at hand,
and is kept by `CaughtAppended` as the system adds an event and by `CaughtShifted` as the agent takes
the oldest. The eviction only forgets the dead, so nothing that is believed of an id changes by it.

`ActsAreAttributed` is two properties. `AlertsAreOwn` needs to be known of events before they are
alerts: `OwnInv` says of each act in the queue, of each process that may still act and of the event at
hand that the last creation before it (`Own`), or the node there is, is of the same process, unless an
event of the actor itself is among the `missed`; a creation that was lost before it excuses nobody
else. The lemma `SendKeeps` does for every event of the driver at once what `Queued` may do: append
it, or lose it and excuse its process. `KillsAreOwn` is about what the finding `protected_killed`
leaves: the guard is passed by an old node, so it may be a critical process that dies, but then a later
owner of the id, or one an event of which was lost (or the act came by the minifilter's stream, which
is not ordered with the driver's). Its invariant `KillInv` speaks of the *faces* of processes, the
pairs of number and image that the system, the tracker, the queues and the event at hand know.
`FacesInv`: two faces of one number have one image. `AgeInv`: no event about an id is younger than the
process that has the id, since numbers are given in order. `CondemnedInv`: whoever the agent is about
to kill for an event of the driver is a tool, or had an event lost, since the node at hand was the
actor's own. So a kill that hits the actor hits a tool.

`EtwConsumerProofs` (`TypeCorrect`, `OwnSession`, `OrderedEvents`, `NothingPulledAway`) takes any number
of starts and events and any length of the deques (`EtwAssumption`, `TelemetryDbAssumption`).
`SessionInv`: up to the step of the shutdown that stops it, a run owns the session exactly if there is
one of its number; after that step there is one only if the stop has failed. An older run's is there
only until `StopOldSession`, or if that has failed, and then StartTraceW fails and no thread is
started: this is why a thread, which opens the session by a name that is not the run's alone, finds
its own or none. That a failing ControlTraceW is remembered in `stopFailed` is needed for what is said
of sessions that stay, not for this. `TraceInv`: the thread is started once per run, and by the time the
callbacks are taken away it was waited for, in vain or not. `EventsInv`: the rows are events the
thread is done with, and a run begins with empty deques. A death of the process at any step keeps
session, rows and nothing else.

### What is not proved

All liveness (`EventuallyDelivered`, `UnloadEnds`, `IoCompletes`, `ShutdownEnds` twice, `SeenStopEnds`,
`CulpritIsStopped`, `EventuallyScanned`, `EventuallyStored`, `RequestsAreServed`, `TraceComesToEnd`) is
model-checked only, since TLAPS proves neither fairness conclusions nor ENABLED. Every invariant and
the action property of the passing runs are proved, and so is the refinement. The three refuted
properties are no theorems, of course. No recursive definition had to be reasoned about: where a sum
over a set was called for, a set of pairs and its cardinality takes its place (`todo` in
`ScanPipeline`), and where a history of any length, the index of its last event (`LastLife`).

What the proofs assume of the constants is no more than the named ASSUMEs, which TLC evaluates in the
runs; besides the finiteness of sets, the signs of numbers and that markers like "none" are no members
of the sets, these are `MayFail \cap Required = {}` and the limits above 0 of the shipper, both
explained above. What they take from the code they take by the modules, so the abstractions of
section 3 hold for them too.

## 7. Plan

Done, in this order: `EventBuffer` with `LossyChannel`, its first proofs, `TelemetryShipper`,
`DriverLifecycle`, `AutoResponse`, `ScanPipeline`, `AgentService`, `FilterPort`, `Isolation` with
`Dashboard`, `TelemetryDb` with `EtwConsumer`; the proofs about `FilterPort`, `DriverLifecycle` and
`Dashboard`; those about `AgentService`, `EtwConsumer`, `TelemetryShipper` and `AutoResponse`, the
refinement of `LossyChannel`, what `AutoResponse` kills, and `ScanPipeline`. Left, if the code around
them should change:

1. Models: the start order of the scan queue against the event threads (Agent.cpp:651 and :670), and
   the other IOCTLs, which change nothing of the driver's own state.
2. Proofs: an abstract specification of the pair push and scan, as `LossyChannel` is of the driver's
   queue; `ScannedOnce` says the same of its states.

## 8. Not modelled

- The web page (`A/web/app.js`), logging, helpers: input and output. The scan history of `A/DbUtil.cpp`
  is a connection of its own to the database.
- What httplib, SQLite, YARA, netsh and the kernel do beyond what the modules' headers say.
- Hashing of closed files, shell integration, the list of recent responses and detections.
  RestoreQuarantinedFile would lock a mutex it holds (ResponseEngine.cpp:202), but nothing calls it,
  as nothing calls RemediateFile.
- The Elasticsearch set-up, the YARA rules, the build files.

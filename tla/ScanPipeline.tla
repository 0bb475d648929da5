---------------------------- MODULE ScanPipeline -----------------------------
(***************************************************************************)
(* The agent's file scans: the threads that enqueue paths (Agent.cpp,      *)
(* EnqueuePath: the event thread for closed files, the scanner pipe and    *)
(* the dashboard for requested ones), the scanner thread that takes them   *)
(* off g_scanQueue, YARA's verdict (YaraScanner.cpp), and QuarantineFile   *)
(* (ResponseEngine.cpp), which the scanner and the command thread may run  *)
(* at the same time, on the same file, while programs write to it.         *)
(***************************************************************************)
EXTENDS Naturals, Sequences, FiniteSets, Functions

CONSTANTS Files,       (* the files of the system                          *)
          Base,        (* their names without the directory                *)
          Producers,   (* the threads that call EnqueuePath                *)
          Device,      (* the producers whose paths are NT device paths    *)
          MaxJobs,     (* bound: the paths ever requested                  *)
          MaxWrites,   (* bound: the times a program opens a file to write *)
          MaxCommands  (* bound: the QUARANTINE commands                   *)

ASSUME ScanAssumption ==
  /\ IsFiniteSet(Files) /\ "none" \notin Files
  /\ IsFiniteSet(Producers) /\ Device \subseteq Producers
  /\ MaxJobs \in Nat /\ MaxWrites \in Nat /\ MaxCommands \in Nat

Contents == {"clean", "bad"}     (* what the YARA rules tell apart         *)
Workers == {"scanner", "commander"}
NoHash == ""                     (* ComputeSHA256 when it cannot open      *)
Names == {<<hash, Base[f]>> : hash \in Contents \cup {NoHash}, f \in Files}
NoJob == [n |-> 0, file |-> "none", device |-> FALSE]

VARIABLES
  fs,          (* external: the content of each file, or "none"            *)
  held,        (* external: the files a program has open for writing       *)
  writes,      (* external: how often that happened                        *)
  queue,       (* g_scanQueue                                              *)
  enqueued,    (* how many paths were pushed                               *)
  wake,        (* g_queueEvent, an auto-reset event                        *)
  producer,    (* where each producer is in EnqueuePath                    *)
  todo,        (* which producer has which file still to enqueue           *)
  scanner,     (* where the scanner thread is                              *)
  job,         (* the path it works on                                     *)
  scanned,     (* history: the paths it has scanned, in order              *)
  quarantine,  (* where each worker is in QuarantineFile                   *)
  target,      (* its filePath                                             *)
  hash,        (* its fileHash                                             *)
  commands,    (* how many QUARANTINE commands came                        *)
  vault,       (* the quarantine directory: the content of each name       *)
  entries      (* g_QuarantineEntries: the names it has recorded           *)

disk      == <<fs, held, writes>>
producers == <<queue, enqueued, producer, todo>>
scans     == <<scanner, job, scanned>>
moves     == <<quarantine, target, hash, commands, vault, entries>>
scanVars == <<disk, producers, wake, scans, moves>>

ScanInit ==
  /\ fs \in [Files -> Contents] /\ held = {} /\ writes = 0
  /\ queue = <<>> /\ enqueued = 0 /\ wake = FALSE
  /\ producer = [p \in Producers |-> "idle"] /\ todo = {}
  /\ scanner = "top" /\ job = NoJob /\ scanned = <<>>
  /\ quarantine = [w \in Workers |-> "idle"] /\ target = [w \in Workers |-> "none"]
  /\ hash = [w \in Workers |-> NoHash] /\ commands = 0
  /\ vault = [name \in Names |-> "none"] /\ entries = {}

-----------------------------------------------------------------------------
(* A program opens a file for writing, creating it if need be, and closes  *)
(* it with a content.                                                      *)
OpenFile(f) ==
  /\ f \notin held /\ writes < MaxWrites
  /\ held' = held \cup {f} /\ writes' = writes + 1
  /\ fs' = [fs EXCEPT ![f] = IF @ = "none" THEN "clean" ELSE @]
  /\ UNCHANGED <<producers, wake, scans, moves>>

CloseFile(f) ==
  /\ f \in held
  /\ held' = held \ {f}
  /\ \E c \in Contents : fs' = [fs EXCEPT ![f] = c]
  /\ UNCHANGED <<writes, producers, wake, scans, moves>>

-----------------------------------------------------------------------------
(* The two steps of EnqueuePath; the variant signals first.                *)
SignalThenPush == <<"signal", "push">>
EnqueueSteps == <<"push", "signal">>

ProducerAt(p, from, to) == producer[p] = from /\ producer' = [producer EXCEPT ![p] = to]

(* A path to scan: of a file that was closed, or requested; a requested    *)
(* directory is a set of files (EnqueueFilesInDirectory).                  *)
Request(p) ==
  /\ ProducerAt(p, "idle", EnqueueSteps[1])
  /\ \E S \in SUBSET Files :
       /\ S # {}
       /\ p \in Device => Cardinality(S) = 1
       /\ todo' = todo \cup ({p} \X S)
  /\ enqueued + Cardinality(todo') <= MaxJobs
  /\ UNCHANGED <<disk, queue, enqueued, wake, scans, moves>>

AfterPath(p) == IF \E f \in Files : <<p, f>> \in todo' THEN EnqueueSteps[1] ELSE "idle"
AfterPush(p) == IF EnqueueSteps[1] = "push" THEN "signal" ELSE AfterPath(p)
AfterSignal(p) == IF EnqueueSteps[1] = "push" THEN AfterPath(p) ELSE "push"

(* The path is pushed under g_queueLock ...                                *)
Push(p) ==
  /\ \E f \in Files :
       /\ <<p, f>> \in todo /\ todo' = todo \ {<<p, f>>}
       /\ queue' = Append(queue, [n |-> enqueued + 1, file |-> f, device |-> p \in Device])
  /\ ProducerAt(p, "push", AfterPush(p))
  /\ enqueued' = enqueued + 1
  /\ UNCHANGED <<disk, wake, scans, moves>>

(* ... and the event is set without it.                                    *)
SetQueueEvent(p) ==
  /\ UNCHANGED todo
  /\ ProducerAt(p, "signal", AfterSignal(p))
  /\ wake' = TRUE
  /\ UNCHANGED <<disk, queue, enqueued, scans, moves>>

-----------------------------------------------------------------------------
(* After a path the scanner takes the next, without waiting: the event     *)
(* stands for any number of paths.                                         *)
TakeNext == "dequeue"

(* The front of the queue is popped; the variant leaves it there.          *)
LeftInQueue == queue
PoppedQueue == Tail(queue)

(* What DequeuePath makes of an empty queue, which an event may well leave *)
(* the scanner with: it waits again; the variant does not test the result. *)
ScanAnyway == "scanning"
WaitAgain == "top"

(* WaitForSingleObject resets the event.                                   *)
Wait == /\ scanner = "top" /\ wake
        /\ scanner' = "dequeue" /\ wake' = FALSE
        /\ UNCHANGED <<disk, producers, job, scanned, moves>>

Dequeue == /\ scanner = "dequeue"
           /\ IF queue = <<>>
              THEN scanner' = WaitAgain /\ UNCHANGED <<queue, job>>
              ELSE scanner' = "scanning" /\ job' = Head(queue) /\ queue' = PoppedQueue
           /\ UNCHANGED <<disk, enqueued, producer, todo, wake, scanned, moves>>

(* yr_rules_scan_file opens the path as it is: a device path does not open *)
(* and its result is not looked at.                                        *)
Matched == fs[job.file] = "bad" /\ ~job.device

(* ScanFileWithYara, and SaveScanResultToDB when a rule matched.           *)
Scan == /\ scanner = "scanning"
        /\ scanned' = Append(scanned, job.n)
        /\ IF Matched
           THEN /\ scanner' = "quarantining"
                /\ quarantine' = [quarantine EXCEPT !["scanner"] = "check"]
                /\ target' = [target EXCEPT !["scanner"] = job.file]
           ELSE scanner' = TakeNext /\ UNCHANGED <<quarantine, target>>
        /\ job' = NoJob
        /\ UNCHANGED <<disk, producers, wake, hash, commands, vault, entries>>

Quarantined == /\ scanner = "quarantining" /\ quarantine["scanner"] = "idle"
               /\ scanner' = TakeNext
               /\ UNCHANGED <<disk, producers, wake, job, scanned, moves>>

-----------------------------------------------------------------------------
(* "QUARANTINE|path" from the command pipe.                                *)
Command == /\ quarantine["commander"] = "idle" /\ commands < MaxCommands
           /\ commands' = commands + 1
           /\ quarantine' = [quarantine EXCEPT !["commander"] = "check"]
           /\ \E f \in Files : target' = [target EXCEPT !["commander"] = f]
           /\ UNCHANGED <<disk, producers, wake, scans, hash, vault, entries>>

Step(w, from, to) == quarantine[w] = from /\ quarantine' = [quarantine EXCEPT ![w] = to]

(* QuarantineFile returns.                                                 *)
Done(w) == /\ target' = [target EXCEPT ![w] = "none"]
           /\ hash' = [hash EXCEPT ![w] = NoHash]

Exists(w) == fs[target[w]] # "none"

(* GetFileAttributesW.                                                     *)
Check(w) == /\ \/ Step(w, "check", "hash") /\ Exists(w) /\ UNCHANGED <<target, hash>>
               \/ Step(w, "check", "idle") /\ ~Exists(w) /\ Done(w)
            /\ UNCHANGED <<disk, producers, wake, scans, commands, vault, entries>>

(* ComputeSHA256 does not share the file with writers.                     *)
ComputeHash(w) ==
  /\ Step(w, "hash", "move")
  /\ hash' = [hash EXCEPT ![w] =
       IF Exists(w) /\ target[w] \notin held THEN fs[target[w]] ELSE NoHash]
  /\ UNCHANGED <<disk, producers, wake, scans, target, commands, vault, entries>>

Name(w) == <<hash[w], Base[target[w]]>>

(* What follows a move that failed; the variant records it all the same.   *)
RecordAnyway == "record"
AfterFailure == "idle"

(* MoveFileExW fails when the file is gone or in use; it replaces a file   *)
(* of the same name in the vault.                                          *)
Move(w) ==
  /\ \/ /\ Step(w, "move", "record")
        /\ Exists(w) /\ target[w] \notin held
        /\ vault' = [vault EXCEPT ![Name(w)] = fs[target[w]]]
        /\ fs' = [fs EXCEPT ![target[w]] = "none"]
        /\ UNCHANGED <<target, hash>>
     \/ /\ Step(w, "move", AfterFailure)
        /\ ~Exists(w) \/ target[w] \in held
        /\ IF AfterFailure = "idle" THEN Done(w) ELSE UNCHANGED <<target, hash>>
        /\ UNCHANGED <<vault, fs>>
  /\ UNCHANGED <<held, writes, producers, wake, scans, commands, entries>>

(* The entry, the manifest and the result.                                 *)
Record(w) == /\ Step(w, "record", "idle")
             /\ entries' = entries \cup {Name(w)}
             /\ Done(w)
             /\ UNCHANGED <<disk, producers, wake, scans, commands, vault>>

-----------------------------------------------------------------------------
EnqueueStep(p) == Push(p) \/ SetQueueEvent(p)

ScannerStep == Wait \/ Dequeue \/ Scan \/ Quarantined

QuarantineStep(w) == Check(w) \/ ComputeHash(w) \/ Move(w) \/ Record(w)

ScanNext ==
  \/ \E f \in Files : OpenFile(f) \/ CloseFile(f)
  \/ \E p \in Producers : Request(p) \/ EnqueueStep(p)
  \/ ScannerStep
  \/ Command
  \/ \E w \in Workers : QuarantineStep(w)

(* Threads that are in a procedure go on.                                  *)
ScanFairness ==
  /\ \A p \in Producers : WF_scanVars(EnqueueStep(p))
  /\ WF_scanVars(ScannerStep)
  /\ \A w \in Workers : WF_scanVars(QuarantineStep(w))

ScanSpec == ScanInit /\ [][ScanNext]_scanVars

FairScanSpec == ScanSpec /\ ScanFairness

-----------------------------------------------------------------------------
Jobs == [n : 1 .. MaxJobs, file : Files, device : BOOLEAN]

(* Every variable has its type, the scanner holds a path exactly while it  *)
(* scans it, and a worker has a file exactly while it is in QuarantineFile.*)
ScanTypeOK ==
  /\ fs \in [Files -> Contents \cup {"none"}] /\ held \subseteq Files
  /\ writes \in 0 .. MaxWrites /\ commands \in 0 .. MaxCommands
  /\ queue \in Seq(Jobs) /\ enqueued \in 0 .. MaxJobs /\ wake \in BOOLEAN
  /\ producer \in [Producers -> {"idle", "push", "signal"}]
  /\ todo \subseteq Producers \X Files
  /\ scanner \in {"top", "dequeue", "scanning", "quarantining"}
  /\ IF scanner = "scanning" THEN job \in Jobs ELSE job = NoJob
  /\ scanned \in Seq(1 .. MaxJobs)
  /\ quarantine \in [Workers -> {"idle", "check", "hash", "move", "record"}]
  /\ target \in [Workers -> Files \cup {"none"}] /\ hash \in [Workers -> Contents \cup {NoHash}]
  /\ \A w \in Workers : (quarantine[w] = "idle") = (target[w] = "none")
  /\ vault \in [Names -> Contents \cup {"none"}] /\ entries \subseteq Names

(* No path is lost, scanned twice or out of turn, whichever threads push   *)
(* while the scanner pops.                                                 *)
EachScannedOnce ==
  scanned \o (IF scanner = "scanning" THEN <<job.n>> ELSE <<>>)
          \o [i \in 1 .. Len(queue) |-> queue[i].n] = [n \in 1 .. enqueued |-> n]

(* Every path that is pushed gets scanned: no wake-up of the scanner is    *)
(* lost between its last DequeuePath and its wait.                         *)
EventuallyScanned ==
  \A n \in 1 .. MaxJobs : (n <= enqueued) ~> (n \in Range(scanned))

(* The records of the vault are right although two threads quarantine: each *)
(* entry names a file that is there, and each file there has an entry or a *)
(* worker that is about to add it.                                         *)
EntriesMatchVault ==
  LET inVault == {name \in Names : vault[name] # "none"}
      pending == {Name(w) : w \in {w \in Workers : quarantine[w] = "record"}}
  IN entries \subseteq inVault /\ inVault = entries \cup pending

=============================================================================

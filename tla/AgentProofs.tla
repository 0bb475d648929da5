------------------------------ MODULE AgentProofs -----------------------------
(***************************************************************************)
(* Proofs about the two modules of the agent's own threads (Agent.cpp).    *)
(* AgentService: from the first phase of the worker's start to the end of  *)
(* its shutdown, whatever the control handler, the pipe threads and the    *)
(* event threads do in between, and also if an event thread is never seen  *)
(* to end.  ScanPipeline: every path pushed is scanned once and in order,  *)
(* and the vault's entries are right though two threads quarantine, for    *)
(* any files, producers and number of paths.                               *)
(***************************************************************************)
EXTENDS AgentService, ScanPipeline, SequenceTheorems, FiniteSetTheorems, TLAPS

Engines == {"tracker", "behavior", "response"}

(* The names of phases and steps.                                          *)
Words == Plain \cup {"receiver", "command", "security", "set", "cancelWorker",
                     "cancelCommander", "signal", "joinDriver", "joinFilter",
                     "closeDriver", "closeFilter", "closeEvent", "clear"}

(* s is what is left of t.                                                 *)
LeftOf(s, t) == /\ s \in Seq(Words) /\ Len(s) <= Len(t)
                /\ \A i \in 1 .. Len(s) : s[i] = t[i + Len(t) - Len(s)]

(* An event is being handled, or may come to be.                           *)
Handling == registered \/ mutex # "nobody"

(* What each stage of the worker has still to do; the worker is in its     *)
(* pipe loop exactly in the stage between, and in ShutdownEventReceiver    *)
(* only while the receiver is the next thing to shut down.                 *)
StageInv ==
  /\ stage = "start" => LeftOf(left, Phases) /\ left # <<>>
  /\ stage = "shutdown" => LeftOf(left, ShutdownOrder)
  /\ pipe["worker"] \notin {"none", "ended"} <=> stage = "loop"
  /\ LeftOf(handler, HandlerSteps) /\ LeftOf(closing, ReceiverSteps)
  /\ closing # <<>> => stage = "shutdown" /\ Len(left) = 7

(* The engines whose phase is past are up, and all of them are until the   *)
(* receiver has been shut down: Len(left) is 6 when it is the next to be   *)
(* started, and 7 when it is the next to be shut down.                     *)
EnginesInv ==
  /\ stage = "start" => \A i \in 1 .. 6 : i + Len(left) <= 12 /\ Phases[i] \in Engines
                                           => Phases[i] \in up
  /\ stage = "loop" \/ (stage = "shutdown" /\ Len(left) >= 7) => Engines \subseteq up
  /\ Handling => Engines \subseteq up
  /\ (stage = "start" /\ Len(left) >= 6) \/ (stage = "shutdown" /\ Len(left) < 7) => ~Handling

(* TypeOK, but for the suffixes, which StageInv gives.                     *)
WorkerTypes ==
  /\ status \in {"RUNNING", "STOP_PENDING", "STOPPED"}
  /\ stopEvent \in BOOLEAN /\ missed \in BOOLEAN
  /\ stage \in {"start", "loop", "shutdown", "ended"}
  /\ up \subseteq Plain \cup {"receiver"}
  /\ pipe \in [PipeThreads -> {"none", "test", "create", "connect", "connecting",
                               "read", "reading", "close", "ended"}]

ThreadTypes ==
  /\ registered \in BOOLEAN
  /\ at \in [EventThreads -> {"none", "test", "open", "read", "dispatch", "callback", "ended"}]
  /\ handle \in [EventThreads -> BOOLEAN] /\ rcvStop \in {"NULL", "clear", "set"}
  /\ \A t \in EventThreads : mutex = t <=> at[t] = "callback"
  /\ mutex \in EventThreads \cup {"nobody"}

IInv == WorkerTypes /\ ThreadTypes /\ StageInv /\ EnginesInv

-----------------------------------------------------------------------------
(* A suffix, index by index.                                               *)
LEMMA SuffixMeans ==
  ASSUME NEW S, NEW s \in Seq(S), NEW t \in Seq(S)
  PROVE  IsSuffix(s, t) <=> /\ Len(s) <= Len(t)
                            /\ \A i \in 1 .. Len(s) : s[i] = t[i + Len(t) - Len(s)]
<1>1. /\ Len(Reverse(s)) = Len(s) /\ Len(Reverse(t)) = Len(t)
      /\ Reverse(s) \in Seq(S) /\ Reverse(t) \in Seq(S)
      /\ \A i \in 1 .. Len(s) : Reverse(s)[i] = s[Len(s) - i + 1]
      /\ \A i \in 1 .. Len(t) : Reverse(t)[i] = t[Len(t) - i + 1]
  BY DEF Reverse
<1>2. CASE Len(s) > Len(t)
  BY <1>1, <1>2 DEF IsSuffix, IsPrefix
<1>3. CASE Len(s) <= Len(t)
  <2> DEFINE u == SubSeq(Reverse(s), 1, Len(s))
             v == SubSeq(Reverse(t), 1, Len(s))
  <2>1. u \in Seq(S) /\ Len(u) = Len(s) /\ \A i \in 1 .. Len(s) : u[i] = s[Len(s) - i + 1]
    BY <1>1, SubSeqProperties
  <2>2. v \in Seq(S) /\ Len(v) = Len(s) /\ \A i \in 1 .. Len(s) : v[i] = t[Len(t) - i + 1]
    BY <1>1, <1>3, SubSeqProperties
  <2> HIDE DEF u, v
  <2>3. u = v <=> \A i \in 1 .. Len(s) : u[i] = v[i]
    BY <2>1, <2>2, SeqEqual
  <2>4. (\A i \in 1 .. Len(s) : u[i] = v[i])
        <=> (\A i \in 1 .. Len(s) : s[i] = t[i + Len(t) - Len(s)])
    <3>1. ASSUME \A i \in 1 .. Len(s) : u[i] = v[i], NEW i \in 1 .. Len(s)
          PROVE  s[i] = t[i + Len(t) - Len(s)]
      <4>1. Len(s) - i + 1 \in 1 .. Len(s)
        OBVIOUS
      <4>2. u[Len(s) - i + 1] = s[i] /\ v[Len(s) - i + 1] = t[Len(t) - (Len(s) - i + 1) + 1]
        BY <4>1, <2>1, <2>2
      <4>3. Len(t) - (Len(s) - i + 1) + 1 = i + Len(t) - Len(s)
        OBVIOUS
      <4> QED BY <3>1, <4>1, <4>2, <4>3
    <3>2. ASSUME \A i \in 1 .. Len(s) : s[i] = t[i + Len(t) - Len(s)], NEW i \in 1 .. Len(s)
          PROVE  u[i] = v[i]
      <4>1. Len(s) - i + 1 \in 1 .. Len(s)
        OBVIOUS
      <4>2. u[i] = s[Len(s) - i + 1] /\ v[i] = t[Len(t) - i + 1]
        BY <2>1, <2>2
      <4>3. Len(s) - i + 1 + Len(t) - Len(s) = Len(t) - i + 1
        OBVIOUS
      <4> QED BY <3>2, <4>1, <4>2, <4>3
    <3> QED BY <3>1, <3>2
  <2>5. IsSuffix(s, t) <=> u = v
    BY <1>1, <1>3 DEF IsSuffix, IsPrefix, u, v
  <2> QED BY <1>3, <2>3, <2>4, <2>5
<1> QED BY <1>2, <1>3

LEMMA NotEmpty == \A s : Len(s) # 0 => s # <<>>
  OBVIOUS

(* One thing less is left.                                                 *)
LEMMA LessLeft ==
  ASSUME NEW t \in Seq(Words), NEW s, LeftOf(s, t), s # <<>>
  PROVE  /\ Len(s) \in 1 .. Len(t) /\ Head(s) = t[1 + Len(t) - Len(s)]
         /\ Len(Tail(s)) = Len(s) - 1 /\ (Len(s) # 1 <=> Tail(s) # <<>>)
         /\ LeftOf(Tail(s), t)
<1>1. /\ Len(s) \in Nat /\ Len(s) > 0 /\ Len(t) \in Nat
      /\ Tail(s) \in Seq(Words) /\ Len(Tail(s)) = Len(s) - 1
      /\ \A i \in 1 .. Len(s) - 1 : Tail(s)[i] = s[i + 1]
      /\ Head(s) = s[1]
  BY HeadTailProperties, EmptySeq DEF LeftOf
<1>2. \A i \in 1 .. Len(s) - 1 : s[i + 1] = t[i + Len(t) - (Len(s) - 1)]
  BY <1>1 DEF LeftOf
<1>3. Len(s) # 1 => Tail(s) # <<>>
  <2>1. Len(s) # 1 => Len(Tail(s)) # 0
    BY <1>1
  <2> QED BY <2>1, NotEmpty, Zenon
<1>4. Len(s) = 1 => Tail(s) = <<>>
  <2>1. Len(s) = 1 => Len(Tail(s)) = 0
    BY <1>1
  <2> QED BY <1>1, <2>1, EmptySeq, Zenon
<1> QED BY <1>1, <1>2, <1>3, <1>4 DEF LeftOf

LEMMA AllLeft == ASSUME NEW t \in Seq(Words) PROVE LeftOf(t, t) /\ LeftOf(<<>>, t)
  BY DEF LeftOf

(* The orders, position by position.                                       *)
LEMMA PhaseOrder ==
  /\ Phases \in Seq(Words) /\ Len(Phases) = 12
  /\ Phases[1] = "yara" /\ Phases[2] = "db" /\ Phases[3] = "shipper" /\ Phases[4] = "tracker"
  /\ Phases[5] = "behavior" /\ Phases[6] = "response" /\ Phases[7] = "receiver"
  /\ Phases[8] = "etw" /\ Phases[9] = "queue" /\ Phases[10] = "command" /\ Phases[11] = "web"
  /\ Phases[12] = "security"
<1>1. Phases \in Seq(Words)
  BY DEF Phases, Words, Plain
<1>2. Len(Phases) = 12
  BY DEF Phases
<1> QED BY <1>1, <1>2 DEF Phases

(* The phase that is next, from what is left.                              *)
LEMMA NextPhase ==
  ASSUME NEW n \in 1 .. 12
  PROVE  /\ Phases[13 - n] = "receiver" => n = 6
         /\ Phases[13 - n] = "command" => n = 3
         /\ Phases[13 - n] = "security" => n = 1
         /\ Phases[13 - n] \in Plain => n \notin {1, 3, 6}
<1>1. n = 1 \/ n = 2 \/ n = 3 \/ n = 4 \/ n = 5 \/ n = 6 \/ n = 7 \/ n = 8 \/ n = 9 \/ n = 10
      \/ n = 11 \/ n = 12
  OBVIOUS
<1> QED BY <1>1, PhaseOrder DEF Plain

LEMMA ShutdownPlaces ==
  /\ ShutdownOrder \in Seq(Words) /\ Len(ShutdownOrder) = 10
  /\ ShutdownOrder[1] = "web" /\ ShutdownOrder[2] = "shipper" /\ ShutdownOrder[3] = "etw"
  /\ ShutdownOrder[4] = "receiver" /\ ShutdownOrder[5] = "behavior"
  /\ ShutdownOrder[6] = "response" /\ ShutdownOrder[7] = "tracker" /\ ShutdownOrder[8] = "db"
  /\ ShutdownOrder[9] = "yara" /\ ShutdownOrder[10] = "queue"
<1>1. ShutdownOrder \in Seq(Words)
  BY DEF ShutdownOrder, Words, Plain
<1>2. Len(ShutdownOrder) = 10
  BY DEF ShutdownOrder
<1> QED BY <1>1, <1>2 DEF ShutdownOrder

(* The component that is shut down next.                                   *)
LEMMA NextToShutDown ==
  ASSUME NEW n \in 1 .. 10
  PROVE  /\ ShutdownOrder[11 - n] = "receiver" <=> n = 7
         /\ n >= 8 => ShutdownOrder[11 - n] \notin Engines
<1>1. n = 1 \/ n = 2 \/ n = 3 \/ n = 4 \/ n = 5 \/ n = 6 \/ n = 7 \/ n = 8 \/ n = 9 \/ n = 10
  OBVIOUS
<1> QED BY <1>1, ShutdownPlaces DEF Engines

LEMMA ReceiverPlaces ==
  /\ ReceiverSteps \in Seq(Words) /\ Len(ReceiverSteps) = 7
  /\ \A i \in 1 .. 7 : ReceiverSteps[i] = "clear" <=> i = 7
  /\ HandlerSteps \in Seq(Words)
<1>1. ReceiverSteps \in Seq(Words) /\ HandlerSteps \in Seq(Words)
  BY DEF ReceiverSteps, HandlerSteps, JoinOf, CloseOf, Words
<1>2. Len(ReceiverSteps) = 7
  BY DEF ReceiverSteps
<1>3. /\ ReceiverSteps[1] = "signal" /\ ReceiverSteps[2] = "joinDriver"
      /\ ReceiverSteps[3] = "joinFilter" /\ ReceiverSteps[4] = "closeDriver"
      /\ ReceiverSteps[5] = "closeFilter" /\ ReceiverSteps[6] = "closeEvent"
      /\ ReceiverSteps[7] = "clear"
  BY DEF ReceiverSteps, JoinOf, CloseOf
<1> QED BY <1>1, <1>2, <1>3

LEMMA InitIInv == Init => IInv
<1> SUFFICES ASSUME Init PROVE IInv
  OBVIOUS
<1>1. StageInv
  BY AllLeft, PhaseOrder, ReceiverPlaces DEF Init, StageInv, PipeThreads
<1>2. EnginesInv
  BY PhaseOrder DEF Init, EnginesInv, Handling, Engines
<1>3. WorkerTypes /\ ThreadTypes
  BY DEF Init, WorkerTypes, ThreadTypes, EventThreads, PipeThreads
<1> QED BY <1>1, <1>2, <1>3 DEF IInv

(* The service manager's and the control handler's steps.                  *)
LEMMA HandlerKeepsIInv == ASSUME IInv, Stop \/ Handler \/ Stopped PROVE IInv'
<1> USE DEF IInv
<1>1. UNCHANGED <<stage, left, up, closing, at, handle, rcvStop, mutex, registered>>
  BY DEF Stop, Handler, SetStopEvent, CancelWorker, CancelCommander, Stopped, worker, receiver
<1>2. ThreadTypes' /\ EnginesInv'
  BY <1>1 DEF ThreadTypes, EnginesInv, Handling
<1>3. /\ pipe' \in [PipeThreads -> {"none", "test", "create", "connect", "connecting",
                                    "read", "reading", "close", "ended"}]
      /\ pipe'["worker"] \notin {"none", "ended"} <=> pipe["worker"] \notin {"none", "ended"}
  BY DEF Stop, Handler, SetStopEvent, CancelWorker, CancelCommander, Stopped, Cancelled,
         WorkerTypes, PipeThreads
<1>4. WorkerTypes'
  <2>1. stopEvent' \in BOOLEAN /\ missed' \in BOOLEAN
    <3>1. CASE CancelWorker
      <4>1. missed' \in BOOLEAN
        <5>1. missed' = (pipe["worker"] \in {"create", "connect", "read"})
          BY <3>1 DEF CancelWorker
        <5> QED BY <5>1
      <4> QED BY <3>1, <4>1 DEF CancelWorker, WorkerTypes
    <3>2. CASE ~CancelWorker
      BY <3>2 DEF Stop, Handler, SetStopEvent, CancelCommander, Stopped, WorkerTypes
    <3> QED BY <3>1, <3>2
  <2>2. status' \in {"RUNNING", "STOP_PENDING", "STOPPED"}
    BY DEF Stop, Handler, SetStopEvent, CancelWorker, CancelCommander, Stopped, WorkerTypes
  <2> QED BY <1>1, <1>3, <2>1, <2>2 DEF WorkerTypes
<1>5. LeftOf(handler', HandlerSteps)
  <2>1. \/ handler' = handler \/ handler' = HandlerSteps
        \/ handler # <<>> /\ handler' = Tail(handler)
    BY DEF Stop, Handler, SetStopEvent, CancelWorker, CancelCommander, Stopped, HandlerStep
  <2> QED BY <2>1, AllLeft, LessLeft, ReceiverPlaces DEF StageInv
<1>6. StageInv'
  BY <1>1, <1>3, <1>5 DEF StageInv
<1> QED BY <1>2, <1>4, <1>6

(* The phases of the start.                                                *)
LEMMA StartsKeepsIInv == ASSUME IInv, Starts PROVE IInv'
<1> USE DEF IInv
<1>1. /\ stage = "start" /\ Len(left) \in 1 .. 12 /\ Head(left) = Phases[13 - Len(left)]
      /\ Len(Tail(left)) = Len(left) - 1 /\ LeftOf(Tail(left), Phases)
      /\ Len(left) # 1 => Tail(left) # <<>>
  <2>1. stage = "start"
    BY DEF Starts, Initialize, GiveUp, StartReceiver, StartCommander, EnterLoop, Phase
  <2>2. LeftOf(left, Phases) /\ left # <<>>
    BY <2>1 DEF StageInv
  <2>3. /\ Len(left) \in 1 .. 12 /\ Head(left) = Phases[1 + 12 - Len(left)]
        /\ Len(Tail(left)) = Len(left) - 1 /\ LeftOf(Tail(left), Phases)
        /\ Len(left) # 1 => Tail(left) # <<>>
    BY <2>2, LessLeft, PhaseOrder
  <2>4. 1 + 12 - Len(left) = 13 - Len(left)
    BY <2>3
  <2> QED BY <2>1, <2>3, <2>4
<1>2. UNCHANGED <<service, closing>> /\ closing = <<>>
  BY <1>1 DEF Starts, Initialize, GiveUp, StartReceiver, StartCommander, EnterLoop, StageInv
<1>3. pipe["worker"] \in {"none", "ended"}
  BY <1>1 DEF StageInv
<1>4. ASSUME NEW c \in Plain, Initialize(c) PROVE IInv'
  <2>1. /\ stage' = stage /\ up' = up \cup {c} /\ left' = Tail(left) /\ UNCHANGED <<pipe, receiver>>
        /\ Phases[13 - Len(left)] = c
    BY <1>1, <1>4 DEF Initialize, Phase
  <2>2. Len(left) # 1 /\ Len(left) # 6
    BY <1>1, <2>1, NextPhase
  <2>3. WorkerTypes' /\ ThreadTypes'
    BY <1>2, <2>1 DEF WorkerTypes, ThreadTypes, service, receiver
  <2>4. Tail(left) # <<>>
    BY <1>1, <2>2
  <2>5. StageInv'
    BY <1>1, <1>2, <2>1, <2>4 DEF StageInv, service
  <2>6. EnginesInv'
    <3>1. Handling' <=> Handling
      BY <2>1 DEF Handling, receiver
    <3>2. \A i \in 1 .. 6 : i + Len(left') <= 12 /\ Phases[i] \in Engines => Phases[i] \in up'
      BY <1>1, <2>1 DEF EnginesInv
    <3> QED BY <1>1, <2>1, <2>2, <3>1, <3>2 DEF EnginesInv
  <2> QED BY <2>3, <2>5, <2>6
<1>5. CASE GiveUp
  BY <1>1, <1>2, <1>3, <1>5 DEF GiveUp, WorkerTypes, ThreadTypes, StageInv, EnginesInv, Handling,
                                service, receiver
<1>6. CASE StartReceiver
  <2>1. /\ stage' = stage /\ up' = up \cup {"receiver"} /\ left' = Tail(left) /\ registered'
        /\ UNCHANGED <<pipe, handle, mutex>> /\ Phases[13 - Len(left)] = "receiver"
        /\ \/ rcvStop' = "clear" /\ at' = [t \in EventThreads |-> "test"]
           \/ UNCHANGED <<rcvStop, at>>
    BY <1>1, <1>6 DEF StartReceiver, Phase
  <2>2. Len(left) = 6
    BY <1>1, <2>1, NextPhase
  <2>3. mutex = "nobody"
    BY <1>1, <2>2 DEF EnginesInv, Handling
  <2>4. WorkerTypes' /\ ThreadTypes'
    BY <1>2, <2>1, <2>3 DEF WorkerTypes, ThreadTypes, service, EventThreads
  <2>5. Tail(left) # <<>>
    BY <1>1, <2>2
  <2>6. StageInv'
    BY <1>1, <1>2, <2>1, <2>5 DEF StageInv, service
  <2>7. Engines \subseteq up
    BY <1>1, <2>2, PhaseOrder DEF EnginesInv, Engines
  <2>8. EnginesInv'
    <3>1. \A i \in 1 .. 6 : Phases[i] \in Engines => Phases[i] \in up'
      BY <2>1, <2>7
    <3>2. Len(left') = 5 /\ stage' = "start" /\ Engines \subseteq up'
      BY <1>1, <2>1, <2>2, <2>7
    <3> QED BY <3>1, <3>2 DEF EnginesInv
  <2> QED BY <2>4, <2>6, <2>8
<1>7. CASE StartCommander
  <2>1. /\ UNCHANGED <<stage, up, receiver>> /\ left' = Tail(left)
        /\ pipe' = [pipe EXCEPT !["commander"] = "test"] /\ Phases[13 - Len(left)] = "command"
    BY <1>1, <1>7 DEF StartCommander, Phase
  <2>2. Len(left) = 3
    BY <1>1, <2>1, NextPhase
  <2>3. WorkerTypes' /\ ThreadTypes'
    BY <1>2, <2>1 DEF WorkerTypes, ThreadTypes, service, receiver, PipeThreads
  <2>4. Tail(left) # <<>>
    BY <1>1, <2>2
  <2>5. StageInv'
    BY <1>1, <1>2, <2>1, <2>4 DEF StageInv, WorkerTypes, service, PipeThreads
  <2>6. EnginesInv'
    <3>1. Handling' <=> Handling
      BY <2>1 DEF Handling, receiver
    <3>2. \A i \in 1 .. 6 : Phases[i] \in Engines => Phases[i] \in up'
      BY <1>1, <2>1, <2>2 DEF EnginesInv
    <3>3. Len(left') = 2 /\ stage' = "start" /\ up' = up
      BY <1>1, <2>1, <2>2
    <3> QED BY <3>1, <3>2, <3>3 DEF EnginesInv
  <2> QED BY <2>3, <2>5, <2>6
<1>8. CASE EnterLoop
  <2>1. /\ UNCHANGED <<up, receiver>> /\ stage' = "loop" /\ left' = <<>>
        /\ pipe' = [pipe EXCEPT !["worker"] = "test"] /\ Phases[13 - Len(left)] = "security"
    BY <1>1, <1>8 DEF EnterLoop, Phase
  <2>2. Len(left) = 1
    BY <1>1, <2>1, NextPhase
  <2>3. WorkerTypes' /\ ThreadTypes'
    BY <1>2, <2>1 DEF WorkerTypes, ThreadTypes, service, receiver, PipeThreads
  <2>4. StageInv'
    BY <1>1, <1>2, <2>1 DEF StageInv, WorkerTypes, service, PipeThreads
  <2>5. Engines \subseteq up
    BY <1>1, <2>2, PhaseOrder DEF EnginesInv, Engines
  <2>6. EnginesInv'
    BY <2>1, <2>5 DEF EnginesInv, Handling, receiver
  <2> QED BY <2>3, <2>4, <2>6
<1> QED BY <1>4, <1>5, <1>6, <1>7, <1>8 DEF Starts

(* The shutdown: nothing an event needs goes before the receiver, and the  *)
(* receiver goes when no event is being handled.                           *)
LEMMA ShutsDownKeepsIInv == ASSUME IInv, ShutsDown PROVE IInv'
<1> USE DEF IInv
<1>1. /\ stage = "shutdown" /\ LeftOf(left, ShutdownOrder)
      /\ UNCHANGED <<service, pipe>> /\ pipe["worker"] \in {"none", "ended"}
  <2>1. stage = "shutdown" /\ UNCHANGED <<service, pipe>>
    BY DEF ShutsDown, Finalize, ShutDown, CloseReceiver, Signal, Join, CloseHandle, CloseEvent,
           Clear, WorkerEnds, Closing, StageInv
  <2> QED BY <2>1 DEF StageInv
<1>2. left # <<>> => /\ Len(left) \in 1 .. 10 /\ Head(left) = ShutdownOrder[11 - Len(left)]
                     /\ Len(Tail(left)) = Len(left) - 1 /\ LeftOf(Tail(left), ShutdownOrder)
  <2> SUFFICES ASSUME left # <<>>
               PROVE  /\ Len(left) \in 1 .. 10 /\ Head(left) = ShutdownOrder[11 - Len(left)]
                      /\ Len(Tail(left)) = Len(left) - 1 /\ LeftOf(Tail(left), ShutdownOrder)
    OBVIOUS
  <2>1. /\ Len(left) \in 1 .. 10 /\ Head(left) = ShutdownOrder[1 + 10 - Len(left)]
        /\ Len(Tail(left)) = Len(left) - 1 /\ LeftOf(Tail(left), ShutdownOrder)
    BY <1>1, LessLeft, ShutdownPlaces
  <2>2. 1 + 10 - Len(left) = 11 - Len(left)
    BY <2>1
  <2> QED BY <2>1, <2>2
<1>3. closing # <<>> => /\ Len(left) = 7 /\ LeftOf(Tail(closing), ReceiverSteps)
                        /\ (Head(closing) = "clear" => Tail(closing) = <<>>)
  <2> SUFFICES ASSUME closing # <<>>
               PROVE  /\ Len(left) = 7 /\ LeftOf(Tail(closing), ReceiverSteps)
                      /\ (Head(closing) = "clear" => Tail(closing) = <<>>)
    OBVIOUS
  <2>1. Len(left) = 7 /\ LeftOf(closing, ReceiverSteps)
    BY DEF StageInv
  <2>2. /\ Len(closing) \in 1 .. 7 /\ Head(closing) = ReceiverSteps[1 + 7 - Len(closing)]
        /\ (Len(closing) # 1 <=> Tail(closing) # <<>>) /\ LeftOf(Tail(closing), ReceiverSteps)
    BY <2>1, LessLeft, ReceiverPlaces
  <2>3. \A n \in 1 .. 7 : 1 + 7 - n \in 1 .. 7 /\ (1 + 7 - n = 7 => n = 1)
    OBVIOUS
  <2> QED BY <2>1, <2>2, <2>3, ReceiverPlaces
<1>4. LeftOf(handler', HandlerSteps)
  BY <1>1 DEF StageInv, service
<1>5. ASSUME NEW c \in Plain, Finalize(c) PROVE IInv'
  <2>1. /\ left # <<>> /\ Head(left) = c /\ up' = up \ {c} /\ left' = Tail(left) /\ stage' = stage
        /\ UNCHANGED <<closing, receiver>>
    BY <1>5 DEF Finalize, ShutDown
  <2>2. ShutdownOrder[11 - Len(left)] = c /\ Len(left) # 7
    BY <1>2, <2>1, NextToShutDown DEF Plain
  <2>3. closing = <<>>
    BY <1>3, <2>2
  <2>4. WorkerTypes' /\ ThreadTypes'
    BY <1>1, <2>1 DEF WorkerTypes, ThreadTypes, service, receiver
  <2>5. StageInv'
    BY <1>1, <1>2, <1>4, <2>1, <2>3 DEF StageInv
  <2>6. EnginesInv'
    <3>1. Handling' <=> Handling
      BY <2>1 DEF Handling, receiver
    <3>2. Len(left) >= 8 => c \notin Engines
      BY <1>2, <2>1, <2>2, NextToShutDown
    <3>3. Len(left') >= 7 => Engines \subseteq up'
      BY <1>1, <1>2, <2>1, <2>2, <3>2 DEF EnginesInv
    <3>4. Len(left') < 7 => ~Handling
      <4>1. Len(left') < 7 => Len(left) < 7
        <5>1. Len(left) \in 1 .. 10 /\ Len(left') = Len(left) - 1 /\ Len(left) # 7
          BY <1>2, <2>1, <2>2
        <5> QED BY <5>1
      <4> QED BY <1>1, <4>1 DEF EnginesInv
    <3>5. Len(left') \in Nat /\ stage' = "shutdown"
      BY <1>1, <1>2, <2>1
    <3> QED BY <3>1, <3>3, <3>4, <3>5 DEF EnginesInv
  <2> QED BY <2>4, <2>5, <2>6
<1>6. CASE CloseReceiver
  <2>1. /\ left # <<>> /\ Head(left) = "receiver" /\ closing' = ReceiverSteps
        /\ UNCHANGED <<worker, receiver>>
    BY <1>6 DEF CloseReceiver, ShutDown
  <2>2. Len(left) = 7
    BY <1>2, <2>1, NextToShutDown
  <2>3. StageInv'
    BY <1>1, <1>4, <2>1, <2>2, AllLeft, ReceiverPlaces DEF StageInv, worker
  <2>4. WorkerTypes' /\ ThreadTypes' /\ EnginesInv'
    BY <1>1, <2>1 DEF WorkerTypes, ThreadTypes, EnginesInv, Handling, service, worker, receiver
  <2> QED BY <2>3, <2>4
<1>7. CASE Signal \/ CloseEvent \/ \E t \in EventThreads : Join(t) \/ CloseHandle(t)
  <2>1. /\ closing # <<>> /\ closing' = Tail(closing) /\ UNCHANGED <<worker, at, mutex, registered>>
        /\ rcvStop' \in {"NULL", "clear", "set"} /\ handle' \in [EventThreads -> BOOLEAN]
    BY <1>7 DEF Signal, CloseEvent, Join, CloseHandle, Closing, receiver, ThreadTypes
  <2>2. StageInv'
    BY <1>1, <1>3, <1>4, <2>1 DEF StageInv, worker
  <2>3. WorkerTypes' /\ ThreadTypes' /\ EnginesInv'
    BY <1>1, <2>1 DEF WorkerTypes, ThreadTypes, EnginesInv, Handling, service, worker
  <2> QED BY <2>2, <2>3
<1>8. CASE Clear
  <2>1. /\ closing # <<>> /\ Head(closing) = "clear" /\ closing' = Tail(closing)
        /\ mutex = "nobody" /\ registered' = FALSE /\ up' = up \ {"receiver"} /\ left' = Tail(left)
        /\ UNCHANGED <<stage, at, handle, rcvStop, mutex>>
    BY <1>8 DEF Clear, Closing, Locked
  <2>2. closing' = <<>> /\ Len(left) = 7
    BY <1>3, <2>1
  <2>3. left # <<>>
    BY <2>2
  <2>4. StageInv'
    BY <1>1, <1>2, <1>4, <2>1, <2>2, <2>3, AllLeft, ReceiverPlaces DEF StageInv
  <2>5. WorkerTypes' /\ ThreadTypes'
    BY <1>1, <2>1 DEF WorkerTypes, ThreadTypes, service
  <2>6. EnginesInv'
    <3>1. ~Handling' /\ Len(left') = 6 /\ stage' = "shutdown"
      BY <1>1, <1>2, <2>1, <2>2, <2>3 DEF Handling
    <3> QED BY <3>1 DEF EnginesInv
  <2> QED BY <2>4, <2>5, <2>6
<1>9. CASE WorkerEnds
  <2>1. left = <<>> /\ stage' = "ended" /\ UNCHANGED <<left, up, closing, receiver>>
    BY <1>9 DEF WorkerEnds
  <2>2. Len(left) = 0 /\ closing = <<>>
    BY <1>3, <2>1
  <2>3. ~Handling
    BY <1>1, <2>2 DEF EnginesInv
  <2> QED BY <1>1, <1>4, <2>1, <2>2, <2>3
          DEF WorkerTypes, ThreadTypes, StageInv, EnginesInv, Handling, service, receiver
<1> QED BY <1>5, <1>6, <1>7, <1>8, <1>9 DEF ShutsDown

(* A pipe thread's step, and a client's: the worker leaves its loop with   *)
(* everything up.                                                          *)
LEMMA PipeKeepsIInv ==
  ASSUME IInv, NEW w \in PipeThreads, PipeGoesOn(w) \/ Client(w) PROVE IInv'
<1> USE DEF IInv
<1>1. UNCHANGED <<service, closing, receiver, up>>
  BY DEF PipeGoesOn, Client, PipeTest, CreatePipe, CallConnect, CallRead, ClosePipe, ClientConnects,
         ClientWrites, PipeMoves, worker
<1>2. ThreadTypes'
  BY <1>1 DEF ThreadTypes, receiver
<1>3. LeftOf(handler', HandlerSteps) /\ LeftOf(closing', ReceiverSteps)
  BY <1>1 DEF StageInv, service
<1>4. CASE w = "worker" /\ PipeTest(w) /\ stopEvent
  <2>1. /\ pipe["worker"] = "test" /\ pipe' = [pipe EXCEPT !["worker"] = "ended"]
        /\ stage' = "shutdown" /\ left' = ShutdownOrder
    BY <1>4 DEF PipeTest, PipeStep
  <2>2. stage = "loop" /\ closing = <<>>
    BY <2>1 DEF StageInv
  <2>3. WorkerTypes'
    BY <1>1, <2>1 DEF WorkerTypes, service, PipeThreads
  <2>4. StageInv'
    BY <1>1, <1>3, <2>1, <2>2, AllLeft, ShutdownPlaces DEF StageInv, WorkerTypes, PipeThreads
  <2>5. EnginesInv'
    BY <1>1, <2>1, <2>2, ShutdownPlaces DEF EnginesInv, Handling, receiver
  <2> QED BY <1>2, <2>3, <2>4, <2>5
<1>5. CASE ~(w = "worker" /\ PipeTest(w) /\ stopEvent)
  <2>1. UNCHANGED worker
    BY <1>5 DEF PipeGoesOn, Client, PipeTest, CreatePipe, CallConnect, CallRead, ClosePipe,
                ClientConnects, ClientWrites, PipeMoves
  <2>2. \E to \in {"test", "create", "connect", "connecting", "read", "reading", "close", "ended"} :
          /\ pipe' = [pipe EXCEPT ![w] = to]
          /\ pipe[w] \notin {"none", "ended"} /\ (w = "worker" => to # "ended")
    BY <1>5 DEF PipeGoesOn, Client, PipeTest, CreatePipe, CallConnect, CallRead, ClosePipe,
                ClientConnects, ClientWrites, PipeMoves, PipeStep
  <2>3. WorkerTypes'
    BY <1>1, <2>1, <2>2 DEF WorkerTypes, service, worker
  <2>4. pipe'["worker"] \notin {"none", "ended"} <=> pipe["worker"] \notin {"none", "ended"}
    BY <2>2 DEF WorkerTypes, PipeThreads
  <2>5. StageInv' /\ EnginesInv'
    BY <1>1, <1>3, <2>1, <2>4 DEF StageInv, EnginesInv, Handling, service, worker, receiver
  <2> QED BY <1>2, <2>3, <2>5
<1> QED BY <1>4, <1>5

(* An event thread's step: it takes the mutex for a callback only while    *)
(* the callback is registered.                                             *)
LEMMA ThreadKeepsIInv == ASSUME IInv, NEW t \in EventThreads, Thread(t) PROVE IInv'
<1> USE DEF IInv
<1>1. UNCHANGED <<service, worker, closing, pipe, registered>>
  BY DEF Thread, ThreadTest, OpenSensor, Receive, ReceiveNothing, Dispatch, Return, Outside
<1>2. WorkerTypes' /\ StageInv'
  BY <1>1 DEF WorkerTypes, StageInv, service, worker
<1>3. ThreadTypes'
  <2>1. handle' \in [EventThreads -> BOOLEAN] /\ rcvStop' \in {"NULL", "clear", "set"}
    BY DEF Thread, ThreadTest, OpenSensor, Receive, ReceiveNothing, Dispatch, Return, ThreadTypes
  <2>2. CASE ThreadTest(t) \/ OpenSensor(t) \/ Receive(t) \/ ReceiveNothing(t)
    <3>1. mutex' = mutex /\ at[t] # "callback"
      BY <2>2 DEF ThreadTest, OpenSensor, Receive, ReceiveNothing, EventStep
    <3>2. \E to \in {"test", "open", "read", "dispatch", "ended"} : at' = [at EXCEPT ![t] = to]
      BY <2>2 DEF ThreadTest, OpenSensor, Receive, ReceiveNothing, EventStep
    <3> QED BY <1>1, <2>1, <3>1, <3>2 DEF ThreadTypes
  <2>3. CASE Dispatch(t)
    <3>1. mutex = "nobody" /\ at[t] = "dispatch"
      BY <2>3 DEF Dispatch, EventStep
    <3>2. \/ mutex' = t /\ at' = [at EXCEPT ![t] = "callback"]
          \/ mutex' = mutex /\ \E to \in {"test", "dispatch"} : at' = [at EXCEPT ![t] = to]
      BY <2>3 DEF Dispatch, EventStep, After
    <3> QED BY <1>1, <2>1, <3>1, <3>2 DEF ThreadTypes, EventThreads
  <2>4. CASE Return(t)
    <3>1. at[t] = "callback" /\ mutex' = "nobody" /\ mutex = t
      BY <2>4 DEF Return, EventStep, ReleasedBy, ThreadTypes
    <3>2. \E to \in {"test", "dispatch"} : at' = [at EXCEPT ![t] = to]
      BY <2>4 DEF Return, EventStep, After
    <3> QED BY <1>1, <2>1, <3>1, <3>2 DEF ThreadTypes, EventThreads
  <2> QED BY <2>2, <2>3, <2>4 DEF Thread
<1>4. Handling' => Handling
  BY <1>1 DEF Thread, ThreadTest, OpenSensor, Receive, ReceiveNothing, Dispatch, Return,
              ReleasedBy, Handling
<1>5. EnginesInv'
  BY <1>1, <1>4 DEF EnginesInv, worker
<1> QED BY <1>2, <1>3, <1>5

LEMMA NextKeepsIInv == IInv /\ [Next]_vars => IInv'
<1>1. ASSUME IInv, UNCHANGED vars PROVE IInv'
  BY <1>1 DEF IInv, WorkerTypes, ThreadTypes, StageInv, EnginesInv, Handling, vars, service, worker,
              receiver
<1> QED BY <1>1, HandlerKeepsIInv, StartsKeepsIInv, ShutsDownKeepsIInv, PipeKeepsIInv,
           ThreadKeepsIInv DEF Next

(* The stages of the worker, the engines that are up, the receiver's       *)
(* threads and the callbacks' mutex stay in step, wherever a stop comes    *)
(* and whichever waits expire.                                             *)
THEOREM Inductive == Spec => []IInv
  BY InitIInv, NextKeepsIInv, PTL DEF Spec

(* Every variable has its type; what the handler and the receiver's        *)
(* shutdown have still to do is always an end of their lists, and the      *)
(* mutex is held by the thread that is in the callback, by no other.       *)
THEOREM TypeCorrect == Spec => []TypeOK
<1>1. ASSUME IInv PROVE TypeOK
  <2>1. LeftOf(handler, HandlerSteps) /\ LeftOf(closing, ReceiverSteps)
    BY <1>1 DEF IInv, StageInv
  <2>2. IsSuffix(handler, HandlerSteps) /\ IsSuffix(closing, ReceiverSteps)
    BY <2>1, SuffixMeans, ReceiverPlaces DEF LeftOf
  <2> QED BY <1>1, <2>2 DEF IInv, WorkerTypes, ThreadTypes, TypeOK
<1> QED BY <1>1, Inductive, PTL

(* An event that OnKernelEvent is handling finds the process tracker, the  *)
(* behaviour and the response engine, also when ShutdownEventReceiver has  *)
(* given up waiting for the event threads.                                 *)
THEOREM EnginesFound == Spec => []EventsFindEngines
<1>1. ASSUME IInv PROVE EventsFindEngines
  BY <1>1 DEF IInv, EnginesInv, Handling, EventsFindEngines, Engines
<1> QED BY <1>1, Inductive, PTL

-----------------------------------------------------------------------------
(* ScanPipeline.  What is in whose hands: a path is in the queue, with the *)
(* scanner, or scanned, and its number says where.                         *)
InHand == IF scanner = "scanning" THEN 1 ELSE 0

NumbersInv ==
  /\ Len(scanned) + InHand + Len(queue) = enqueued
  /\ \A i \in 1 .. Len(scanned) : scanned[i] = i
  /\ scanner = "scanning" => job.n = Len(scanned) + 1
  /\ \A i \in 1 .. Len(queue) : queue[i].n = Len(scanned) + InHand + i

(* The part of ScanTypeOK about paths, and that every path requested has   *)
(* a number left.                                                          *)
PathTypes ==
  /\ queue \in Seq(Jobs) /\ enqueued \in 0 .. MaxJobs /\ wake \in BOOLEAN
  /\ producer \in [Producers -> {"idle", "push", "signal"}]
  /\ todo \subseteq Producers \X Files /\ enqueued + Cardinality(todo) <= MaxJobs
  /\ scanner \in {"top", "dequeue", "scanning", "quarantining"}
  /\ IF scanner = "scanning" THEN job \in Jobs ELSE job = NoJob
  /\ scanned \in Seq(1 .. MaxJobs)

PathInv == PathTypes /\ NumbersInv

(* The part of ScanTypeOK about files.                                     *)
DiskTypes == /\ fs \in [Files -> Contents \cup {"none"}] /\ held \subseteq Files
             /\ writes \in 0 .. MaxWrites

MoveTypes ==
  /\ commands \in 0 .. MaxCommands
  /\ quarantine \in [Workers -> {"idle", "check", "hash", "move", "record"}]
  /\ target \in [Workers -> Files \cup {"none"}] /\ hash \in [Workers -> Contents \cup {NoHash}]
  /\ \A w \in Workers : (quarantine[w] = "idle") = (target[w] = "none")
  /\ vault \in [Names -> Contents \cup {"none"}] /\ entries \subseteq Names

(* EntriesMatchVault name by name.                                         *)
Pending(name) == \E w \in Workers : quarantine[w] = "record" /\ Name(w) = name

VaultInv == /\ \A name \in entries : vault[name] # "none"
            /\ \A w \in Workers : quarantine[w] = "record" => vault[Name(w)] # "none"
            /\ \A name \in Names : vault[name] # "none" => name \in entries \/ Pending(name)

(* A file is in quarantine for the scanner only while it waits for it.     *)
MoveInv == /\ MoveTypes /\ VaultInv
           /\ scanner # "quarantining" => quarantine["scanner"] = "idle"

ScanInv == PathInv /\ DiskTypes /\ MoveInv

-----------------------------------------------------------------------------
(* Two facts about sequences and one about the paths still to enqueue.     *)
LEMMA AppendMeans ==
  ASSUME NEW S, NEW q \in Seq(S), NEW e \in S
  PROVE  /\ Append(q, e) \in Seq(S) /\ Len(Append(q, e)) = Len(q) + 1 /\ Len(q) \in Nat
         /\ \A i \in 1 .. Len(q) : Append(q, e)[i] = q[i]
         /\ Append(q, e)[Len(q) + 1] = e
  BY AppendProperties, LenProperties

LEMMA TailMeans ==
  ASSUME NEW S, NEW q \in Seq(S), q # <<>>
  PROVE  /\ Tail(q) \in Seq(S) /\ Len(q) = Len(Tail(q)) + 1 /\ Len(Tail(q)) \in Nat
         /\ \A i \in 1 .. Len(Tail(q)) : Tail(q)[i] = q[i + 1]
         /\ Head(q) = q[1] /\ q[1] \in S
  BY HeadTailProperties, LenProperties, EmptySeq

LEMMA TodoFinite ==
  ASSUME NEW t \in SUBSET (Producers \X Files)
  PROVE  /\ IsFiniteSet(t) /\ Cardinality(t) \in Nat
         /\ \A x \in t : Cardinality(t \ {x}) = Cardinality(t) - 1
<1>1. IsFiniteSet(Producers \X Files)
  BY ScanAssumption, FS_Product
<1>2. IsFiniteSet(t)
  BY <1>1, FS_Subset
<1>3. \A x \in t : Cardinality(t \ {x}) = Cardinality(t) - 1
  BY <1>2, FS_RemoveElement
<1> QED BY <1>2, <1>3, FS_CardinalityType

LEMMA InitScanInv == ScanInit => ScanInv
<1> SUFFICES ASSUME ScanInit PROVE ScanInv
  OBVIOUS
<1>1. Cardinality(todo) = 0 /\ todo = {} /\ enqueued = 0 /\ MaxJobs \in Nat
  BY FS_EmptySet, ScanAssumption DEF ScanInit
<1>2. queue \in Seq(Jobs) /\ scanned \in Seq(1 .. MaxJobs) /\ Len(queue) = 0 /\ Len(scanned) = 0
  BY EmptySeq DEF ScanInit
<1>3. PathTypes
  <2>1. /\ scanner = "top" /\ job = NoJob /\ wake = FALSE
        /\ producer = [p \in Producers |-> "idle"]
    BY DEF ScanInit
  <2>2. enqueued \in 0 .. MaxJobs /\ enqueued + Cardinality(todo) <= MaxJobs
    BY <1>1
  <2>3. todo \subseteq Producers \X Files
    BY <1>1
  <2>4. producer \in [Producers -> {"idle", "push", "signal"}]
    BY <2>1
  <2> QED BY <1>2, <2>1, <2>2, <2>3, <2>4 DEF PathTypes
<1>4. NumbersInv
  BY <1>1, <1>2 DEF ScanInit, NumbersInv, InHand
<1>5. DiskTypes
  BY ScanAssumption DEF ScanInit, DiskTypes
<1>6. MoveTypes
  BY ScanAssumption DEF ScanInit, MoveTypes
<1>7. VaultInv
  BY DEF ScanInit, VaultInv
<1>8. quarantine["scanner"] = "idle"
  BY DEF ScanInit, Workers
<1> QED BY <1>3, <1>4, <1>5, <1>6, <1>7, <1>8 DEF ScanInv, PathInv, MoveInv

-----------------------------------------------------------------------------
(* The threads that enqueue.                                               *)
LEMMA ProducerTyped ==
  ASSUME PathTypes, NEW p \in Producers, NEW from, NEW to \in {"idle", "push", "signal"},
         ProducerAt(p, from, to)
  PROVE  producer' \in [Producers -> {"idle", "push", "signal"}]
  BY DEF PathTypes, ProducerAt

LEMMA RequestKeepsPaths ==
  ASSUME PathInv, NEW p \in Producers, Request(p) PROVE PathInv'
<1>1. /\ UNCHANGED <<queue, enqueued, wake, scanner, job, scanned>>
      /\ ProducerAt(p, "idle", "push") /\ enqueued + Cardinality(todo') <= MaxJobs
  BY DEF Request, EnqueueSteps, scans
<1>2. todo' \subseteq Producers \X Files
  BY DEF Request, PathInv, PathTypes
<1>3. PathTypes'
  BY <1>1, <1>2, ProducerTyped DEF PathInv, PathTypes
<1> QED BY <1>1, <1>3 DEF PathInv, NumbersInv, InHand

LEMMA PushKeepsPaths ==
  ASSUME PathInv, NEW p \in Producers, Push(p) PROVE PathInv'
<1>1. PICK f \in Files :
        /\ <<p, f>> \in todo /\ todo' = todo \ {<<p, f>>}
        /\ queue' = Append(queue, [n |-> enqueued + 1, file |-> f, device |-> p \in Device])
  BY DEF Push
<1>2. /\ UNCHANGED <<wake, scanner, job, scanned>> /\ enqueued' = enqueued + 1
      /\ ProducerAt(p, "push", "signal")
  BY DEF Push, AfterPush, EnqueueSteps, scans
<1>3. /\ Cardinality(todo) \in Nat /\ Cardinality(todo') \in Nat
      /\ Cardinality(todo') = Cardinality(todo) - 1
  <2>1. todo \in SUBSET (Producers \X Files) /\ todo' \in SUBSET (Producers \X Files)
    BY <1>1 DEF PathInv, PathTypes
  <2> QED BY <1>1, <2>1, TodoFinite
<1>4. enqueued' \in 1 .. MaxJobs /\ enqueued' + Cardinality(todo') <= MaxJobs
  BY <1>2, <1>3, ScanAssumption DEF PathInv, PathTypes
<1>5. PICK e \in Jobs : e.n = enqueued + 1 /\ queue' = Append(queue, e)
  <2> DEFINE e == [n |-> enqueued + 1, file |-> f, device |-> p \in Device]
  <2>1. enqueued + 1 \in 1 .. MaxJobs /\ (p \in Device) \in BOOLEAN
    BY <1>2, <1>4
  <2>2. e \in Jobs
    BY <2>1 DEF Jobs
  <2> QED BY <1>1, <2>2
<1>6. /\ queue' \in Seq(Jobs) /\ Len(queue') = Len(queue) + 1 /\ Len(queue) \in Nat
      /\ \A i \in 1 .. Len(queue) : queue'[i] = queue[i]
      /\ queue'[Len(queue) + 1] = e
  BY <1>5, AppendMeans DEF PathInv, PathTypes
<1>7. PathTypes'
  BY <1>1, <1>2, <1>4, <1>6, ProducerTyped DEF PathInv, PathTypes
<1>8. Len(scanned) \in Nat /\ InHand \in 0 .. 1 /\ InHand' = InHand /\ enqueued \in Nat
  BY <1>2, LenProperties DEF PathInv, PathTypes, InHand
<1>9. Len(scanned') + InHand' + Len(queue') = enqueued'
  BY <1>2, <1>6, <1>8 DEF PathInv, NumbersInv
<1>10. \A i \in 1 .. Len(queue') : queue'[i].n = Len(scanned') + InHand' + i
  <2> SUFFICES ASSUME NEW i \in 1 .. Len(queue) + 1
               PROVE  queue'[i].n = Len(scanned) + InHand + i
    BY <1>2, <1>6, <1>8
  <2>1. CASE i = Len(queue) + 1
    <3>1. queue'[i].n = enqueued + 1
      BY <2>1, <1>5, <1>6
    <3>2. Len(scanned) + InHand + Len(queue) = enqueued
      BY DEF PathInv, NumbersInv
    <3> QED BY <2>1, <3>1, <3>2, <1>6, <1>8
  <2>2. CASE i # Len(queue) + 1
    <3>1. i \in 1 .. Len(queue)
      BY <2>2, <1>6
    <3> QED BY <3>1, <1>6 DEF PathInv, NumbersInv
  <2> QED BY <2>1, <2>2
<1> QED BY <1>2, <1>7, <1>9, <1>10 DEF PathInv, NumbersInv

LEMMA SetKeepsPaths ==
  ASSUME PathInv, NEW p \in Producers, SetQueueEvent(p) PROVE PathInv'
<1>1. /\ UNCHANGED <<todo, queue, enqueued, scanner, job, scanned>> /\ wake' = TRUE
      /\ \E to \in {"idle", "push"} : ProducerAt(p, "signal", to)
  BY DEF SetQueueEvent, AfterSignal, AfterPath, EnqueueSteps, scans
<1>2. PathTypes'
  BY <1>1, ProducerTyped DEF PathInv, PathTypes
<1> QED BY <1>1, <1>2 DEF PathInv, NumbersInv, InHand

-----------------------------------------------------------------------------
(* The scanner.                                                            *)
LEMMA DequeueKeepsPaths == ASSUME PathInv, Dequeue PROVE PathInv'
<1>1. UNCHANGED <<enqueued, producer, todo, wake, scanned>> /\ scanner = "dequeue"
  BY DEF Dequeue
<1>2. CASE queue = <<>>
  <2>1. scanner' = "top" /\ queue' = queue /\ job' = job
    BY <1>2 DEF Dequeue, WaitAgain
  <2>2. PathTypes'
    BY <1>1, <2>1 DEF PathInv, PathTypes
  <2> QED BY <1>1, <2>1, <2>2 DEF PathInv, NumbersInv, InHand
<1>3. CASE queue # <<>>
  <2>1. scanner' = "scanning" /\ job' = Head(queue) /\ queue' = Tail(queue)
    BY <1>3 DEF Dequeue, PoppedQueue
  <2>2. /\ queue' \in Seq(Jobs) /\ Len(queue) = Len(queue') + 1 /\ Len(queue') \in Nat
        /\ \A i \in 1 .. Len(queue') : queue'[i] = queue[i + 1]
        /\ job' = queue[1] /\ queue[1] \in Jobs
    BY <1>3, <2>1, TailMeans DEF PathInv, PathTypes
  <2>3. PathTypes'
    BY <1>1, <2>1, <2>2 DEF PathInv, PathTypes
  <2>4. Len(scanned) \in Nat /\ InHand = 0 /\ InHand' = 1
    BY <1>1, <2>1, LenProperties DEF PathInv, PathTypes, InHand
  <2>5. 1 \in 1 .. Len(queue) /\ \A i \in 1 .. Len(queue') : i + 1 \in 1 .. Len(queue)
    BY <2>2
  <2>6. \A i \in 1 .. Len(queue') : queue'[i].n = Len(scanned') + InHand' + i
    <3> SUFFICES ASSUME NEW i \in 1 .. Len(queue')
                 PROVE  queue'[i].n = Len(scanned) + 1 + i
      BY <1>1, <2>4
    <3>1. queue[i + 1].n = Len(scanned) + InHand + (i + 1)
      BY <2>5 DEF PathInv, NumbersInv
    <3> QED BY <2>2, <2>4, <3>1
  <2>7. job'.n = Len(scanned') + 1 /\ Len(scanned') + InHand' + Len(queue') = enqueued'
    BY <1>1, <2>2, <2>4, <2>5 DEF PathInv, NumbersInv
  <2> QED BY <1>1, <2>3, <2>6, <2>7 DEF PathInv, NumbersInv
<1> QED BY <1>2, <1>3

LEMMA ScanKeepsPaths == ASSUME PathInv, Scan PROVE PathInv'
<1>1. /\ UNCHANGED <<queue, enqueued, producer, todo, wake>> /\ job' = NoJob
      /\ scanner = "scanning" /\ scanner' \in {"quarantining", "dequeue"}
      /\ scanned' = Append(scanned, job.n)
  BY DEF Scan, TakeNext, producers
<1>2. job \in Jobs /\ job.n \in 1 .. MaxJobs
  BY <1>1 DEF PathInv, PathTypes, Jobs
<1>3. /\ scanned' \in Seq(1 .. MaxJobs) /\ Len(scanned') = Len(scanned) + 1
      /\ Len(scanned) \in Nat
      /\ \A i \in 1 .. Len(scanned) : scanned'[i] = scanned[i]
      /\ scanned'[Len(scanned) + 1] = job.n
  BY <1>1, <1>2, AppendMeans DEF PathInv, PathTypes
<1>4. PathTypes'
  BY <1>1, <1>3 DEF PathInv, PathTypes
<1>5. InHand = 1 /\ InHand' = 0 /\ Len(queue) \in Nat /\ scanner' # "scanning"
  BY <1>1, LenProperties DEF PathInv, PathTypes, InHand
<1>6. \A i \in 1 .. Len(scanned') : scanned'[i] = i
  <2> SUFFICES ASSUME NEW i \in 1 .. Len(scanned) + 1 PROVE scanned'[i] = i
    BY <1>3
  <2>1. i = Len(scanned) + 1 \/ i \in 1 .. Len(scanned)
    BY <1>3
  <2> QED BY <1>1, <1>3, <2>1 DEF PathInv, NumbersInv
<1>7. \A i \in 1 .. Len(queue') : queue'[i].n = Len(scanned') + InHand' + i
  BY <1>1, <1>3, <1>5 DEF PathInv, NumbersInv
<1>8. Len(scanned') + InHand' + Len(queue') = enqueued'
  BY <1>1, <1>3, <1>5 DEF PathInv, NumbersInv
<1> QED BY <1>4, <1>5, <1>6, <1>7, <1>8 DEF PathInv, NumbersInv

LEMMA PathsUntouched ==
  ASSUME PathInv, UNCHANGED <<queue, enqueued, producer, todo, job, scanned>>,
         wake' \in BOOLEAN, scanner # "scanning", scanner' # "scanning",
         scanner' \in {"top", "dequeue", "scanning", "quarantining"}
  PROVE  PathInv'
<1>1. PathTypes'
  BY DEF PathInv, PathTypes
<1> QED BY <1>1 DEF PathInv, NumbersInv, InHand

-----------------------------------------------------------------------------
(* QuarantineFile.                                                         *)
LEMMA NamesTyped ==
  ASSUME MoveTypes, NEW w \in Workers, quarantine[w] # "idle"
  PROVE  target[w] \in Files /\ Name(w) \in Names
<1>1. target[w] \in Files /\ hash[w] \in Contents \cup {NoHash}
  BY DEF MoveTypes
<1> QED BY <1>1 DEF Name, Names

(* Between its start and its record a worker may change its own target and *)
(* hash: nobody's entry is affected.                                       *)
LEMMA QuietStep ==
  ASSUME MoveTypes, VaultInv, NEW w \in Workers, UNCHANGED <<vault, entries>>,
         quarantine[w] # "record", quarantine'[w] # "record",
         \A v \in Workers \ {w} : /\ quarantine'[v] = quarantine[v]
                                  /\ target'[v] = target[v] /\ hash'[v] = hash[v]
  PROVE  VaultInv'
<1>1. \A v \in Workers : quarantine'[v] = "record" =>
        v # w /\ quarantine[v] = "record" /\ Name(v)' = Name(v)
  BY DEF Name
<1>2. \A v \in Workers : quarantine[v] = "record" =>
        quarantine'[v] = "record" /\ Name(v)' = Name(v)
  BY DEF Name
<1>3. \A name : Pending(name) => Pending(name)'
  BY <1>2 DEF Pending
<1> QED BY <1>1, <1>3 DEF VaultInv

LEMMA StepMeans ==
  ASSUME MoveTypes, NEW w \in Workers, NEW from,
         NEW to \in {"idle", "check", "hash", "move", "record"}, Step(w, from, to)
  PROVE  /\ quarantine[w] = from /\ quarantine'[w] = to
         /\ \A v \in Workers \ {w} : quarantine'[v] = quarantine[v]
         /\ quarantine' \in [Workers -> {"idle", "check", "hash", "move", "record"}]
  BY DEF Step, MoveTypes

LEMMA DoneMeans ==
  ASSUME MoveTypes, NEW w \in Workers, Done(w)
  PROVE  /\ target'[w] = "none" /\ \A v \in Workers \ {w} : target'[v] = target[v]
         /\ \A v \in Workers \ {w} : hash'[v] = hash[v]
         /\ target' \in [Workers -> Files \cup {"none"}]
         /\ hash' \in [Workers -> Contents \cup {NoHash}]
  BY DEF Done, MoveTypes

LEMMA CheckKeepsMoves ==
  ASSUME MoveTypes, VaultInv, NEW w \in Workers, Check(w) PROVE MoveTypes' /\ VaultInv'
<1>1. UNCHANGED <<commands, vault, entries>>
  BY DEF Check
<1>2. CASE Step(w, "check", "hash") /\ UNCHANGED <<target, hash>>
  <2>1. MoveTypes'
    BY <1>1, <1>2, StepMeans DEF MoveTypes
  <2> QED BY <1>1, <1>2, <2>1, StepMeans, QuietStep
<1>3. CASE Step(w, "check", "idle") /\ Done(w)
  <2>1. MoveTypes'
    BY <1>1, <1>3, StepMeans, DoneMeans DEF MoveTypes
  <2> QED BY <1>1, <1>3, <2>1, StepMeans, DoneMeans, QuietStep
<1> QED BY <1>2, <1>3 DEF Check

LEMMA HashKeepsMoves ==
  ASSUME DiskTypes, MoveTypes, VaultInv, NEW w \in Workers, ComputeHash(w)
  PROVE  MoveTypes' /\ VaultInv'
<1>1. UNCHANGED <<commands, vault, entries, target>> /\ Step(w, "hash", "move")
  BY DEF ComputeHash
<1>2. target[w] \in Files
  BY <1>1, StepMeans, NamesTyped
<1>3. /\ \A v \in Workers \ {w} : hash'[v] = hash[v]
      /\ hash' \in [Workers -> Contents \cup {NoHash}]
  BY <1>2 DEF ComputeHash, Exists, DiskTypes, MoveTypes
<1>4. MoveTypes'
  BY <1>1, <1>3, StepMeans DEF MoveTypes
<1> QED BY <1>1, <1>3, <1>4, StepMeans, QuietStep

LEMMA MoveKeepsMoves ==
  ASSUME DiskTypes, MoveTypes, VaultInv, NEW w \in Workers, Move(w)
  PROVE  DiskTypes' /\ MoveTypes' /\ VaultInv'
<1>1. UNCHANGED <<held, writes, commands, entries>> /\ AfterFailure = "idle"
  BY DEF Move, AfterFailure
<1>2. CASE /\ Step(w, "move", "record") /\ Exists(w) /\ UNCHANGED <<target, hash>>
           /\ vault' = [vault EXCEPT ![Name(w)] = fs[target[w]]]
           /\ fs' = [fs EXCEPT ![target[w]] = "none"]
  <2>1. target[w] \in Files /\ Name(w) \in Names /\ fs[target[w]] \in Contents
    BY <1>2, StepMeans, NamesTyped DEF Exists, DiskTypes
  <2>2. DiskTypes'
    BY <1>1, <1>2, <2>1 DEF DiskTypes
  <2>3. vault' \in [Names -> Contents \cup {"none"}]
    BY <1>2, <2>1 DEF MoveTypes
  <2>4. MoveTypes'
    BY <1>1, <1>2, <2>3, StepMeans DEF MoveTypes
  <2>5. /\ vault'[Name(w)] # "none"
        /\ \A name \in Names : name # Name(w) => vault'[name] = vault[name]
    BY <1>2, <2>1 DEF MoveTypes, Contents
  <2>6. \A v \in Workers : Name(v)' = Name(v)
    BY <1>2 DEF Name
  <2>7. \A name \in entries' : vault'[name] # "none"
    BY <1>1, <2>5 DEF VaultInv, MoveTypes
  <2>8. \A v \in Workers : quarantine'[v] = "record" => vault'[Name(v)'] # "none"
    <3> SUFFICES ASSUME NEW v \in Workers, quarantine'[v] = "record"
                 PROVE  vault'[Name(v)] # "none"
      BY <2>6
    <3>1. CASE v = w
      BY <3>1, <2>5
    <3>2. CASE v # w
      <4>1. quarantine[v] = "record"
        BY <3>2, <1>2, StepMeans
      <4>2. Name(v) \in Names /\ vault[Name(v)] # "none"
        BY <4>1, NamesTyped DEF VaultInv
      <4> QED BY <4>2, <2>5
    <3> QED BY <3>1, <3>2
  <2>9. \A name \in Names : vault'[name] # "none" => name \in entries' \/ Pending(name)'
    <3>1. quarantine[w] = "move" /\ quarantine'[w] = "record"
      BY <1>2, StepMeans
    <3>2. \A v \in Workers : quarantine[v] = "record" => quarantine'[v] = "record"
      BY <1>2, <3>1, StepMeans
    <3>3. \A name : Pending(name) => Pending(name)'
      BY <2>6, <3>2 DEF Pending
    <3>4. Pending(Name(w))'
      BY <2>6, <3>1 DEF Pending
    <3> QED BY <1>1, <2>5, <2>6, <3>3, <3>4 DEF VaultInv
  <2> QED BY <2>2, <2>4, <2>7, <2>8, <2>9 DEF VaultInv
<1>3. CASE Step(w, "move", "idle") /\ Done(w) /\ UNCHANGED <<vault, fs>>
  <2>1. MoveTypes'
    BY <1>1, <1>3, StepMeans, DoneMeans DEF MoveTypes
  <2>2. VaultInv'
    BY <1>1, <1>3, StepMeans, DoneMeans, QuietStep
  <2>3. DiskTypes'
    BY <1>1, <1>3 DEF DiskTypes
  <2> QED BY <2>1, <2>2, <2>3
<1> QED BY <1>1, <1>2, <1>3 DEF Move

LEMMA RecordKeepsMoves ==
  ASSUME MoveTypes, VaultInv, NEW w \in Workers, Record(w) PROVE MoveTypes' /\ VaultInv'
<1>1. /\ UNCHANGED <<commands, vault>> /\ Step(w, "record", "idle") /\ Done(w)
      /\ entries' = entries \cup {Name(w)}
  BY DEF Record
<1>2. Name(w) \in Names /\ vault[Name(w)] # "none"
  BY <1>1, StepMeans, NamesTyped DEF VaultInv
<1>3. MoveTypes'
  BY <1>1, <1>2, StepMeans, DoneMeans DEF MoveTypes
<1>4. \A v \in Workers \ {w} : Name(v)' = Name(v) /\ quarantine'[v] = quarantine[v]
  BY <1>1, StepMeans, DoneMeans DEF Name
<1>5. quarantine'[w] = "idle"
  BY <1>1, StepMeans
<1>6. \A v \in Workers : quarantine'[v] = "record" => vault'[Name(v)'] # "none"
  BY <1>1, <1>4, <1>5 DEF VaultInv
<1>7. \A name \in Names : vault'[name] # "none" => name \in entries' \/ Pending(name)'
  <2> SUFFICES ASSUME NEW name \in Names, vault[name] # "none"
               PROVE  name \in entries' \/ Pending(name)'
    BY <1>1
  <2>1. CASE name \in entries
    BY <2>1, <1>1
  <2>2. CASE name \notin entries
    <3>1. PICK v \in Workers : quarantine[v] = "record" /\ Name(v) = name
      BY <2>2 DEF VaultInv, Pending
    <3>2. CASE v = w
      BY <3>1, <3>2, <1>1
    <3>3. CASE v # w
      BY <3>1, <3>3, <1>4 DEF Pending
    <3> QED BY <3>2, <3>3
  <2> QED BY <2>1, <2>2
<1>8. \A name \in entries' : vault'[name] # "none"
  BY <1>1, <1>2 DEF VaultInv
<1> QED BY <1>3, <1>6, <1>7, <1>8 DEF VaultInv

-----------------------------------------------------------------------------
LEMMA WorkerKeepsScanInv ==
  ASSUME ScanInv, NEW w \in Workers, QuarantineStep(w) PROVE ScanInv'
<1>1. /\ UNCHANGED <<queue, enqueued, producer, todo, wake, scanner, job, scanned>>
      /\ UNCHANGED <<held, writes>>
  BY DEF QuarantineStep, Check, ComputeHash, Move, Record, disk, producers, scans
<1>2. PathInv'
  BY <1>1 DEF ScanInv, PathInv, PathTypes, NumbersInv, InHand
<1>3. DiskTypes' /\ MoveTypes' /\ VaultInv'
  <2>1. CASE Move(w)
    BY <2>1, MoveKeepsMoves DEF ScanInv, MoveInv
  <2>2. CASE Check(w) \/ ComputeHash(w) \/ Record(w)
    <3>1. DiskTypes'
      BY <2>2 DEF Check, ComputeHash, Record, disk, ScanInv, DiskTypes
    <3> QED BY <2>2, <3>1, CheckKeepsMoves, HashKeepsMoves, RecordKeepsMoves DEF ScanInv, MoveInv
  <2> QED BY <2>1, <2>2 DEF QuarantineStep
<1>4. quarantine[w] # "idle" /\ \A v \in Workers \ {w} : quarantine'[v] = quarantine[v]
  BY StepMeans DEF QuarantineStep, Check, ComputeHash, Move, Record, AfterFailure, ScanInv, MoveInv
<1>5. scanner' # "quarantining" => quarantine'["scanner"] = "idle"
  BY <1>1, <1>4 DEF ScanInv, MoveInv, Workers
<1> QED BY <1>2, <1>3, <1>5 DEF ScanInv, MoveInv

LEMMA ScannerKeepsScanInv == ASSUME ScanInv, ScannerStep PROVE ScanInv'
<1>1. CASE Scan
  <2>1. PathInv' /\ DiskTypes'
    BY <1>1, ScanKeepsPaths DEF ScanInv, Scan, disk, DiskTypes
  <2>2. UNCHANGED <<hash, commands, vault, entries>>
    BY <1>1 DEF Scan
  <2>3. "scanner" \in Workers /\ quarantine["scanner"] = "idle" /\ job.file \in Files
    BY <1>1 DEF Workers, Scan, ScanInv, MoveInv, PathInv, PathTypes, Jobs
  <2>4. CASE Matched
    <3>1. /\ quarantine' = [quarantine EXCEPT !["scanner"] = "check"]
          /\ target' = [target EXCEPT !["scanner"] = job.file] /\ scanner' = "quarantining"
      BY <1>1, <2>4 DEF Scan
    <3>2. MoveTypes'
      BY <2>2, <2>3, <3>1, ScanAssumption DEF MoveTypes, ScanInv, MoveInv
    <3>3. VaultInv'
      <4>1. /\ quarantine'["scanner"] = "check"
            /\ \A v \in Workers \ {"scanner"} : /\ quarantine'[v] = quarantine[v]
                                                /\ target'[v] = target[v] /\ hash'[v] = hash[v]
        BY <2>2, <2>3, <3>1 DEF MoveTypes, ScanInv, MoveInv
      <4> QED BY <2>2, <2>3, <4>1, QuietStep DEF ScanInv, MoveInv
    <3> QED BY <2>1, <3>1, <3>2, <3>3 DEF ScanInv, MoveInv
  <2>5. CASE ~Matched
    <3>1. UNCHANGED <<quarantine, target>>
      BY <1>1, <2>5 DEF Scan
    <3>2. MoveTypes' /\ VaultInv'
      BY <2>2, <3>1 DEF ScanInv, MoveInv, MoveTypes, VaultInv, Pending, Name
    <3> QED BY <2>1, <2>3, <3>1, <3>2 DEF ScanInv, MoveInv
  <2> QED BY <2>4, <2>5
<1>2. CASE Wait \/ Dequeue \/ Quarantined
  <2>1. UNCHANGED <<disk, moves>> /\ scanner \in {"top", "dequeue", "quarantining"}
    BY <1>2 DEF Wait, Dequeue, Quarantined
  <2>2. quarantine["scanner"] = "idle"
    BY <1>2 DEF Wait, Dequeue, Quarantined, ScanInv, MoveInv
  <2>3. PathInv'
    <3>1. CASE Dequeue
      BY <3>1, DequeueKeepsPaths DEF ScanInv
    <3>2. CASE Wait \/ Quarantined
      <4>1. /\ UNCHANGED <<queue, enqueued, producer, todo, job, scanned>>
            /\ wake' \in BOOLEAN /\ scanner # "scanning" /\ scanner' = "dequeue"
        BY <3>2 DEF Wait, Quarantined, TakeNext, producers, ScanInv, PathInv, PathTypes
      <4> QED BY <4>1, PathsUntouched DEF ScanInv
    <3> QED BY <1>2, <3>1, <3>2
  <2>4. DiskTypes' /\ MoveTypes' /\ VaultInv'
    BY <2>1 DEF disk, moves, ScanInv, MoveInv, DiskTypes, MoveTypes, VaultInv, Pending, Name
  <2> QED BY <2>1, <2>2, <2>3, <2>4 DEF moves, ScanInv, MoveInv
<1> QED BY <1>1, <1>2 DEF ScannerStep

LEMMA CommandKeepsScanInv == ASSUME ScanInv, Command PROVE ScanInv'
<1>1. /\ UNCHANGED <<disk, producers, wake, scans, hash, vault, entries>>
      /\ commands' = commands + 1 /\ commands < MaxCommands
      /\ quarantine["commander"] = "idle"
      /\ quarantine' = [quarantine EXCEPT !["commander"] = "check"]
  BY DEF Command
<1>2. PICK f \in Files : target' = [target EXCEPT !["commander"] = f]
  BY DEF Command
<1>3. "commander" \in Workers /\ "scanner" \in Workers
  BY DEF Workers
<1>4. PathInv' /\ DiskTypes'
  BY <1>1 DEF disk, producers, scans, ScanInv, PathInv, PathTypes, NumbersInv, InHand, DiskTypes
<1>5. commands' \in 0 .. MaxCommands
  BY <1>1, ScanAssumption DEF ScanInv, MoveInv, MoveTypes
<1>6. MoveTypes'
  BY <1>1, <1>2, <1>3, <1>5, ScanAssumption DEF ScanInv, MoveInv, MoveTypes
<1>7. /\ quarantine'["commander"] = "check"
      /\ \A v \in Workers \ {"commander"} : /\ quarantine'[v] = quarantine[v]
                                            /\ target'[v] = target[v] /\ hash'[v] = hash[v]
  BY <1>1, <1>2, <1>3 DEF ScanInv, MoveInv, MoveTypes
<1>8. VaultInv'
  BY <1>1, <1>3, <1>7, QuietStep DEF ScanInv, MoveInv
<1> QED BY <1>1, <1>3, <1>4, <1>6, <1>7, <1>8 DEF scans, ScanInv, MoveInv

LEMMA NextKeepsScanInv == ScanInv /\ [ScanNext]_scanVars => ScanInv'
<1> SUFFICES ASSUME ScanInv, [ScanNext]_scanVars PROVE ScanInv'
  OBVIOUS
<1>1. ASSUME NEW f \in Files, OpenFile(f) \/ CloseFile(f) PROVE ScanInv'
  <2>1. UNCHANGED <<producers, wake, scans, moves>>
    BY <1>1 DEF OpenFile, CloseFile
  <2>2. DiskTypes'
    BY <1>1, ScanAssumption DEF OpenFile, CloseFile, ScanInv, DiskTypes, Contents
  <2>3. PathInv'
    BY <2>1 DEF producers, scans, ScanInv, PathInv, PathTypes, NumbersInv, InHand
  <2>4. MoveInv'
    BY <2>1 DEF moves, scans, ScanInv, MoveInv, MoveTypes, VaultInv, Pending, Name
  <2> QED BY <2>2, <2>3, <2>4 DEF ScanInv
<1>2. ASSUME NEW p \in Producers, Request(p) \/ EnqueueStep(p) PROVE ScanInv'
  <2>1. PathInv'
    BY <1>2, RequestKeepsPaths, PushKeepsPaths, SetKeepsPaths DEF EnqueueStep, ScanInv
  <2>2. UNCHANGED <<disk, scans, moves>>
    BY <1>2 DEF Request, EnqueueStep, Push, SetQueueEvent
  <2>3. DiskTypes' /\ MoveInv'
    BY <2>2 DEF disk, scans, moves, ScanInv, DiskTypes, MoveInv, MoveTypes, VaultInv, Pending, Name
  <2> QED BY <2>1, <2>3 DEF ScanInv
<1>3. CASE UNCHANGED scanVars
  <2>1. UNCHANGED <<disk, producers, wake, scans, moves>>
    BY <1>3 DEF scanVars
  <2>2. PathInv'
    BY <2>1 DEF producers, scans, ScanInv, PathInv, PathTypes, NumbersInv, InHand
  <2>3. DiskTypes' /\ MoveInv'
    BY <2>1 DEF disk, scans, moves, ScanInv, DiskTypes, MoveInv, MoveTypes, VaultInv, Pending, Name
  <2> QED BY <2>2, <2>3 DEF ScanInv
<1> QED BY <1>1, <1>2, <1>3, ScannerKeepsScanInv, CommandKeepsScanInv, WorkerKeepsScanInv
        DEF ScanNext

(* ScanPipeline's inductive invariant.                                     *)
THEOREM ScanInductive == ScanSpec => []ScanInv
  BY InitScanInv, NextKeepsScanInv, PTL DEF ScanSpec

(* Every variable has its type; the scanner holds a path exactly while     *)
(* ScannerWorkerThread scans it, a worker has a file exactly while it is   *)
(* in QuarantineFile, and no more paths are pushed than were requested.    *)
THEOREM ScanTypeCorrect == ScanSpec => []ScanTypeOK
<1>1. ScanInv => ScanTypeOK
  BY DEF ScanInv, PathInv, PathTypes, DiskTypes, MoveInv, MoveTypes, ScanTypeOK
<1> QED BY <1>1, ScanInductive, PTL

(* ScannerWorkerThread scans the paths that EnqueuePath pushed each once   *)
(* and in order: none is lost or taken twice between the lock of the push, *)
(* the event and the pop, for any number of producers and paths.           *)
THEOREM ScannedOnce == ScanSpec => []EachScannedOnce
<1>1. ASSUME ScanInv PROVE EachScannedOnce
  <2> DEFINE inHand == IF scanner = "scanning" THEN <<job.n>> ELSE <<>>
             waiting == [i \in 1 .. Len(queue) |-> queue[i].n]
             all == [n \in 1 .. enqueued |-> n]
  <2>1. /\ scanned \in Seq(1 .. MaxJobs) /\ Len(scanned) \in Nat /\ Len(queue) \in Nat
        /\ enqueued \in 0 .. MaxJobs /\ MaxJobs \in Nat
    BY <1>1, LenProperties, ScanAssumption DEF ScanInv, PathInv, PathTypes
  <2>2. /\ inHand \in Seq(1 .. MaxJobs) /\ Len(inHand) = InHand /\ InHand \in Nat
        /\ \A i \in 1 .. InHand : inHand[i] = Len(scanned) + i
    <3>1. CASE scanner = "scanning"
      <4>1. job.n \in 1 .. MaxJobs /\ job.n = Len(scanned) + 1
        BY <1>1, <3>1 DEF ScanInv, PathInv, PathTypes, NumbersInv, Jobs
      <4>2. inHand = <<job.n>> /\ InHand = 1
        BY <3>1 DEF InHand
      <4>3. PICK n \in 1 .. MaxJobs : inHand = <<n>> /\ n = Len(scanned) + 1
        BY <4>1, <4>2
      <4>4. \A i \in 1 .. 1 : i = 1
        OBVIOUS
      <4>5. <<n>> \in Seq(1 .. MaxJobs) /\ Len(<<n>>) = 1 /\ <<n>>[1] = n
        OBVIOUS
      <4> QED BY <4>2, <4>3, <4>4, <4>5
    <3>2. CASE scanner # "scanning"
      BY <3>2 DEF InHand
    <3> QED BY <3>1, <3>2
  <2>3. /\ waiting \in Seq(1 .. MaxJobs) /\ Len(waiting) = Len(queue)
        /\ \A i \in 1 .. Len(queue) : waiting[i] = Len(scanned) + InHand + i
    <3>1. \A i \in 1 .. Len(queue) : queue[i].n \in 1 .. MaxJobs
      <4>1. \A i \in 1 .. Len(queue) : queue[i] \in Jobs
        BY <1>1, ElementOfSeq DEF ScanInv, PathInv, PathTypes
      <4> QED BY <4>1 DEF Jobs
    <3>2. waiting \in Seq(1 .. MaxJobs)
      BY <2>1, <3>1
    <3>3. Len(waiting) = Len(queue)
      BY <2>1
    <3> QED BY <1>1, <3>2, <3>3 DEF ScanInv, PathInv, NumbersInv
  <2>4. all \in Seq(1 .. MaxJobs) /\ Len(all) = enqueued /\ \A i \in 1 .. enqueued : all[i] = i
    <3>1. enqueued \in Nat /\ \A i \in 1 .. enqueued : i \in 1 .. MaxJobs
      BY <2>1
    <3>2. all \in Seq(1 .. MaxJobs)
      BY <3>1
    <3> QED BY <3>1, <3>2
  <2>5. \A i \in 1 .. Len(scanned) : scanned[i] = i
    BY <1>1 DEF ScanInv, PathInv, NumbersInv
  <2>6. Len(scanned) + InHand + Len(queue) = enqueued
    BY <1>1 DEF ScanInv, PathInv, NumbersInv
  <2> HIDE DEF inHand, waiting, all
  <2>7. PICK s \in Seq(1 .. MaxJobs) : /\ s = scanned \o inHand /\ Len(s) = Len(scanned) + InHand
                              /\ \A i \in 1 .. Len(s) : s[i] = i
    <3>1. /\ scanned \o inHand \in Seq(1 .. MaxJobs)
          /\ Len(scanned \o inHand) = Len(scanned) + InHand
          /\ \A i \in 1 .. Len(scanned) + InHand : (scanned \o inHand)[i] =
                IF i <= Len(scanned) THEN scanned[i] ELSE inHand[i - Len(scanned)]
      BY <2>1, <2>2, ConcatProperties
    <3>2. \A i \in 1 .. Len(scanned) + InHand : (scanned \o inHand)[i] = i
      <4> SUFFICES ASSUME NEW i \in 1 .. Len(scanned) + InHand
                   PROVE  (scanned \o inHand)[i] = i
        OBVIOUS
      <4>1. CASE i <= Len(scanned)
        BY <2>1, <2>5, <3>1, <4>1
      <4>2. CASE i > Len(scanned)
        <5>1. i - Len(scanned) \in 1 .. InHand
          BY <2>1, <2>2, <4>2
        <5>2. (scanned \o inHand)[i] = inHand[i - Len(scanned)]
          BY <2>1, <2>2, <3>1, <4>2
        <5> QED BY <2>1, <2>2, <5>1, <5>2
      <4> QED BY <2>1, <2>2, <4>1, <4>2
    <3> QED BY <3>1, <3>2
  <2>8. /\ s \o waiting \in Seq(1 .. MaxJobs) /\ Len(s \o waiting) = enqueued
        /\ \A i \in 1 .. enqueued : (s \o waiting)[i] = i
    <3>1. /\ s \o waiting \in Seq(1 .. MaxJobs)
          /\ Len(s \o waiting) = Len(s) + Len(queue)
          /\ \A i \in 1 .. Len(s) + Len(queue) : (s \o waiting)[i] =
                IF i <= Len(s) THEN s[i] ELSE waiting[i - Len(s)]
      BY <2>3, <2>7, ConcatProperties
    <3>2. Len(s) + Len(queue) = enqueued
      BY <2>6, <2>7
    <3>3. ASSUME NEW i \in 1 .. enqueued PROVE (s \o waiting)[i] = i
      <4>1. CASE i <= Len(s)
        BY <2>1, <2>2, <2>7, <3>1, <3>2, <4>1
      <4>2. CASE i > Len(s)
        <5>1. i - Len(s) \in 1 .. Len(queue)
          BY <2>1, <2>2, <2>7, <3>2, <4>2
        <5>2. (s \o waiting)[i] = waiting[i - Len(s)]
          BY <2>1, <2>2, <2>7, <3>1, <3>2, <4>2
        <5>3. waiting[i - Len(s)] = Len(scanned) + InHand + (i - Len(s))
          BY <2>3, <5>1
        <5>4. Len(scanned) + InHand + (i - Len(s)) = i
          BY <2>1, <2>2, <2>7
        <5> QED BY <5>2, <5>3, <5>4
      <4>3. i <= Len(s) \/ i > Len(s)
        BY <2>1, <2>2, <2>7
      <4> QED BY <4>1, <4>2, <4>3
    <3> QED BY <3>1, <3>2, <3>3
  <2>9. s \o waiting = all
    BY <2>1, <2>4, <2>8, SeqEqual
  <2> QED BY <2>7, <2>9 DEF EachScannedOnce, inHand, waiting, all
<1> QED BY <1>1, ScanInductive, PTL

(* The records of the quarantine directory are right although the scanner  *)
(* and the command thread run QuarantineFile at once and on the same file: *)
(* each of g_QuarantineEntries names a file that is there, and each file   *)
(* there has an entry, or a thread between its move and its entry.         *)
THEOREM VaultMatched == ScanSpec => []EntriesMatchVault
<1>1. ASSUME ScanInv PROVE EntriesMatchVault
  <2> DEFINE inVault == {name \in Names : vault[name] # "none"}
             pending == {Name(w) : w \in {w \in Workers : quarantine[w] = "record"}}
  <2>1. MoveTypes /\ VaultInv
    BY <1>1 DEF ScanInv, MoveInv
  <2>2. entries \subseteq inVault
    BY <2>1 DEF MoveTypes, VaultInv
  <2>3. pending \subseteq inVault
    <3>1. \A w \in Workers : quarantine[w] = "record" => Name(w) \in inVault
      BY <2>1, NamesTyped DEF VaultInv
    <3> QED BY <3>1
  <2>4. inVault \subseteq entries \cup pending
    BY <2>1 DEF VaultInv, Pending
  <2> QED BY <2>2, <2>3, <2>4 DEF EntriesMatchVault
<1> QED BY <1>1, ScanInductive, PTL

=============================================================================

--------------------------- MODULE EtwConsumerProofs ---------------------------
(***************************************************************************)
(* Proofs about EtwConsumer: any number of starts, shutdowns and deaths of *)
(* the agent, with a trace's thread and a detector's that the shutdown may *)
(* never see end.                                                          *)
(***************************************************************************)
EXTENDS EtwConsumer, SequenceTheorems, TLAPS

Words == {"signal", "closeTrace", "stopSession", "join", "closeEvent", "clear", "closeDb"}

(* s is what is left of t.                                                 *)
LeftOf(s, t) == /\ s \in Seq(Words) /\ Len(s) <= Len(t)
                /\ \A i \in 1 .. Len(s) : s[i] = t[i + Len(t) - Len(s)]

BeforeSession == {"down", "register", "createEvent", "stopOld", "startSession"}

(* TypeOK, but for the suffix, which LeftOf gives.                         *)
WorkerTypes ==
  /\ stage \in BeforeSession \cup {"startThread", "up", "shutdown"}
  /\ LeftOf(left, ShutdownSteps) /\ (left # <<>> => stage = "shutdown")
  /\ run \in 0 .. MaxStarts /\ session \in 0 .. run
  /\ ownsSession \in BOOLEAN /\ traceHandle \in BOOLEAN /\ registered \in BOOLEAN
  /\ etwStop \in {"NULL", "clear", "set"} /\ timedOut \in BOOLEAN /\ stopFailed \in BOOLEAN

ThreadTypes ==
  /\ database \in {"open", "closed"} /\ dbMutex \in Writers \cup {Nobody} /\ lossless \in BOOLEAN
  /\ trace \in InFlight \cup {"none", "open", "call", "process", "ended"}
  /\ detector \in BOOLEAN
  /\ (dbMutex = Trace <=> trace = "store") /\ (dbMutex = Detector <=> detector)
  /\ dbMutex # Nobody => database = "open"

EventTypes ==
  /\ kinds \in Seq(Kinds) /\ first \in 1 .. Len(kinds) + 1
  /\ recent \in [Remembered -> Seq(1 .. Len(kinds))]
  /\ rows \in Seq(Nat)

(* A run starts its session late and stops it early in its shutdown (five  *)
(* steps are left then).  Until that stop it owns the session exactly if   *)
(* there is one of its number; after it, there is one only if the stop has *)
(* failed.  The session of an older run is there only before this run      *)
(* stops it, or if that stop failed, and then no thread is started.        *)
SessionInv ==
  /\ stage # "down" => run # 0 /\ (ownsSession => session = run)
  /\ stage # "down" /\ session = run => ownsSession \/ stopFailed
  /\ stage \in BeforeSession => ~ownsSession
  /\ stage \in BeforeSession \ {"down"} => session # run
  /\ stage = "shutdown" /\ Len(left) < 5 => ~ownsSession
  /\ stage \in {"down", "register", "createEvent"} => etwStop = "NULL"
  /\ etwStop # "NULL" /\ stage # "stopOld" /\ session \notin {0, run} => stopFailed
  /\ stage = "startThread" \/ trace # "none" => session \in {0, run}

(* The thread is started once, and the callbacks are taken away after it   *)
(* was waited for.                                                         *)
TraceInv ==
  /\ stage \in BeforeSession \cup {"startThread"} => trace = "none"
  /\ stage = "shutdown" /\ Len(left) <= 3 => trace \in {"none", "ended"} \/ timedOut
  /\ trace \in {"callback", "store"} => registered \/ timedOut

(* What is in the table is what the thread is done with, and a run begins  *)
(* with empty deques.                                                      *)
EventsInv ==
  /\ trace \in InFlight => Len(kinds) > 0
  /\ \A i \in DOMAIN rows : rows[i] \in 1 .. Handled
  /\ stage \in {"down", "register"} => recent = NoEvents
  /\ stage = "down" => ~registered
  /\ stage = "register" => first = Len(kinds) + 1
  /\ EventsInOrder

IInv == WorkerTypes /\ ThreadTypes /\ EventTypes /\ SessionInv /\ TraceInv /\ EventsInv

-----------------------------------------------------------------------------
(* A suffix, index by index.                                               *)
LEMMA SuffixMeans ==
  ASSUME NEW S, NEW s \in Seq(S), NEW t \in Seq(S)
  PROVE  IsSuffix(s, t) <=> /\ Len(s) <= Len(t)
                            /\ \A i \in 1 .. Len(s) : s[i] = t[i + Len(t) - Len(s)]
<1>1. /\ Len(Reverse(s)) = Len(s) /\ Len(Reverse(t)) = Len(t)
      /\ Reverse(s) \in Seq(S) /\ Reverse(t) \in Seq(S)
      /\ \A i \in 1 .. Len(s) : Reverse(s)[i] = s[Len(s) - i + 1]
      /\ \A i \in 1 .. Len(t) : Reverse(t)[i] = t[Len(t) - i + 1]
  BY DEF Reverse
<1>2. CASE Len(s) > Len(t)
  BY <1>1, <1>2 DEF IsSuffix, IsPrefix
<1>3. CASE Len(s) <= Len(t)
  <2> DEFINE u == SubSeq(Reverse(s), 1, Len(s))
             v == SubSeq(Reverse(t), 1, Len(s))
  <2>1. u \in Seq(S) /\ Len(u) = Len(s) /\ \A i \in 1 .. Len(s) : u[i] = s[Len(s) - i + 1]
    BY <1>1, SubSeqProperties
  <2>2. v \in Seq(S) /\ Len(v) = Len(s) /\ \A i \in 1 .. Len(s) : v[i] = t[Len(t) - i + 1]
    BY <1>1, <1>3, SubSeqProperties
  <2> HIDE DEF u, v
  <2>3. u = v <=> \A i \in 1 .. Len(s) : u[i] = v[i]
    BY <2>1, <2>2, SeqEqual
  <2>4. (\A i \in 1 .. Len(s) : u[i] = v[i])
        <=> (\A i \in 1 .. Len(s) : s[i] = t[i + Len(t) - Len(s)])
    <3>1. ASSUME \A i \in 1 .. Len(s) : u[i] = v[i], NEW i \in 1 .. Len(s)
          PROVE  s[i] = t[i + Len(t) - Len(s)]
      <4>1. Len(s) - i + 1 \in 1 .. Len(s)
        OBVIOUS
      <4>2. u[Len(s) - i + 1] = s[i] /\ v[Len(s) - i + 1] = t[Len(t) - (Len(s) - i + 1) + 1]
        BY <4>1, <2>1, <2>2
      <4>3. Len(t) - (Len(s) - i + 1) + 1 = i + Len(t) - Len(s)
        OBVIOUS
      <4> QED BY <3>1, <4>1, <4>2, <4>3
    <3>2. ASSUME \A i \in 1 .. Len(s) : s[i] = t[i + Len(t) - Len(s)], NEW i \in 1 .. Len(s)
          PROVE  u[i] = v[i]
      <4>1. Len(s) - i + 1 \in 1 .. Len(s)
        OBVIOUS
      <4>2. u[i] = s[Len(s) - i + 1] /\ v[i] = t[Len(t) - i + 1]
        BY <2>1, <2>2
      <4>3. Len(s) - i + 1 + Len(t) - Len(s) = Len(t) - i + 1
        OBVIOUS
      <4> QED BY <3>2, <4>1, <4>2, <4>3
    <3> QED BY <3>1, <3>2
  <2>5. IsSuffix(s, t) <=> u = v
    BY <1>1, <1>3 DEF IsSuffix, IsPrefix, u, v
  <2> QED BY <1>3, <2>3, <2>4, <2>5
<1> QED BY <1>2, <1>3

LEMMA NotEmpty == \A s : Len(s) # 0 => s # <<>>
  OBVIOUS

(* One step less is left.                                                  *)
LEMMA LessLeft ==
  ASSUME NEW t \in Seq(Words), NEW s, LeftOf(s, t), s # <<>>
  PROVE  /\ Len(s) \in 1 .. Len(t) /\ Head(s) = t[1 + Len(t) - Len(s)]
         /\ Len(Tail(s)) = Len(s) - 1
         /\ LeftOf(Tail(s), t)
<1>1. /\ Len(s) \in Nat /\ Len(s) > 0 /\ Len(t) \in Nat
      /\ Tail(s) \in Seq(Words) /\ Len(Tail(s)) = Len(s) - 1
      /\ \A i \in 1 .. Len(s) - 1 : Tail(s)[i] = s[i + 1]
      /\ Head(s) = s[1]
  BY HeadTailProperties, EmptySeq DEF LeftOf
<1>2. \A i \in 1 .. Len(s) - 1 : s[i + 1] = t[i + Len(t) - (Len(s) - 1)]
  BY <1>1 DEF LeftOf
<1> QED BY <1>1, <1>2 DEF LeftOf

LEMMA AllLeft == ASSUME NEW t \in Seq(Words) PROVE LeftOf(t, t) /\ LeftOf(<<>>, t)
  BY DEF LeftOf

(* The shutdown, position by position.                                     *)
LEMMA ShutdownPlaces ==
  /\ ShutdownSteps \in Seq(Words) /\ Len(ShutdownSteps) = 7
  /\ ShutdownSteps[1] = "signal" /\ ShutdownSteps[2] = "closeTrace"
  /\ ShutdownSteps[3] = "stopSession" /\ ShutdownSteps[4] = "join"
  /\ ShutdownSteps[5] = "closeEvent" /\ ShutdownSteps[6] = "clear"
  /\ ShutdownSteps[7] = "closeDb"
<1>1. ShutdownSteps \in Seq(Words)
  BY DEF ShutdownSteps, Words
<1>2. Len(ShutdownSteps) = 7
  BY DEF ShutdownSteps
<1> QED BY <1>1, <1>2 DEF ShutdownSteps

(* The step that is next, from the number of those that are left.          *)
LEMMA NextStep ==
  ASSUME NEW n \in 1 .. 7
  PROVE  /\ ShutdownSteps[1 + 7 - n] = "signal" <=> n = 7
         /\ ShutdownSteps[1 + 7 - n] = "closeTrace" <=> n = 6
         /\ ShutdownSteps[1 + 7 - n] = "stopSession" <=> n = 5
         /\ ShutdownSteps[1 + 7 - n] = "join" <=> n = 4
         /\ ShutdownSteps[1 + 7 - n] = "closeEvent" <=> n = 3
         /\ ShutdownSteps[1 + 7 - n] = "clear" <=> n = 2
         /\ ShutdownSteps[1 + 7 - n] = "closeDb" <=> n = 1
<1>1. n = 1 \/ n = 2 \/ n = 3 \/ n = 4 \/ n = 5 \/ n = 6 \/ n = 7
  OBVIOUS
<1> QED BY <1>1, ShutdownPlaces

(* A deque that has the latest events has them also after one more.        *)
LEMMA OneMore ==
  ASSUME NEW q \in Seq(Nat), NEW mine, Latest(q, mine), NEW n \in Nat,
         \A e \in mine : e \in Nat /\ e < n
  PROVE  Latest(Limited(Append(q, n)), mine \cup {n})
<1> USE EtwAssumption
<1> DEFINE long == Append(q, n)
<1>1. /\ long \in Seq(Nat) /\ Len(long) = Len(q) + 1 /\ long[Len(q) + 1] = n
      /\ \A i \in 1 .. Len(q) : long[i] = q[i]
  BY AppendProperties
<1>2. /\ Len(q) \in Nat /\ Len(q) <= MaxEtwEvents /\ \A i \in 1 .. Len(q) : q[i] \in mine
      /\ \A i, j \in 1 .. Len(q) : i < j => q[i] < q[j]
      /\ \A e \in mine : \/ \E i \in 1 .. Len(q) : q[i] = e
                         \/ Len(q) = MaxEtwEvents /\ \A i \in 1 .. Len(q) : e < q[i]
  BY DEF Latest
<1> HIDE DEF long
<1>3. ASSUME NEW i \in 1 .. Len(long), NEW j \in 1 .. Len(long), i < j
      PROVE  long[i] < long[j]
  <2>1. i \in 1 .. Len(q) /\ (j \in 1 .. Len(q) \/ j = Len(q) + 1)
    <3>1. Len(q) \in Nat /\ i \in 1 .. Len(q) + 1 /\ j \in 1 .. Len(q) + 1
      BY <1>1
    <3> QED BY <3>1, <1>3
  <2>2. long[i] = q[i] /\ q[i] \in mine
    BY <1>1, <1>2, <2>1
  <2>3. CASE j \in 1 .. Len(q)
    BY <1>1, <1>2, <1>3, <2>1, <2>2, <2>3
  <2>4. CASE j = Len(q) + 1
    BY <1>1, <2>2, <2>4
  <2> QED BY <2>1, <2>3, <2>4
<1>4. ASSUME NEW i \in 1 .. Len(long) PROVE long[i] \in mine \cup {n}
  <2>1. i \in 1 .. Len(q) \/ i = Len(q) + 1
    BY <1>1, <1>2
  <2> QED BY <1>1, <1>2, <2>1
<1>5. CASE Len(long) <= MaxEtwEvents
  <2>1. Limited(long) = long
    BY <1>1, <1>2, <1>5 DEF Limited
  <2>2. ASSUME NEW e \in mine \cup {n} PROVE \E i \in 1 .. Len(long) : long[i] = e
    BY <1>1, <1>2, <1>5
  <2>3. DOMAIN long = 1 .. Len(long)
    BY <1>1
  <2>4. Latest(long, mine \cup {n})
    BY <1>3, <1>4, <1>5, <2>2, <2>3 DEF Latest
  <2> QED BY <2>1, <2>4 DEF long
<1>6. CASE Len(long) > MaxEtwEvents
  <2> DEFINE short == Tail(long)
  <2>1. Limited(long) = short /\ Len(q) = MaxEtwEvents
    BY <1>1, <1>2, <1>6 DEF Limited
  <2>2. /\ short \in Seq(Nat) /\ Len(short) = MaxEtwEvents
        /\ \A i \in 1 .. MaxEtwEvents : short[i] = long[i + 1]
    BY <1>1, <2>1, HeadTailProperties, EmptySeq
  <2> HIDE DEF short
  <2>3. \A i \in 1 .. Len(short) : short[i] \in mine \cup {n}
    BY <1>1, <1>4, <2>1, <2>2
  <2>4. \A i, j \in 1 .. Len(short) : i < j => short[i] < short[j]
    BY <1>1, <1>3, <2>1, <2>2
  <2>5. ASSUME NEW e \in mine \cup {n}
        PROVE  \/ \E i \in 1 .. Len(short) : short[i] = e
               \/ \A i \in 1 .. Len(short) : e < short[i]
    <3>1. CASE e = n
      BY <1>1, <2>1, <2>2, <3>1
    <3>2. CASE \E i \in 1 .. Len(q) : q[i] = e
      <4>1. PICK i \in 1 .. Len(q) : q[i] = e
        BY <3>2
      <4>2. CASE i = 1
        BY <1>1, <1>3, <2>1, <2>2, <4>1, <4>2
      <4>3. CASE i # 1
        <5>1. i - 1 \in 1 .. MaxEtwEvents /\ (i - 1) + 1 = i
          BY <2>1, <4>3
        <5> QED BY <1>1, <2>2, <4>1, <5>1
      <4> QED BY <4>2, <4>3
    <3>3. CASE e \in mine /\ \A i \in 1 .. Len(q) : e < q[i]
      <4>1. \A i \in 1 .. Len(long) : e < long[i]
        BY <1>1, <3>3
      <4> QED BY <1>1, <2>1, <2>2, <4>1
    <3> QED BY <1>2, <3>1, <3>2, <3>3
  <2>6. DOMAIN short = 1 .. Len(short) /\ Len(short) <= MaxEtwEvents
    BY <2>2
  <2>7. Latest(short, mine \cup {n})
    BY <2>2, <2>3, <2>4, <2>5, <2>6 DEF Latest
  <2> QED BY <2>1, <2>7 DEF long
<1> QED BY <1>1, <1>2, <1>5, <1>6

-----------------------------------------------------------------------------
LEMMA InitIInv == Init => IInv
<1> SUFFICES ASSUME Init PROVE IInv
  OBVIOUS
<1> USE EtwAssumption, TelemetryDbAssumption DEF Init, DbInit
<1>1. WorkerTypes
  <2>1. LeftOf(left, ShutdownSteps)
    BY AllLeft, ShutdownPlaces
  <2>2. run \in 0 .. MaxStarts /\ session \in 0 .. run
    OBVIOUS
  <2>3. /\ ownsSession \in BOOLEAN /\ traceHandle \in BOOLEAN /\ registered \in BOOLEAN
        /\ timedOut \in BOOLEAN
    OBVIOUS
  <2>4. stage \in BeforeSession /\ etwStop \in {"NULL", "clear", "set"}
    BY DEF BeforeSession
  <2>5. left = <<>>
    OBVIOUS
  <2> QED BY <2>1, <2>2, <2>3, <2>4, <2>5, Zenon DEF WorkerTypes
<1>2. ThreadTypes /\ EventTypes
  <2>1. ThreadTypes
    BY DEF ThreadTypes, InFlight
  <2>2. kinds \in Seq(Kinds) /\ rows \in Seq(Nat) /\ first \in 1 .. Len(kinds) + 1
    OBVIOUS
  <2>3. recent \in [Remembered -> Seq(1 .. Len(kinds))]
    BY DEF NoEvents
  <2> QED BY <2>1, <2>2, <2>3 DEF EventTypes
<1>3. SessionInv /\ TraceInv
  BY DEF SessionInv, TraceInv, BeforeSession
<1>4. EventsInv
  BY DEF EventsInv, EventsInOrder, Handled, InFlight
<1> QED BY <1>1, <1>2, <1>3, <1>4 DEF IInv

(* A step that no event, row or deque is part of.                          *)
LEMMA SameEvents ==
  ASSUME EventTypes, EventsInv, trace' \in InFlight <=> trace \in InFlight,
         UNCHANGED <<rows, lossless, registered, recent, kinds, first>>,
         stage' = stage \/ stage' \notin {"down", "register"}
  PROVE  EventTypes' /\ EventsInv'
<1>1. EventTypes'
  BY DEF EventTypes
<1>2. Handled' = Handled /\ \A k \in Remembered : Mine(k)' = Mine(k)
  BY DEF Handled, Mine
<1>3. EventsInOrder'
  BY <1>2 DEF EventsInv, EventsInOrder
<1> QED BY <1>1, <1>2, <1>3 DEF EventsInv

(* The next start of the agent.                                            *)
LEMMA StartKeepsIInv == ASSUME IInv, Start PROVE IInv'
<1> USE EtwAssumption, TelemetryDbAssumption
<1>1. /\ stage = "down" /\ stage' = "register" /\ run < MaxStarts /\ run' = run + 1
      /\ first' = Len(kinds) + 1 /\ dbMutex = Nobody /\ database' \in {"open", "closed"}
      /\ UNCHANGED <<dbMutex, rows, lossless, left, session, ownsSession, traceHandle, stopFailed,
                     etwStop, trace, registered, recent, kinds, timedOut, detector>>
  BY DEF Start, Goes, OpenDb, kernel
<1>2. WorkerTypes' /\ ThreadTypes'
  BY <1>1 DEF IInv, WorkerTypes, ThreadTypes, BeforeSession
<1>3. SessionInv' /\ TraceInv'
  BY <1>1 DEF IInv, WorkerTypes, SessionInv, TraceInv, BeforeSession
<1>4. EventTypes'
  BY <1>1 DEF IInv, EventTypes
<1>5. EventsInv'
  <2>1. Handled' = Handled /\ ~registered' /\ recent' = NoEvents
    BY <1>1 DEF IInv, EventsInv, Handled
  <2> QED BY <1>1, <2>1 DEF IInv, EventsInv, EventsInOrder
<1> QED BY <1>2, <1>3, <1>4, <1>5 DEF IInv

(* The phase in which the session and the thread are started.              *)
LEMMA StartsKeepsIInv == ASSUME IInv, Starts PROVE IInv'
<1> USE EtwAssumption, TelemetryDbAssumption
<1>1. UNCHANGED <<db, left, run, traceHandle, recent, kinds, first, timedOut, detector>>
  BY DEF Starts, RegisterEtwCallback, CreateStopEvent, StopOldSession, StartSession, StartThread,
         kernel, events
<1>2. trace = "none" /\ trace' \in {"none", "open"}
  BY DEF Starts, RegisterEtwCallback, CreateStopEvent, StopOldSession, StartSession, StartThread,
         Goes, IInv, TraceInv, BeforeSession
<1>3. ThreadTypes'
  BY <1>1, <1>2 DEF IInv, ThreadTypes, db, InFlight
<1>4. WorkerTypes'
  <2>1. left = <<>>
    BY DEF Starts, RegisterEtwCallback, CreateStopEvent, StopOldSession, StartSession, StartThread,
       Goes, IInv, WorkerTypes
  <2>2. session' \in 0 .. run
    BY DEF Starts, RegisterEtwCallback, CreateStopEvent, StopOldSession, StartSession, StartThread,
           ControlTraceStop, IInv, WorkerTypes, kernel
  <2>3. ownsSession' \in BOOLEAN /\ registered' \in BOOLEAN /\ stopFailed' \in BOOLEAN
    BY DEF Starts, RegisterEtwCallback, CreateStopEvent, StopOldSession, StartSession, StartThread,
           ControlTraceStop, IInv, WorkerTypes, kernel, events
  <2>4. /\ stage' \in BeforeSession \cup {"startThread", "up", "shutdown"}
        /\ etwStop' \in {"NULL", "clear", "set"}
    BY DEF Starts, RegisterEtwCallback, CreateStopEvent, StopOldSession, StartSession, StartThread,
           Goes, GiveUp, BeforeSession, IInv, WorkerTypes
  <2> QED BY <1>1, <2>1, <2>2, <2>3, <2>4 DEF IInv, WorkerTypes
<1>5. SessionInv'
  BY <1>1 DEF Starts, RegisterEtwCallback, CreateStopEvent, StopOldSession, StartSession,
     StartThread, Goes, ControlTraceStop, GiveUp, TraceInv, IInv, WorkerTypes, SessionInv,
     BeforeSession, kernel
<1>6. TraceInv'
  BY <1>1, <1>2 DEF Starts, RegisterEtwCallback, CreateStopEvent, StopOldSession, StartSession,
                    StartThread, Goes, GiveUp, IInv, TraceInv, BeforeSession
<1>7. EventTypes' /\ EventsInv'
  <2>1. CASE RegisterEtwCallback
    <3>1. /\ stage = "register" /\ stage' = "createEvent" /\ trace' = trace
          /\ recent = NoEvents /\ first = Len(kinds) + 1
      BY <2>1 DEF RegisterEtwCallback, Goes, IInv, EventsInv
    <3>2. EventTypes'
      BY <1>1 DEF IInv, EventTypes, db
    <3>3. \A k \in Remembered : Latest(recent'[k], Mine(k)')
      <4>1. \A k \in Remembered : Mine(k)' = {} /\ recent'[k] = <<>>
        BY <1>1, <3>1 DEF Mine, NoEvents, IInv, EventTypes
      <4> QED BY <4>1 DEF Latest
    <3>4. Handled' = Handled
      BY <1>1, <3>1 DEF Handled
    <3> QED BY <1>1, <1>2, <3>1, <3>2, <3>3, <3>4 DEF IInv, EventsInv, EventsInOrder, db, InFlight
  <2>2. CASE ~RegisterEtwCallback
    <3>1. registered' = registered /\ stage' \notin {"down", "register"}
      BY <2>2 DEF Starts, CreateStopEvent, StopOldSession, StartSession, StartThread, Goes, GiveUp,
                    events
    <3>2. trace' \in InFlight <=> trace \in InFlight
      BY <1>2 DEF InFlight
    <3> QED BY <1>1, <3>1, <3>2, SameEvents DEF IInv, db
  <2> QED BY <2>1, <2>2
<1> QED BY <1>3, <1>4, <1>5, <1>6, <1>7 DEF IInv

(* The thread's steps that touch no event.                                 *)
LEMMA TraceKeepsIInv ==
  ASSUME IInv, OpenTrace \/ ProcessTrace \/ ProcessTraceReturns \/ BufferCallback PROVE IInv'
<1> USE EtwAssumption, TelemetryDbAssumption
<1>1. UNCHANGED <<db, AwayFromTrace, registered, recent, kinds>> /\ traceHandle' \in BOOLEAN
  BY DEF OpenTrace, ProcessTrace, ProcessTraceReturns, BufferCallback, TraceEnded, IInv, WorkerTypes
<1>2. /\ trace \in {"open", "call", "process"}
      /\ trace' \in {"call", "process", "ended"}
  BY DEF OpenTrace, ProcessTrace, ProcessTraceReturns, BufferCallback, TraceEnded, TraceGoes
<1>3. WorkerTypes' /\ ThreadTypes' /\ SessionInv'
  BY <1>1, <1>2 DEF IInv, WorkerTypes, ThreadTypes, SessionInv, AwayFromTrace, worker, db, InFlight
<1>4. TraceInv'
  BY <1>1, <1>2 DEF IInv, TraceInv, AwayFromTrace, worker
<1>5. EventTypes' /\ EventsInv'
  BY <1>1, <1>2, SameEvents DEF IInv, AwayFromTrace, worker, db, InFlight
<1> QED BY <1>3, <1>4, <1>5 DEF IInv

(* An event comes.                                                         *)
LEMMA RecordKeepsIInv == ASSUME IInv, NEW k \in Kinds, EventRecord(k) PROVE IInv'
<1> USE EtwAssumption, TelemetryDbAssumption
<1> DEFINE n == Len(kinds) + 1
<1>1. /\ trace = "process" /\ trace' = "dispatch" /\ kinds' = Append(kinds, k)
      /\ UNCHANGED <<db, AwayFromTrace, traceHandle, registered>>
      /\ recent' = IF k \in Remembered
                   THEN [recent EXCEPT ![k] = Limited(Append(@, n))] ELSE recent
  BY DEF EventRecord, TraceGoes
<1>2. WorkerTypes' /\ ThreadTypes' /\ SessionInv' /\ TraceInv'
  BY <1>1 DEF IInv, WorkerTypes, ThreadTypes, SessionInv, TraceInv, AwayFromTrace, worker, db,
     InFlight
<1>3. /\ n \in Nat \ {0} /\ kinds' \in Seq(Kinds) /\ Len(kinds') = n /\ kinds'[n] = k
      /\ \A i \in 1 .. Len(kinds) : kinds'[i] = kinds[i]
  BY <1>1, AppendProperties DEF IInv, EventTypes
<1>4. first' = first /\ first \in 1 .. n /\ rows' = rows /\ lossless' = lossless
      /\ registered' = registered /\ stage' = stage
  BY <1>1 DEF AwayFromTrace, worker, db, IInv, EventTypes
<1>5. stage \notin {"down", "register"}
  BY <1>1 DEF IInv, TraceInv, BeforeSession
<1>6. ASSUME NEW r \in Remembered
      PROVE  /\ recent'[r] \in Seq(1 .. n)
             /\ registered => Latest(recent'[r], Mine(r)')
  <2>1. recent[r] \in Seq(1 .. Len(kinds)) /\ recent[r] \in Seq(Nat) /\ recent[r] \in Seq(1 .. n)
    <3>1. recent[r] \in Seq(1 .. Len(kinds))
      BY DEF IInv, EventTypes
    <3>2. Len(kinds) \in Nat
      BY DEF IInv, EventTypes
    <3> QED BY <3>1, <3>2
  <2>2. registered => Latest(recent[r], Mine(r))
    BY DEF IInv, EventsInv, EventsInOrder
  <2>3. CASE r = k
    <3>1. recent'[r] = Limited(Append(recent[r], n))
      BY <1>1, <2>3 DEF IInv, EventTypes
    <3>2. Mine(r)' = Mine(r) \cup {n}
      BY <1>3, <1>4, <2>3 DEF Mine
    <3>3. \A e \in Mine(r) : e \in Nat /\ e < n
      BY <1>3, <1>4 DEF Mine, IInv, EventTypes
    <3>4. Append(recent[r], n) \in Seq(1 .. n) /\ Append(recent[r], n) # <<>>
      BY <1>3, <2>1, AppendProperties
    <3>5. Limited(Append(recent[r], n)) \in Seq(1 .. n)
      BY <3>4, HeadTailProperties DEF Limited
    <3>6. n \in Nat
      BY <1>3
    <3>7. registered => Latest(Limited(Append(recent[r], n)), Mine(r) \cup {n})
      BY <2>1, <2>2, <3>3, <3>6, OneMore
    <3> QED BY <3>1, <3>2, <3>5, <3>7
  <2>4. CASE r # k
    <3>1. recent'[r] = recent[r]
      BY <1>1, <2>4 DEF IInv, EventTypes
    <3>2. Mine(r)' = Mine(r)
      BY <1>3, <1>4, <2>4 DEF Mine, IInv, EventTypes
    <3> QED BY <2>1, <2>2, <3>1, <3>2
  <2> QED BY <2>3, <2>4
<1>7. EventTypes'
  <2>1. recent' \in [Remembered -> Seq(1 .. Len(kinds'))]
    <3>1. DOMAIN recent' = Remembered /\ recent' = [r \in Remembered |-> recent'[r]]
      BY <1>1 DEF IInv, EventTypes
    <3> QED BY <1>3, <1>6, <3>1
  <2> QED BY <1>3, <1>4, <2>1 DEF EventTypes, IInv
<1>8. EventsInv'
  <2>1. Handled' = Handled /\ Len(kinds') > 0
    BY <1>1, <1>3 DEF Handled, InFlight, IInv, EventTypes
  <2>2. EventsInOrder'
    BY <1>4, <1>6, <2>1 DEF IInv, EventsInv, EventsInOrder
  <2> QED BY <1>4, <1>5, <2>1, <2>2 DEF IInv, EventsInv
<1> QED BY <1>2, <1>7, <1>8 DEF IInv

(* The event goes to OnEtwEvent, into the database, or is lost.            *)
LEMMA StoreKeepsIInv == ASSUME IInv, Dispatch \/ StoreEtwEvent \/ EtwEventStored PROVE IInv'
<1> USE EtwAssumption, TelemetryDbAssumption
<1>1. UNCHANGED <<AwayFromTrace, traceHandle, registered, recent, kinds, database>>
  BY DEF Dispatch, StoreEtwEvent, EtwEventStored, BeginStore, SkipStore, EndStore
<1>2. trace \in InFlight /\ trace' \in InFlight \cup {"process"}
  BY DEF Dispatch, StoreEtwEvent, EtwEventStored, TraceGoes, InFlight
<1>3. ThreadTypes' /\ (trace' \in {"callback", "store"} => registered \/ timedOut)
  <2>1. CASE Dispatch
    <3>1. lossless' \in BOOLEAN
      BY <2>1 DEF Dispatch, IInv, ThreadTypes
    <3>2. /\ dbMutex' = dbMutex /\ trace = "dispatch" /\ trace' \in {"callback", "process"}
          /\ trace' = "callback" => registered
      BY <2>1 DEF Dispatch, TraceGoes
    <3> QED BY <1>1, <3>1, <3>2 DEF IInv, ThreadTypes, AwayFromTrace, InFlight
  <2>2. CASE StoreEtwEvent
    <3>1. lossless' \in BOOLEAN
      BY <2>2 DEF StoreEtwEvent, BeginStore, SkipStore, IInv, ThreadTypes
    <3>2. /\ trace = "callback" /\ dbMutex = Nobody
          /\ \/ trace' = "store" /\ dbMutex' = Trace /\ database = "open"
             \/ trace' = "process" /\ dbMutex' = dbMutex
      BY <2>2 DEF StoreEtwEvent, BeginStore, SkipStore, TraceGoes
    <3>3. trace' \in {"callback", "store"} => registered \/ timedOut
      BY <3>2 DEF IInv, TraceInv
    <3> QED BY <1>1, <3>1, <3>2, <3>3 DEF IInv, ThreadTypes, AwayFromTrace, InFlight
  <2>3. CASE EtwEventStored
    <3>1. lossless' \in BOOLEAN
      <4>1. CASE lossless' = lossless
        BY <4>1 DEF IInv, ThreadTypes
      <4>2. CASE lossless' = (lossless /\ <<Len(kinds)>> = <<>>)
        BY <4>2
      <4> QED BY <2>3, <4>1, <4>2 DEF EtwEventStored, EndStore
    <3> QED BY <1>1, <2>3, <3>1 DEF EtwEventStored, EndStore, Returned, TraceGoes, IInv,
               ThreadTypes, TraceInv, AwayFromTrace, InFlight
  <2> QED BY <2>1, <2>2, <2>3
<1>4. WorkerTypes' /\ SessionInv'
  BY <1>1, <1>2 DEF IInv, WorkerTypes, SessionInv, AwayFromTrace, worker, InFlight
<1>5. stage \notin BeforeSession
  BY <1>2 DEF IInv, TraceInv, InFlight
<1>6. TraceInv'
  BY <1>1, <1>2, <1>3 DEF IInv, TraceInv, AwayFromTrace, worker, InFlight
<1>7. EventTypes' /\ EventsInv'
  <2>1. /\ rows \in Seq(Nat) /\ Len(kinds) \in Nat \ {0} /\ Handled = Len(kinds) - 1
        /\ \A j \in DOMAIN rows : rows[j] \in 1 .. Len(kinds) - 1
        /\ \A a, b \in DOMAIN rows : a < b => rows[a] < rows[b]
    BY <1>2 DEF IInv, EventTypes, EventsInv, EventsInOrder, Handled
  <2>2. /\ \A r \in Remembered : Mine(r)' = Mine(r)
        /\ registered' => \A r \in Remembered : Latest(recent'[r], Mine(r))
    BY <1>1 DEF IInv, EventsInv, EventsInOrder, Mine, AwayFromTrace
  <2>3. CASE rows' = rows /\ (lossless' => lossless /\ trace' \in InFlight)
    <3>1. EventTypes'
      BY <1>1, <2>3 DEF IInv, EventTypes, AwayFromTrace
    <3>2. Handled' = (IF trace' \in InFlight THEN Handled ELSE Handled + 1)
      BY <1>1, <2>1 DEF Handled
    <3>3. \A j \in DOMAIN rows' : rows'[j] \in 1 .. Handled'
      BY <2>1, <2>3, <3>2
    <3>4. lossless' => rows' = [j \in 1 .. Handled' |-> j]
      BY <2>3, <3>2 DEF IInv, EventsInv, EventsInOrder
    <3>5. EventsInOrder'
      BY <2>1, <2>2, <2>3, <3>4 DEF EventsInOrder
    <3> QED BY <1>1, <1>5, <2>1, <3>1, <3>3, <3>5 DEF IInv, EventsInv, AwayFromTrace, worker,
               BeforeSession
  <2>4. CASE rows' = rows \o <<Len(kinds)>> /\ lossless' = lossless /\ trace' = "process"
    <3>1. /\ rows' \in Seq(Nat) /\ Len(rows') = Len(rows) + 1 /\ rows'[Len(rows) + 1] = Len(kinds)
          /\ \A j \in 1 .. Len(rows) : rows'[j] = rows[j]
      BY <2>1, <2>4
    <3>2. Handled' = Len(kinds)
      BY <1>1, <2>4 DEF Handled, InFlight
    <3>3. EventTypes'
      BY <1>1, <3>1 DEF IInv, EventTypes, AwayFromTrace
    <3>4. ASSUME NEW j \in DOMAIN rows' PROVE rows'[j] \in 1 .. Handled'
      <4>1. CASE j \in 1 .. Len(rows)
        <5>1. rows'[j] = rows[j] /\ rows[j] \in 1 .. Len(kinds) - 1
          BY <2>1, <3>1, <4>1
        <5> QED BY <2>1, <3>2, <5>1
      <4>2. CASE j = Len(rows) + 1
        BY <2>1, <3>1, <3>2, <4>2
      <4> QED BY <2>1, <3>1, <4>1, <4>2
    <3>5. ASSUME NEW a \in DOMAIN rows', NEW b \in DOMAIN rows', a < b
          PROVE  rows'[a] < rows'[b]
      <4>1. a \in 1 .. Len(rows) /\ (b \in 1 .. Len(rows) \/ b = Len(rows) + 1)
        <5>1. Len(rows) \in Nat /\ a \in 1 .. Len(rows) + 1 /\ b \in 1 .. Len(rows) + 1
          BY <2>1, <3>1
        <5> QED BY <3>5, <5>1
      <4>2. rows'[a] = rows[a] /\ rows[a] \in 1 .. Len(kinds) - 1
        BY <2>1, <3>1, <4>1
      <4>3. CASE b \in 1 .. Len(rows)
        <5>1. a \in DOMAIN rows /\ b \in DOMAIN rows
          BY <2>1, <4>1, <4>3
        <5>2. rows[a] < rows[b]
          BY <2>1, <3>5, <5>1
        <5>3. rows'[b] = rows[b]
          BY <3>1, <4>3
        <5> QED BY <4>2, <5>2, <5>3
      <4>4. CASE b = Len(rows) + 1
        BY <2>1, <3>1, <4>2, <4>4
      <4> QED BY <4>1, <4>3, <4>4
    <3>6. lossless' => rows' = [j \in 1 .. Handled' |-> j]
      <4> SUFFICES ASSUME lossless PROVE rows' = [j \in 1 .. Len(kinds) |-> j]
        BY <2>4, <3>2
      <4>1. rows = [j \in 1 .. Len(kinds) - 1 |-> j]
        BY <2>1 DEF IInv, EventsInv, EventsInOrder
      <4>2. Len(rows) = Len(kinds) - 1 /\ \A j \in 1 .. Len(kinds) - 1 : rows[j] = j
        <5>1. DOMAIN rows = 1 .. Len(kinds) - 1
          BY <4>1
        <5> QED BY <2>1, <4>1, <5>1, LenProperties
      <4>3. DOMAIN rows' = 1 .. Len(kinds) /\ Len(rows) + 1 = Len(kinds)
        BY <2>1, <3>1, <4>2
      <4>4. ASSUME NEW j \in 1 .. Len(kinds) PROVE rows'[j] = j
        <5>1. j \in 1 .. Len(kinds) - 1 \/ j = Len(kinds)
          BY <2>1
        <5> QED BY <2>1, <3>1, <4>2, <4>3, <5>1
      <4>5. rows' = [j \in DOMAIN rows' |-> rows'[j]]
        BY <3>1
      <4> QED BY <4>3, <4>4, <4>5
    <3>7. EventsInOrder'
      BY <2>2, <3>5, <3>6 DEF EventsInOrder
    <3> QED BY <1>1, <1>5, <2>1, <3>3, <3>4, <3>7 DEF IInv, EventsInv, AwayFromTrace, worker,
               BeforeSession
  <2>5. \/ rows' = rows /\ (lossless' => lossless /\ trace' \in InFlight)
        \/ rows' = rows \o <<Len(kinds)>> /\ lossless' = lossless /\ trace' = "process"
    <3>1. CASE Dispatch
      BY <3>1 DEF Dispatch, TraceGoes, InFlight
    <3>2. CASE StoreEtwEvent
      BY <3>2 DEF StoreEtwEvent, BeginStore, SkipStore, TraceGoes, InFlight
    <3>3. CASE EtwEventStored
      <4>1. <<Len(kinds)>> # <<>>
        OBVIOUS
      <4> QED BY <3>3, <4>1 DEF EtwEventStored, EndStore, TraceGoes, InFlight
    <3> QED BY <3>1, <3>2, <3>3
  <2> QED BY <2>3, <2>4, <2>5
<1> QED BY <1>3, <1>4, <1>6, <1>7 DEF IInv

(* The detector's thread stores what is no event of the trace.             *)
LEMMA DetectorKeepsIInv == ASSUME IInv, StoreBehaviorDetection \/ DetectionStored PROVE IInv'
<1> USE EtwAssumption, TelemetryDbAssumption
<1>1. UNCHANGED <<AwayFromDetector, database>>
  BY DEF StoreBehaviorDetection, DetectionStored, BeginStore, EndStore
<1>2. rows' = rows /\ (lossless' <=> lossless) /\ lossless' \in BOOLEAN
  <2>1. CASE StoreBehaviorDetection
    BY <2>1 DEF StoreBehaviorDetection, BeginStore, IInv, ThreadTypes
  <2>2. CASE DetectionStored
    <3>1. rows \o <<>> = rows
      BY DEF IInv, EventTypes
    <3>2. lossless' = lossless \/ lossless' = (lossless /\ <<>> = <<>>)
      BY <2>2 DEF DetectionStored, EndStore
    <3> QED BY <2>2, <3>1, <3>2 DEF DetectionStored, EndStore, IInv, ThreadTypes
  <2> QED BY <2>1, <2>2
<1>3. ThreadTypes'
  BY <1>1, <1>2 DEF StoreBehaviorDetection, DetectionStored, BeginStore, EndStore, Returned, IInv,
                    ThreadTypes, AwayFromDetector
<1>4. WorkerTypes' /\ SessionInv' /\ TraceInv'
  BY <1>1 DEF IInv, WorkerTypes, SessionInv, TraceInv, AwayFromDetector, worker, kernel, events
<1>5. EventTypes' /\ EventsInv'
  <2>1. lossless' = lossless
    BY <1>2 DEF IInv, ThreadTypes
  <2> QED BY <1>1, <1>2, <2>1, SameEvents DEF IInv, AwayFromDetector, worker, events
<1> QED BY <1>3, <1>4, <1>5 DEF IInv

(* The shutdown, from its first step to its last.                          *)
LEMMA ShutdownKeepsIInv == ASSUME IInv, BeginShutdown \/ ShutsDown PROVE IInv'
<1> USE EtwAssumption, TelemetryDbAssumption
<1>1. CASE BeginShutdown
  <2>1. /\ stage = "up" /\ stage' = "shutdown" /\ left' = ShutdownSteps
        /\ UNCHANGED <<db, run, kernel, etwStop, trace, events, timedOut, detector>>
    BY <1>1 DEF BeginShutdown, Goes
  <2>2. Len(left') = 7 /\ LeftOf(left', ShutdownSteps)
    BY <2>1, ShutdownPlaces, AllLeft
  <2>3. WorkerTypes' /\ ThreadTypes' /\ SessionInv' /\ TraceInv'
    BY <2>1, <2>2 DEF IInv, WorkerTypes, ThreadTypes, SessionInv, TraceInv, db, kernel, events,
       BeforeSession
  <2>4. EventTypes' /\ EventsInv'
    BY <2>1, SameEvents DEF IInv, db, events
  <2> QED BY <2>3, <2>4 DEF IInv
<1>2. ASSUME ShutsDown PROVE IInv'
  <2> DEFINE n == Len(left)
  <2>1. /\ left # <<>> /\ left' = Tail(left) /\ UNCHANGED <<stage, run, dbMutex, rows, lossless,
                                                          trace, kinds, first, detector>>
    BY <1>2 DEF ShutsDown, SignalStop, CloseTrace, StopSession, Join, CloseStopEvent,
       ClearCallbacks, ShutdownTelemetryDb, Step, CloseDb, db, events
  <2>2. LeftOf(left, ShutdownSteps)
    BY DEF IInv, WorkerTypes
  <2>3. /\ n \in 1 .. 7 /\ Head(left) = ShutdownSteps[1 + 7 - n] /\ Len(left') = n - 1
        /\ LeftOf(left', ShutdownSteps)
    BY <2>1, <2>2, LessLeft, ShutdownPlaces
  <2>4. /\ StopSession <=> n = 5
        /\ Join <=> n = 4
        /\ ClearCallbacks <=> n = 2
    BY <1>2, <2>3, NextStep DEF ShutsDown, SignalStop, CloseTrace, StopSession, Join,
       CloseStopEvent, ClearCallbacks, ShutdownTelemetryDb, Step
  <2>5. stage = "shutdown"
    BY <2>1 DEF IInv, WorkerTypes
  <2>6. WorkerTypes'
    <3>1. session' \in 0 .. run /\ etwStop' \in {"NULL", "clear", "set"}
      BY <1>2 DEF ShutsDown, SignalStop, CloseTrace, StopSession, Join, CloseStopEvent,
         ClearCallbacks, ShutdownTelemetryDb, Ended, ControlTraceStop, kernel, events, IInv, WorkerTypes
    <3>2. /\ ownsSession' \in BOOLEAN /\ traceHandle' \in BOOLEAN /\ registered' \in BOOLEAN
          /\ stopFailed' \in BOOLEAN
      BY <1>2 DEF ShutsDown, SignalStop, CloseTrace, StopSession, Join, CloseStopEvent,
         ClearCallbacks, ShutdownTelemetryDb, Ended, ControlTraceStop, kernel, events, IInv, WorkerTypes
    <3>3. timedOut' \in BOOLEAN
      <4>1. CASE Join
        BY <4>1 DEF Join
      <4>2. CASE ~Join
        BY <1>2, <4>2 DEF ShutsDown, SignalStop, CloseTrace, StopSession, CloseStopEvent,
           ClearCallbacks, ShutdownTelemetryDb, IInv, WorkerTypes
      <4> QED BY <4>1, <4>2
    <3> QED BY <2>1, <2>3, <2>5, <3>1, <3>2, <3>3 DEF IInv, WorkerTypes
  <2>7. ThreadTypes'
    <3>1. CASE ShutdownTelemetryDb
      BY <2>1, <3>1 DEF ShutdownTelemetryDb, CloseDb, NobodyStores, IInv, ThreadTypes
    <3>2. CASE ~ShutdownTelemetryDb
      BY <1>2, <2>1, <3>2 DEF ShutsDown, SignalStop, CloseTrace, StopSession, Join, CloseStopEvent,
                              ClearCallbacks, db, IInv, ThreadTypes
    <3> QED BY <3>1, <3>2
  <2>8. SessionInv'
    <3>1. CASE StopSession
      <4>1. /\ ownsSession' = FALSE /\ etwStop' = etwStop
            /\ \/ session' = 0 /\ stopFailed' = stopFailed
               \/ session' = session /\ stopFailed' = TRUE
               \/ ~ownsSession /\ session' = session /\ stopFailed' = stopFailed
        BY <3>1 DEF StopSession, Ended, ControlTraceStop
      <4> QED BY <2>1, <2>3, <2>5, <4>1 DEF IInv, WorkerTypes, SessionInv, BeforeSession
    <3>2. CASE ~StopSession
      <4>1. /\ UNCHANGED <<session, ownsSession, stopFailed>> /\ n # 5
            /\ etwStop' # "NULL" => etwStop # "NULL"
        <5>1. UNCHANGED <<session, ownsSession, stopFailed>> /\ (etwStop' # "NULL" => etwStop # "NULL")
          BY <1>2, <3>2 DEF ShutsDown, SignalStop, CloseTrace, Join, CloseStopEvent, ClearCallbacks,
                            ShutdownTelemetryDb, kernel
        <5>2. n # 5
          BY <1>2, <2>4, <3>2 DEF ShutsDown
        <5> QED BY <5>1, <5>2
      <4>2. Len(left') < 5 => n < 5
        BY <2>3, <4>1
      <4> QED BY <2>1, <2>5, <4>1, <4>2 DEF IInv, SessionInv, BeforeSession
    <3> QED BY <3>1, <3>2
  <2>9. TraceInv'
    <3>1. CASE Join
      <4>1. (timedOut' <=> trace \notin {"none", "ended"}) /\ registered' = registered
        BY <3>1 DEF Join, events
      <4> QED BY <2>1, <2>5, <4>1 DEF TraceInv, BeforeSession
    <3>2. CASE ~Join
      <4>1. timedOut' = timedOut /\ (registered' = registered \/ n = 2) /\ n # 4
        <5>1. timedOut' = timedOut
          BY <1>2, <3>2 DEF ShutsDown, SignalStop, CloseTrace, StopSession, CloseStopEvent,
             ClearCallbacks, ShutdownTelemetryDb
        <5>2. registered' = registered \/ n = 2
          <6>1. CASE ClearCallbacks
            BY <2>4, <6>1
          <6>2. CASE ~ClearCallbacks
            BY <1>2, <3>2, <6>2 DEF ShutsDown, SignalStop, CloseTrace, StopSession, CloseStopEvent,
                                    ShutdownTelemetryDb, events
          <6> QED BY <6>1, <6>2
        <5>3. n # 4
          BY <1>2, <2>4, <3>2 DEF ShutsDown
        <5> QED BY <5>1, <5>2, <5>3
      <4>2. Len(left') <= 3 => n <= 3
        BY <2>3, <4>1
      <4>3. n = 2 => n <= 3
        OBVIOUS
      <4>4. trace \in {"callback", "store"} => registered' \/ timedOut
        <5>1. CASE n = 2
          BY <2>5, <4>3, <5>1 DEF IInv, TraceInv
        <5>2. CASE n # 2
          BY <4>1, <5>2 DEF IInv, TraceInv
        <5> QED BY <5>1, <5>2
      <4> QED BY <2>1, <2>5, <4>1, <4>2, <4>4 DEF IInv, TraceInv, BeforeSession
    <3> QED BY <3>1, <3>2
  <2>10. EventTypes' /\ EventsInv'
    <3>1. CASE ClearCallbacks
      <4>1. registered' = FALSE /\ recent' = NoEvents
        BY <3>1 DEF ClearCallbacks
      <4>2. EventTypes'
        BY <2>1, <4>1 DEF IInv, EventTypes, NoEvents
      <4>3. Handled' = Handled
        BY <2>1 DEF Handled
      <4> QED BY <2>1, <2>5, <4>1, <4>2, <4>3 DEF IInv, EventsInv, EventsInOrder
    <3>2. CASE ~ClearCallbacks
      <4>1. UNCHANGED <<registered, recent>>
        BY <1>2, <3>2 DEF ShutsDown, SignalStop, CloseTrace, StopSession, Join, CloseStopEvent,
                          ShutdownTelemetryDb, events
      <4> QED BY <2>1, <4>1, SameEvents DEF IInv
    <3> QED BY <3>1, <3>2
  <2> QED BY <2>6, <2>7, <2>8, <2>9, <2>10 DEF IInv
<1> QED BY <1>1, <1>2

(* The process ends, with whatever its threads were at.                    *)
LEMMA DeathKeepsIInv == ASSUME IInv, ProcessEnds PROVE IInv'
<1> USE EtwAssumption, TelemetryDbAssumption
<1>1. /\ stage' = "down" /\ left' = <<>> /\ database' = "closed" /\ dbMutex' = Nobody
      /\ ~ownsSession' /\ ~traceHandle' /\ etwStop' = "NULL" /\ trace' = "none" /\ ~detector'
      /\ ~stopFailed' /\ ~timedOut' /\ ~registered' /\ recent' = NoEvents
      /\ UNCHANGED <<rows, run, session, kinds, first>>
  BY DEF ProcessEnds, DbDies
<1>2. (lossless' => lossless /\ trace \notin InFlight) /\ lossless' \in BOOLEAN
  <2>1. lossless' = (lossless /\ trace \notin InFlight)
    BY DEF ProcessEnds
  <2> QED BY <2>1
<1>3. LeftOf(left', ShutdownSteps)
  BY <1>1, AllLeft, ShutdownPlaces
<1>4. ownsSession' \in BOOLEAN /\ traceHandle' \in BOOLEAN /\ registered' \in BOOLEAN
      /\ timedOut' \in BOOLEAN /\ detector' \in BOOLEAN /\ stopFailed' \in BOOLEAN
  BY DEF ProcessEnds
<1>5. WorkerTypes' /\ ThreadTypes'
  BY <1>1, <1>2, <1>3, <1>4 DEF IInv, WorkerTypes, ThreadTypes, BeforeSession, InFlight
<1>6. SessionInv' /\ TraceInv'
  BY <1>1 DEF SessionInv, TraceInv
<1>7. EventTypes'
  BY <1>1 DEF IInv, EventTypes, NoEvents
<1>8. EventsInv'
  <2>1. Len(kinds) \in Nat /\ Handled' = Len(kinds) /\ Handled \in {Len(kinds), Len(kinds) - 1}
        /\ (trace \notin InFlight => Handled' = Handled)
    BY <1>1 DEF Handled, InFlight, IInv, EventTypes
  <2>2. \A i \in DOMAIN rows : rows[i] \in 1 .. Len(kinds)
    BY <2>1 DEF IInv, EventsInv
  <2>3. lossless' => rows' = [i \in 1 .. Handled' |-> i]
    BY <1>1, <1>2, <2>1 DEF IInv, EventsInv, EventsInOrder
  <2>4. EventsInOrder'
    BY <1>1, <2>3 DEF IInv, EventsInv, EventsInOrder
  <2> QED BY <1>1, <2>1, <2>2, <2>4 DEF EventsInv, InFlight
<1> QED BY <1>5, <1>6, <1>7, <1>8 DEF IInv

LEMMA NextKeepsIInv == IInv /\ [Next]_vars => IInv'
<1>1. ASSUME IInv, UNCHANGED vars PROVE IInv'
  BY <1>1 DEF IInv, WorkerTypes, ThreadTypes, EventTypes, SessionInv, TraceInv, EventsInv,
     EventsInOrder, Handled, Mine, vars, db, worker, kernel, events
<1> QED BY <1>1, StartKeepsIInv, StartsKeepsIInv, TraceKeepsIInv, RecordKeepsIInv, StoreKeepsIInv,
           DetectorKeepsIInv, ShutdownKeepsIInv, DeathKeepsIInv DEF Next, Traces

(* Session, trace, callbacks, database and events stay consistent over any *)
(* number of starts, shutdowns and deaths of the agent.                    *)
THEOREM Inductive == Spec => []IInv
  BY InitIInv, NextKeepsIInv, PTL DEF Spec

-----------------------------------------------------------------------------
(* Every variable has its type, what the shutdown has still to do is an    *)
(* end of its list, and the database's mutex is held by the thread that    *)
(* stores, by no other.                                                    *)
THEOREM TypeCorrect == Spec => []TypeOK
<1>1. ASSUME IInv PROVE TypeOK
  <2>1. LeftOf(left, ShutdownSteps)
    BY <1>1 DEF IInv, WorkerTypes
  <2>2. IsSuffix(left, ShutdownSteps)
    BY <2>1, SuffixMeans, ShutdownPlaces DEF LeftOf
  <2> QED BY <1>1, <2>2 DEF IInv, WorkerTypes, ThreadTypes, EventTypes, TypeOK, DbTypeOK,
             BeforeSession
<1> QED BY <1>1, Inductive, PTL

(* InitializeEtwConsumer has, and EtwProcessThread traces, no session but  *)
(* this run's own, however often the agent died before and whichever stop  *)
(* of a session failed; an older one stays, and one is left once           *)
(* ShutdownEtwConsumer is past the step that stops it, only if             *)
(* ControlTraceW has failed in this run.                                   *)
THEOREM OwnSession == Spec => []SessionIsOwn
<1>1. ASSUME IInv PROVE SessionIsOwn
  <2>1. ownsSession => session = run
    BY <1>1 DEF IInv, SessionInv, BeforeSession
  <2>2. /\ trace # "none" => session \in {0, run}
        /\ etwStop # "NULL" /\ stage # "stopOld" /\ session \notin {0, run} => stopFailed
    BY <1>1 DEF IInv, SessionInv
  <2>3. ASSUME stage = "shutdown", ~Contains(left, "stopSession"), session = run
        PROVE  stopFailed
    <3>1. LeftOf(left, ShutdownSteps)
      BY <1>1 DEF IInv, WorkerTypes
    <3>2. CASE Len(left) >= 5
      <4>1. Len(left) - 4 \in 1 .. Len(left) /\ Len(left) - 4 + 7 - Len(left) = 3
        BY <3>1, <3>2 DEF LeftOf
      <4>2. left[Len(left) - 4] = "stopSession"
        BY <3>1, <4>1, ShutdownPlaces DEF LeftOf
      <4> QED BY <2>3, <4>1, <4>2 DEF Contains
    <3>3. CASE ~(Len(left) >= 5)
      <4>1. Len(left) < 5
        BY <3>1, <3>3 DEF LeftOf
      <4> QED BY <1>1, <2>3, <4>1 DEF IInv, SessionInv
    <3> QED BY <3>2, <3>3
  <2> QED BY <2>1, <2>2, <2>3 DEF SessionIsOwn
<1> QED BY <1>1, Inductive, PTL

(* The table EtwEvents has the events in their order, all of them if no    *)
(* store failed or was cut short, and each deque has the latest of its     *)
(* kind.                                                                   *)
THEOREM OrderedEvents == Spec => []EventsInOrder
<1>1. ASSUME IInv PROVE EventsInOrder
  BY <1>1 DEF IInv, EventsInv
<1> QED BY <1>1, Inductive, PTL

(* CloseTelemetryDb does not take the statements away from a thread that   *)
(* executes them, nor ShutdownEtwConsumer the callbacks from the trace's   *)
(* thread, unless the wait for that thread has timed out.                  *)
THEOREM NothingPulledAway == Spec => []NothingIsPulledAway
<1>1. ASSUME IInv PROVE NothingIsPulledAway
  BY <1>1 DEF IInv, TraceInv, ThreadTypes, NothingIsPulledAway
<1> QED BY <1>1, Inductive, PTL

=============================================================================

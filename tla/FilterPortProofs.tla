-------------------------- MODULE FilterPortProofs ---------------------------
(***************************************************************************)
(* Proofs about FilterPort for every finite set of threads, of which any   *)
(* may be the agent's, and any number of connections.                      *)
(***************************************************************************)
EXTENDS FilterPort, FiniteSetTheorems, TLAPS

(* Before the unload the port and the process id follow the connection.    *)
PortInv ==
  unload = "no" => /\ port <=> conn \in {"storing", "open"}
                   /\ agentPid <=> conn \in {"open", "closing"}

(* An operation of the agent that overlaps no connect and no unload can    *)
(* pass ShouldExcludePath only while the agent is away, and finds no port  *)
(* as long as it lasts.                                                    *)
OwnInv ==
  \A t \in AgentThreads \ disturbed :
    pc[t] # "idle" => /\ ~Unsettled
                      /\ pc[t] \in {"completing", "built"} => ~port
                      /\ pc[t] # "sending"

IInv == TypeOK /\ NamesAreReleased /\ PortInv /\ OwnInv /\ OwnIoIsSkipped

(* The two halves of TypeOK.                                               *)
Points == {"idle", "named", "completing", "built", "sending", "sent"}

LinkTypes ==
  /\ port \in BOOLEAN /\ agentPid \in BOOLEAN /\ server \in BOOLEAN
  /\ conn \in {"none", "storing", "open", "closing"}
  /\ connections \in 0 .. MaxConnections
  /\ unload \in {"no", "clientClosed", "agentForgotten", "unregistering", "unloaded"}

-----------------------------------------------------------------------------
USE PortAssumption DEF PortAssumption

LEMMA BusyIsSubset == Busy \subseteq Threads
  BY DEF Busy

LEMMA BusyIsFinite == IsFiniteSet(Busy) /\ Cardinality(Busy) \in Nat
  BY FS_Subset, FS_CardinalityType DEF Busy

(* A thread that enters its callbacks is one busy thread more, one that    *)
(* leaves them one less.                                                   *)
LEMMA BusyMore ==
  ASSUME NEW t \in Threads, TypeOK, pc[t] = "idle", NEW s, s # "idle",
         pc' = [pc EXCEPT ![t] = s]
  PROVE  Cardinality(Busy') = Cardinality(Busy) + 1
<1>1. Busy' = Busy \cup {t} /\ t \notin Busy
  BY DEF Busy, TypeOK, Points
<1> QED BY <1>1, BusyIsFinite, FS_AddElement

LEMMA BusyLess ==
  ASSUME NEW t \in Threads, TypeOK, pc[t] # "idle", pc' = [pc EXCEPT ![t] = "idle"]
  PROVE  Cardinality(Busy') = Cardinality(Busy) - 1 /\ Cardinality(Busy) - 1 \in Nat
<1>1. Busy' = Busy \ {t} /\ t \in Busy
  BY DEF Busy, TypeOK, Points
<1>2. Cardinality(Busy') = Cardinality(Busy) - 1
  BY <1>1, BusyIsFinite, FS_RemoveElement
<1>3. IsFiniteSet(Busy')
  BY <1>1, BusyIsFinite, FS_Subset
<1> QED BY <1>2, <1>3, FS_CardinalityType

LEMMA BusySame ==
  ASSUME TypeOK, pc' \in [Threads -> Points],
         \A t \in Threads : pc[t] = "idle" <=> pc'[t] = "idle"
  PROVE  Busy' = Busy
  BY DEF Busy, TypeOK, Points

(* A filter that is loaded has no operation in it.                         *)
LEMMA InitIInv == Init => IInv
<1> SUFFICES ASSUME Init PROVE IInv
  OBVIOUS
<1>1. Busy = {}
  BY DEF Init, Busy
<1>2. NamesAreReleased
  BY <1>1, FS_EmptySet DEF Init, NamesAreReleased
<1>3. /\ pc \in [Threads -> Points] /\ op \in [Threads -> Operations] /\ names \in Nat
      /\ disturbed \subseteq Threads
      /\ received \subseteq [own : BOOLEAN, disturbed : BOOLEAN]
  BY DEF Init, Operations, Points
<1>4. LinkTypes
  <2>1. 0 \in 0 .. MaxConnections
    OBVIOUS
  <2> QED BY <2>1 DEF Init, LinkTypes
<1>5. TypeOK
  BY <1>3, <1>4 DEF TypeOK, LinkTypes, Points
<1> QED BY <1>2, <1>5 DEF Init, IInv, PortInv, OwnInv, OwnIoIsSkipped

(* The steps of an operation keep it.                                      *)
LEMMA BeginKeepsIInv == ASSUME IInv, NEW t \in Threads, Begin(t) PROVE IInv'
<1> USE DEF IInv
<1>1. /\ pc[t] = "idle" /\ pc' = [pc EXCEPT ![t] = "named"] /\ names' = names + 1
      /\ UNCHANGED <<received, link>> /\ port
      /\ op' \in [Threads -> Operations]
      /\ disturbed' = IF Unsettled THEN disturbed \cup {t} ELSE disturbed \ {t}
  BY DEF Begin, Goes, TypeOK
<1>2. NamesAreReleased'
  BY <1>1, BusyMore DEF NamesAreReleased
<1>3. TypeOK'
  <2>1. pc' \in [Threads -> Points] /\ names' \in Nat
    BY <1>1 DEF TypeOK, Points
  <2>2. disturbed' \subseteq Threads
    BY <1>1 DEF TypeOK
  <2> QED BY <1>1, <2>1, <2>2 DEF TypeOK, Points, link
<1>4. PortInv' /\ OwnIoIsSkipped'
  BY <1>1 DEF PortInv, OwnIoIsSkipped, link
<1>5. OwnInv'
  BY <1>1 DEF OwnInv, TypeOK, link, Unsettled
<1> QED BY <1>2, <1>3, <1>4, <1>5

LEMMA CallbackKeepsIInv ==
  ASSUME IInv, NEW t \in Threads, Callback(t) \/ GetMessage(t)
  PROVE  IInv'
<1> USE DEF IInv
<1>0. PortInv'
  BY DEF PortInv, link, Callback, Exclude, Forward, Build, Ignore, Complete, Drain, Send,
         SendTimesOut, Finish, GetMessage
<1>1. CASE Exclude(t) \/ Ignore(t) \/ Drain(t) \/ Finish(t)
  <2>1. /\ pc[t] # "idle" /\ pc' = [pc EXCEPT ![t] = "idle"] /\ names' = names - 1
        /\ UNCHANGED <<op, received, link, disturbed>>
    BY <1>1 DEF Exclude, Ignore, Drain, Finish, Goes, Released
  <2>2. Cardinality(Busy') = Cardinality(Busy) - 1 /\ Cardinality(Busy) - 1 \in Nat
    BY <2>1, BusyLess
  <2>3. NamesAreReleased' /\ names' \in Nat
    BY <2>1, <2>2 DEF NamesAreReleased
  <2>4. TypeOK'
    BY <2>1, <2>3 DEF TypeOK, link, Points
  <2>5. OwnInv' /\ OwnIoIsSkipped'
    BY <2>1 DEF OwnInv, OwnIoIsSkipped, TypeOK, link, Unsettled
  <2> QED BY <1>0, <2>3, <2>4, <2>5
<1>2. CASE Forward(t) \/ Build(t) \/ Complete(t) \/ Send(t) \/ SendTimesOut(t)
  <2>1. /\ pc' \in [Threads -> Points]
        /\ \A u \in Threads : pc[u] = "idle" <=> pc'[u] = "idle"
        /\ names' = names
        /\ UNCHANGED <<op, received, link, disturbed>>
    <3>1. \E s \in Points \ {"idle"} : pc[t] # "idle" /\ pc' = [pc EXCEPT ![t] = s]
      BY <1>2 DEF Forward, Build, Complete, Send, SendTimesOut, Goes, Points
    <3>2. names' = names
      <4>1. CASE Forward(t)
        BY <4>1 DEF Forward, Referenced, TypeOK
      <4> QED BY <1>2, <4>1 DEF Build, Complete, Send, SendTimesOut
    <3>3. UNCHANGED <<op, received, link, disturbed>>
      BY <1>2 DEF Forward, Build, Complete, Send, SendTimesOut
    <3> QED BY <3>1, <3>2, <3>3 DEF TypeOK, Points
  <2>2. NamesAreReleased'
    BY <2>1, BusySame DEF NamesAreReleased
  <2>3. TypeOK'
    BY <2>1 DEF TypeOK, link, Points
  <2>4. OwnInv'
    BY <1>2, <2>1 DEF OwnInv, PortInv, TypeOK, link, Unsettled, Forward, Build, Complete,
                      Send, SendTimesOut, Goes, ShouldExclude
  <2>5. OwnIoIsSkipped'
    BY <2>1 DEF OwnIoIsSkipped
  <2> QED BY <1>0, <2>2, <2>3, <2>4, <2>5
<1>3. CASE GetMessage(t)
  <2>1. /\ pc[t] = "sending" /\ pc' = [pc EXCEPT ![t] = "sent"]
        /\ UNCHANGED <<op, names, link, disturbed>>
        /\ received' = received
             \cup {[own |-> t \in AgentThreads, disturbed |-> t \in disturbed]}
    BY <1>3 DEF GetMessage, Goes
  <2>2. /\ pc' \in [Threads -> Points]
        /\ \A u \in Threads : pc[u] = "idle" <=> pc'[u] = "idle"
    BY <2>1 DEF TypeOK, Points
  <2>3. NamesAreReleased'
    BY <2>1, <2>2, BusySame DEF NamesAreReleased
  <2>4. TypeOK'
    <3>1. [own |-> t \in AgentThreads, disturbed |-> t \in disturbed]
             \in [own : BOOLEAN, disturbed : BOOLEAN]
      OBVIOUS
    <3>2. received' \subseteq [own : BOOLEAN, disturbed : BOOLEAN]
      BY <2>1, <3>1 DEF TypeOK
    <3> QED BY <2>1, <2>2, <3>2 DEF TypeOK, link, Points
  <2>5. OwnInv'
    BY <2>1 DEF OwnInv, TypeOK, link, Unsettled
  <2>6. ~(t \in AgentThreads /\ t \notin disturbed)
    BY <2>1 DEF OwnInv
  <2>7. OwnIoIsSkipped'
    BY <2>1, <2>6 DEF OwnIoIsSkipped
  <2> QED BY <1>0, <2>3, <2>4, <2>5, <2>7
<1> QED BY <1>1, <1>2, <1>3 DEF Callback

(* So do the agent's coming and going, and the unload.                     *)
LEMMA ClosePortKeepsBusy ==
  ASSUME TypeOK, ClosePort
  PROVE  /\ pc' \in [Threads -> Points]
         /\ \A t \in Threads : /\ pc[t] = "idle" <=> pc'[t] = "idle"
                               /\ pc'[t] \in {"completing", "built"} => pc'[t] = pc[t]
                               /\ pc'[t] # "sending"
         /\ Busy' = Busy
<1>1. /\ pc' \in [Threads -> Points]
      /\ \A t \in Threads : /\ pc[t] = "idle" <=> pc'[t] = "idle"
                            /\ pc'[t] \in {"completing", "built"} => pc'[t] = pc[t]
                            /\ pc'[t] # "sending"
  BY DEF ClosePort, TypeOK, Points
<1> QED BY <1>1, BusySame

LEMMA AgentKeepsIInv == ASSUME IInv, Agent PROVE IInv'
<1> USE DEF IInv
<1>1. CASE Connect
  <2>1. TypeOK'
    <3>1. disturbed' \subseteq Threads
      BY <1>1, BusyIsSubset DEF Connect, TypeOK
    <3>2. connections' \in 0 .. MaxConnections
      BY <1>1 DEF Connect, TypeOK
    <3> QED BY <1>1, <3>1, <3>2 DEF Connect, TypeOK, io
  <2>2. OwnInv'
    BY <1>1 DEF Connect, OwnInv, TypeOK, io, Busy
  <2> QED BY <1>1, <2>1, <2>2 DEF Connect, NamesAreReleased, PortInv, OwnIoIsSkipped, io, Busy
<1>2. CASE Connected
  BY <1>2 DEF Connected, TypeOK, NamesAreReleased, PortInv, OwnInv, OwnIoIsSkipped, io, Busy,
              Unsettled
<1>3. CASE Disconnect
  <2>1. /\ ClosePort /\ port' = FALSE /\ conn = "open" /\ conn' = "closing"
        /\ UNCHANGED <<op, names, received, agentPid, server, connections, unload, disturbed>>
    BY <1>3 DEF Disconnect, ClosePort
  <2>2. TypeOK' /\ NamesAreReleased'
    BY <2>1, ClosePortKeepsBusy DEF TypeOK, Points, NamesAreReleased
  <2>3. OwnInv'
    BY <2>1, ClosePortKeepsBusy DEF OwnInv, Unsettled
  <2> QED BY <2>1, <2>2, <2>3 DEF PortInv, OwnIoIsSkipped
<1>4. CASE Disconnected
  BY <1>4 DEF Disconnected, TypeOK, NamesAreReleased, PortInv, OwnInv, OwnIoIsSkipped, io,
              Busy, Unsettled
<1> QED BY <1>1, <1>2, <1>3, <1>4 DEF Agent

LEMMA UnloadKeepsIInv == ASSUME IInv, Unload PROVE IInv'
<1> USE DEF IInv
<1>1. CASE CloseClient
  <2>1. /\ ClosePort /\ port' = FALSE /\ unload' = "clientClosed"
        /\ disturbed' = disturbed \cup Busy
        /\ UNCHANGED <<op, names, received, agentPid, server, conn, connections>>
    BY <1>1 DEF CloseClient, UnloadStep, ClosePort
  <2>2. TypeOK' /\ NamesAreReleased'
    BY <2>1, ClosePortKeepsBusy DEF TypeOK, Points, NamesAreReleased, Busy
  <2>3. OwnInv'
    BY <2>1, ClosePortKeepsBusy DEF OwnInv, Busy
  <2> QED BY <2>1, <2>2, <2>3 DEF PortInv, OwnIoIsSkipped
<1>2. CASE ForgetAgent \/ CloseServer \/ Unregistered
  <2>1. /\ unload # "no" /\ unload' # "no" /\ TypeOK'
        /\ UNCHANGED <<io, port, conn, disturbed>>
    BY <1>2 DEF ForgetAgent, CloseServer, Unregistered, UnloadStep, TypeOK, io
  <2> QED BY <2>1 DEF NamesAreReleased, PortInv, OwnInv, OwnIoIsSkipped, io, Busy, Unsettled
<1> QED BY <1>1, <1>2 DEF Unload

LEMMA NextKeepsIInv == IInv /\ [Next]_vars => IInv'
<1> SUFFICES ASSUME IInv, [Next]_vars PROVE IInv'
  OBVIOUS
<1>1. CASE UNCHANGED vars
  BY <1>1 DEF IInv, vars, io, link, TypeOK, NamesAreReleased, PortInv, OwnInv, OwnIoIsSkipped,
              Busy, Unsettled
<1>2. CASE \E t \in Threads : Begin(t) \/ Callback(t) \/ GetMessage(t)
  BY <1>2, BeginKeepsIInv, CallbackKeepsIInv
<1> QED BY <1>1, <1>2, AgentKeepsIInv, UnloadKeepsIInv DEF Next

LEMMA InvariantHolds == Spec => []IInv
  BY InitIInv, NextKeepsIInv, PTL DEF Spec

-----------------------------------------------------------------------------
(* Every variable of the filter keeps its type; the count of references on *)
(* file names never goes below zero, whichever way an operation ends.      *)
THEOREM TypeCorrect == Spec => []TypeOK
<1>1. IInv => TypeOK
  BY DEF IInv
<1> QED BY <1>1, InvariantHolds, PTL

(* A name is held exactly by the operations that need it, however many     *)
(* threads do I/O around connects, disconnects and the unload.             *)
THEOREM NamesReleased == Spec => []NamesAreReleased
<1>1. IInv => NamesAreReleased
  BY DEF IInv
<1> QED BY <1>1, InvariantHolds, PTL

(* The agent hears of its own I/O only if it overlaps a connect or the     *)
(* unload, however often the agent comes and goes.                         *)
THEOREM OwnIoSkipped == Spec => []OwnIoIsSkipped
<1>1. IInv => OwnIoIsSkipped
  BY DEF IInv
<1> QED BY <1>1, InvariantHolds, PTL

=============================================================================

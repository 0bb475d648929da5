-------------------------- MODULE EventBufferProofs -------------------------
(***************************************************************************)
(* Proofs about EventBuffer for every number of pushers, every capacity    *)
(* and every set of event kinds: the types, the count, the overrun, where  *)
(* the events are, and that the queue implements a lossy channel.          *)
(***************************************************************************)
EXTENDS EventBuffer, FiniteSetTheorems, SequenceTheorems, TLAPS

(* The spinlock is held exactly by the thread that is between acquiring    *)
(* and releasing it.                                                       *)
LockInv ==
  /\ \A p \in Pushers : pc[p] \in {"locked", "linked", "counted"} <=> lock = p
  /\ rpc \in {"moving", "loaded", "stored"} <=> lock = Reader

(* g_EventCount is the length of the list, but for the one entry its       *)
(* pusher has linked and not counted, and for the entries the drainer has  *)
(* taken off and not yet subtracted.                                       *)
CountInv ==
  /\ lock = Nobody => eventCount = Len(queue)
  /\ \A p \in Pushers : /\ pc[p] \in {"locked", "counted"} => eventCount = Len(queue)
                        /\ pc[p] = "linked" => eventCount + 1 = Len(queue)
  /\ rpc \in {"moving", "loaded"} => eventCount = Len(queue) + drained
  /\ rpc = "loaded" => loaded = eventCount
  /\ rpc = "stored" => eventCount = Len(queue)

(* The pushers that passed the capacity test and have not counted their    *)
(* entry yet.                                                              *)
Admitted == At({"admitted", "filled", "locked", "linked"})

(* At the moment a pusher passes the test the count is below MaxQueue, so  *)
(* it and all others together stay within MaxQueue plus the others.        *)
OverrunInv == eventCount + Cardinality(Admitted) + 1 <= MaxQueue + Cardinality(Pushers)

IInv == TypeOK /\ LockInv /\ CountInv

-----------------------------------------------------------------------------
(* What the lists are in the steps that move an entry between them.        *)

(* The entry the drainer unlinks from one list and appends to the other.   *)
LEMMA Moved ==
  ASSUME NEW S, NEW a \in Seq(S), NEW b \in Seq(S), b # <<>>
  PROVE  Append(a, Head(b)) \o Tail(b) = a \o b
<1> DEFINE h == Head(b)
           t == Tail(b)
<1>1. /\ h \in S /\ t \in Seq(S) /\ Len(t) = Len(b) - 1
      /\ \A i \in 1 .. Len(t) : t[i] = b[i + 1]
  BY HeadTailProperties
<1>2. h = b[1] /\ Len(b) \in Nat \ {0}
  BY EmptySeq
<1> HIDE DEF h, t
<1>3. <<h>> \in Seq(S) /\ Len(<<h>>) = 1 /\ <<h>>[1] = h
  BY <1>1
<1>4. <<h>> \o t = b
  <2> DEFINE c == <<h>> \o t
  <2>1. /\ c \in Seq(S) /\ Len(c) = Len(b)
        /\ \A i \in 1 .. 1 + Len(t) : c[i] = IF i <= 1 THEN h ELSE t[i - 1]
    BY <1>1, <1>2, <1>3, ConcatProperties
  <2> HIDE DEF c
  <2>2. ASSUME NEW i \in 1 .. Len(b) PROVE c[i] = b[i]
    <3>1. CASE i = 1
      BY <1>1, <1>2, <2>1, <3>1
    <3>2. CASE i # 1
      <4>1. i - 1 \in 1 .. Len(t) /\ (i - 1) + 1 = i
        BY <1>1, <1>2, <3>2
      <4>2. c[i] = t[i - 1] /\ t[i - 1] = b[i]
        BY <1>1, <1>2, <2>1, <3>2, <4>1
      <4> QED BY <4>2
    <3> QED BY <3>1, <3>2
  <2>3. c = b
    BY <2>1, <2>2, SeqEqual
  <2> QED BY <2>3 DEF c
<1>5. Append(a, h) = a \o <<h>>
  BY <1>1, AppendIsConcat
<1>6. (a \o <<h>>) \o t = a \o (<<h>> \o t)
  BY <1>1, <1>3, ConcatAssociative
<1> QED BY <1>4, <1>5, <1>6 DEF h, t

(* The oldest of two lists in a row is the oldest of the first.            *)
LEMMA HeadJoined ==
  ASSUME NEW S, NEW a \in Seq(S), NEW b \in Seq(S), a # <<>>
  PROVE  a \o b # <<>> /\ Head(a \o b) = Head(a) /\ Tail(a \o b) = Tail(a) \o b
<1> DEFINE c == a \o b
           t == Tail(a)
           u == Tail(c)
           d == t \o b
<1>1. /\ c \in Seq(S) /\ Len(c) = Len(a) + Len(b) /\ Len(a) \in Nat \ {0} /\ Len(b) \in Nat
      /\ \A i \in 1 .. Len(a) + Len(b) : c[i] = IF i <= Len(a) THEN a[i] ELSE b[i - Len(a)]
  BY ConcatProperties, EmptySeq
<1>2. t \in Seq(S) /\ Len(t) = Len(a) - 1 /\ \A i \in 1 .. Len(t) : t[i] = a[i + 1]
  BY HeadTailProperties
<1> HIDE DEF c, t
<1>3. c # <<>>
  BY <1>1
<1>4. c[1] = a[1]
  <2>1. 1 \in 1 .. Len(a) + Len(b) /\ 1 <= Len(a)
    BY <1>1
  <2> QED BY <1>1, <2>1
<1>5. Head(c) = Head(a)
  BY <1>1, <1>3, <1>4
<1>6. u \in Seq(S) /\ Len(u) = Len(c) - 1 /\ \A i \in 1 .. Len(u) : u[i] = c[i + 1]
  BY <1>1, <1>3, HeadTailProperties
<1>7. /\ d \in Seq(S) /\ Len(d) = Len(t) + Len(b)
      /\ \A i \in 1 .. Len(t) + Len(b) : d[i] = IF i <= Len(t) THEN t[i] ELSE b[i - Len(t)]
  BY <1>2, ConcatProperties
<1> HIDE DEF u, d
<1>8. ASSUME NEW i \in 1 .. Len(u) PROVE u[i] = d[i]
  <2>1. i + 1 \in 1 .. Len(a) + Len(b) /\ i \in 1 .. Len(t) + Len(b)
    BY <1>1, <1>2, <1>6
  <2>2. CASE i <= Len(t)
    <3>1. i \in 1 .. Len(t) /\ i + 1 <= Len(a)
      BY <1>1, <1>2, <2>1, <2>2
    <3>2. u[i] = c[i + 1] /\ c[i + 1] = a[i + 1]
      BY <1>1, <1>6, <2>1, <3>1
    <3>3. d[i] = t[i] /\ t[i] = a[i + 1]
      BY <1>2, <1>7, <2>1, <3>1
    <3> QED BY <3>2, <3>3
  <2>3. CASE ~(i <= Len(t))
    <3>1. ~(i + 1 <= Len(a)) /\ (i + 1) - Len(a) = i - Len(t)
      BY <1>1, <1>2, <2>1, <2>3
    <3>2. u[i] = c[i + 1] /\ c[i + 1] = b[(i + 1) - Len(a)]
      BY <1>1, <1>6, <2>1, <3>1
    <3>3. d[i] = b[i - Len(t)]
      BY <1>7, <2>1, <2>3
    <3> QED BY <3>1, <3>2, <3>3
  <2> QED BY <2>2, <2>3
<1>9. Len(u) = Len(d)
  BY <1>1, <1>2, <1>6, <1>7
<1>10. u = d
  BY <1>6, <1>7, <1>8, <1>9, SeqEqual
<1> QED BY <1>3, <1>5, <1>10 DEF c, t, u, d

(* The new last entry.                                                     *)
LEMMA AppendJoined ==
  ASSUME NEW S, NEW a \in Seq(S), NEW b \in Seq(S), NEW e \in S
  PROVE  a \o Append(b, e) = Append(a \o b, e)
<1>1. <<e>> \in Seq(S) /\ a \o b \in Seq(S)
  BY ConcatProperties
<1>2. Append(b, e) = b \o <<e>> /\ Append(a \o b, e) = (a \o b) \o <<e>>
  BY <1>1, AppendIsConcat
<1> QED BY <1>1, <1>2, ConcatAssociative

(* A list on which no event is twice stays so when a new one is appended.  *)
LEMMA NewLast ==
  ASSUME NEW S, NEW s \in Seq(S), NEW e \in S
  PROVE  /\ Range(Append(s, e)) = Range(s) \cup {e}
         /\ IsInjective(s) /\ e \notin Range(s) => IsInjective(Append(s, e))
<1> DEFINE t == Append(s, e)
<1>1. /\ t \in Seq(S) /\ Len(t) = Len(s) + 1 /\ \A i \in 1 .. Len(s) : t[i] = s[i]
      /\ t[Len(s) + 1] = e /\ Len(s) \in Nat
  BY AppendProperties, LenProperties
<1> HIDE DEF t
<1>2. Range(t) = {t[i] : i \in 1 .. Len(t)} /\ Range(s) = {s[i] : i \in 1 .. Len(s)}
  BY <1>1, RangeEquality
<1>3. Range(t) = Range(s) \cup {e}
  <2>1. ASSUME NEW i \in 1 .. Len(t) PROVE t[i] \in Range(s) \cup {e}
    <3>1. i \in 1 .. Len(s) \/ i = Len(s) + 1
      BY <1>1
    <3> QED BY <1>1, <1>2, <3>1
  <2>2. ASSUME NEW i \in 1 .. Len(s) PROVE s[i] \in Range(t)
    <3>1. i \in 1 .. Len(t)
      BY <1>1
    <3> QED BY <1>1, <1>2, <3>1
  <2>3. Len(s) + 1 \in 1 .. Len(t)
    BY <1>1
  <2>4. e \in Range(t)
    BY <1>1, <1>2, <2>3
  <2> QED BY <1>2, <2>1, <2>2, <2>4
<1>4. ASSUME IsInjective(s), e \notin Range(s) PROVE IsInjective(t)
  <2>1. DOMAIN t = 1 .. Len(t) /\ DOMAIN s = 1 .. Len(s)
    BY <1>1
  <2> SUFFICES ASSUME NEW i \in 1 .. Len(t), NEW j \in 1 .. Len(t), t[i] = t[j] PROVE i = j
    BY <2>1 DEF IsInjective
  <2>2. (i \in 1 .. Len(s) \/ i = Len(s) + 1) /\ (j \in 1 .. Len(s) \/ j = Len(s) + 1)
    BY <1>1
  <2>3. \A n \in 1 .. Len(s) : t[n] \in Range(s) /\ t[n] = s[n]
    BY <1>1, <1>2
  <2>4. \A n, m \in 1 .. Len(s) : s[n] = s[m] => n = m
    BY <1>4, <2>1 DEF IsInjective
  <2> QED BY <1>1, <1>4, <2>2, <2>3, <2>4
<1> QED BY <1>3, <1>4 DEF t

(* As many events as places, and none on both of two lists in a row.       *)
LEMMA Distinct ==
  ASSUME NEW S, NEW s \in Seq(S), IsInjective(s)
  PROVE  IsFiniteSet(Range(s)) /\ Cardinality(Range(s)) = Len(s)
<1>1. s \in [1 .. Len(s) -> Range(s)] /\ Len(s) \in Nat /\ DOMAIN s = 1 .. Len(s)
  BY LenProperties DEF Range
<1>2. s \in Bijection(1 .. Len(s), Range(s))
  BY <1>1 DEF Bijection, Injection, Surjection, IsInjective, Range
<1>3. ExistsBijection(1 .. Len(s), Range(s))
  BY <1>2 DEF ExistsBijection
<1> QED BY <1>1, <1>3, FS_CountingElements, FS_NatBijection

LEMMA Split ==
  ASSUME NEW S, NEW a \in Seq(S), NEW b \in Seq(S), IsInjective(a \o b)
  PROVE  /\ IsInjective(a) /\ IsInjective(b) /\ Range(a) \cap Range(b) = {}
<1> DEFINE c == a \o b
<1>1. /\ c \in Seq(S) /\ Len(c) = Len(a) + Len(b) /\ Len(a) \in Nat /\ Len(b) \in Nat
      /\ \A i \in 1 .. Len(a) + Len(b) : c[i] = IF i <= Len(a) THEN a[i] ELSE b[i - Len(a)]
  BY ConcatProperties, LenProperties
<1>2. \A i, j \in 1 .. Len(a) + Len(b) : c[i] = c[j] => i = j
  BY <1>1 DEF IsInjective
<1> HIDE DEF c
<1>3. \A i \in 1 .. Len(a) : i \in 1 .. Len(a) + Len(b) /\ c[i] = a[i]
  <2>1. \A i \in 1 .. Len(a) : i \in 1 .. Len(a) + Len(b) /\ i <= Len(a)
    BY <1>1
  <2> QED BY <1>1, <2>1
<1>4. \A i \in 1 .. Len(b) : Len(a) + i \in 1 .. Len(a) + Len(b) /\ c[Len(a) + i] = b[i]
  <2>1. \A i \in 1 .. Len(b) : /\ Len(a) + i \in 1 .. Len(a) + Len(b) /\ ~(Len(a) + i <= Len(a))
                               /\ (Len(a) + i) - Len(a) = i
    BY <1>1
  <2> QED BY <1>1, <2>1
<1>5. IsInjective(a)
  BY <1>2, <1>3, LenProperties DEF IsInjective
<1>6. ASSUME NEW i \in 1 .. Len(b), NEW j \in 1 .. Len(b), b[i] = b[j] PROVE i = j
  <2>1. Len(a) + i = Len(a) + j
    BY <1>2, <1>4, <1>6
  <2> QED BY <1>1, <2>1
<1>7. ASSUME NEW i \in 1 .. Len(a), NEW j \in 1 .. Len(b), a[i] = b[j] PROVE FALSE
  <2>1. i = Len(a) + j
    BY <1>2, <1>3, <1>4, <1>7
  <2> QED BY <1>1, <2>1
<1>8. IsInjective(b)
  BY <1>6, LenProperties DEF IsInjective
<1>9. Range(a) \cap Range(b) = {}
  BY <1>7, RangeEquality
<1> QED BY <1>5, <1>8, <1>9

-----------------------------------------------------------------------------
USE PushersAssumption, SizesAssumption, BoundsAssumption, NoEventAssumption

(* The lists and the counter are typed and consistent when the driver has  *)
(* been loaded.                                                            *)
LEMMA InitIInv == Init => IInv
  BY DEF Init, IInv, TypeOK, LockInv, CountInv

(* The event a callback builds is an event, and a number of its own.       *)
LEMMA StampedEvent ==
  ASSUME TypeOK, seqNum < MaxSeq, NEW k \in Kinds
  PROVE  [seq |-> seqNum + 1, kind |-> k] \in Event
  BY DEF TypeOK, Event

(* The kind of an event has a size and a counter.                          *)
LEMMA EventKind == ASSUME NEW e \in Event PROVE e.kind \in Kinds /\ Size[e.kind] \in Nat
  BY DEF Event

(* A step of a callback keeps the variables typed and the count in line    *)
(* with the list.                                                          *)
LEMMA PushKeepsIInv ==
  ASSUME IInv, NEW p \in Pushers, Stamp(p) \/ PushStep(p)
  PROVE  IInv'
<1> USE DEF IInv, TypeOK, LockInv, CountInv, PusherAt, notPush, dropVars, drainVars
<1>0. pc[p] # "idle" => /\ ev[p] \in Event
                        /\ ev[p].kind \in Kinds
  BY EventKind
<1>1. CASE Stamp(p)
  <2>1. PICK k \in Kinds : ev' = [ev EXCEPT ![p] = [seq |-> seqNum + 1, kind |-> k]]
    BY <1>1 DEF Stamp
  <2>2. [seq |-> seqNum + 1, kind |-> k] \in Event
    BY <1>1, StampedEvent DEF Stamp
  <2> DEFINE e == [seq |-> seqNum + 1, kind |-> k]
  <2> HIDE DEF e
  <2>3. ev' = [ev EXCEPT ![p] = e] /\ e \in Event
    BY <2>1, <2>2 DEF e
  <2> QED BY <1>1, <2>3 DEF Stamp, listVars
<1>2. CASE PushFull(p)
  <2>1. lost' \subseteq Event
    BY <1>0, <1>2 DEF PushFull, Drop
  <2>2. /\ ev' = [ev EXCEPT ![p] = NoEvent] /\ pc' = [pc EXCEPT ![p] = "idle"]
        /\ dropped' = dropped + 1 /\ pc[p] \in {"stamped", "admitted"}
        /\ UNCHANGED <<initialized, seqNum, lock, listVars, generated, typeCount,
                       drainVars, flushed>>
    BY <1>2 DEF PushFull, Drop
  <2>3. TypeOK'
    BY <2>1, <2>2 DEF listVars
  <2>4. LockInv' /\ CountInv'
    BY <2>2 DEF listVars
  <2> QED BY <2>3, <2>4
<1>3. CASE AllocFail(p)
  <2>1. lost' \subseteq Event
    BY <1>0, <1>3 DEF AllocFail, Drop
  <2>2. /\ ev' = [ev EXCEPT ![p] = NoEvent] /\ pc' = [pc EXCEPT ![p] = "idle"]
        /\ dropped' = dropped + 1 /\ pc[p] \in {"stamped", "admitted"}
        /\ UNCHANGED <<initialized, seqNum, lock, listVars, generated, typeCount,
                       drainVars, flushed>>
    BY <1>3 DEF AllocFail, Drop
  <2>3. TypeOK'
    BY <2>1, <2>2 DEF listVars
  <2>4. LockInv' /\ CountInv'
    BY <2>2 DEF listVars
  <2> QED BY <2>3, <2>4
<1>4. CASE PushAdmit(p)
  BY <1>4 DEF PushAdmit, listVars
<1>5. CASE Fill(p)
  <2>1. typeCount' \in [Kinds -> Nat]
    BY <1>0, <1>5 DEF Fill, IncrementTypeCounter
  <2>2. /\ pc[p] = "admitted" /\ pc' = [pc EXCEPT ![p] = "filled"]
        /\ UNCHANGED <<lock, listVars, ev, generated, notPush>>
    BY <1>5 DEF Fill
  <2> QED BY <1>0, <2>1, <2>2 DEF listVars
<1>6. CASE Acquire(p)
  BY <1>6 DEF Acquire, listVars, TakeLock
<1>7. CASE Link(p)
  <2>1. queue' \in Seq(Event) /\ Len(queue') = Len(queue) + 1
    BY <1>0, <1>7, AppendProperties DEF Link, InsertTail
  <2>2. \A q \in Pushers : q # p => pc[q] \notin {"locked", "linked", "counted"}
    BY <1>7 DEF Link
  <2> QED BY <1>7, <2>1, <2>2 DEF Link
<1>8. CASE Count(p)
  <2>1. \A q \in Pushers : q # p => pc[q] \notin {"locked", "linked", "counted"}
    BY <1>8 DEF Count
  <2> QED BY <1>8, <2>1 DEF Count
<1>9. CASE Release(p)
  BY <1>9 DEF Release, listVars
<1>10. CASE Generate(p)
  BY <1>10 DEF Generate, listVars
<1> QED BY <1>1, <1>2, <1>3, <1>4, <1>5, <1>6, <1>7, <1>8, <1>9, <1>10 DEF PushStep

(* A step of the agent's read keeps them too.                              *)
LEMMA DrainKeepsIInv ==
  ASSUME IInv, DrainStep
  PROVE  IInv'
<1> USE DEF IInv, TypeOK, LockInv, CountInv, ReaderAt, notDrain, pushVars, dropVars
<1>1. CASE StartDrain
  BY <1>1 DEF StartDrain, TakeLock, listVars
<1>2. CASE MoveEntry
  <2>1. /\ Head(queue) \in Event
        /\ queue' \in Seq(Event) /\ Len(queue') = Len(queue) - 1 /\ Len(queue) \in Nat
    BY <1>2, HeadTailProperties, LenProperties DEF MoveEntry, HeadFits, RemoveEntry
  <2>2. local' \in Seq(Event)
    BY <1>2, <2>1, AppendProperties DEF MoveEntry, InsertTail
  <2>3. room' \in Nat
    BY <1>2, <2>1, EventKind DEF MoveEntry, HeadFits
  <2>4. /\ UNCHANGED <<lock, eventCount, loaded, delivered, received, notDrain>>
        /\ rpc = "moving" /\ rpc' = "moving" /\ drained' = drained + 1
    BY <1>2 DEF MoveEntry
  <2> QED BY <2>1, <2>2, <2>3, <2>4
<1>3. CASE LoadCount
  BY <1>3 DEF LoadCount, listVars
<1>4. CASE StoreCount
  BY <1>4, LenProperties DEF StoreCount
<1>5. CASE ReleaseDrain
  BY <1>5 DEF ReleaseDrain, listVars
<1>6. CASE CopyEntry
  <2>1. Head(local) \in Event /\ local' \in Seq(Event)
    BY <1>6, HeadTailProperties DEF CopyEntry
  <2>2. received' \in Seq(Event)
    BY <1>6, <2>1, AppendProperties DEF CopyEntry
  <2>3. /\ UNCHANGED <<lock, listVars, room, drained, loaded, notDrain>>
        /\ rpc = "copying" /\ rpc' = "copying" /\ delivered' = delivered + 1
    BY <1>6 DEF CopyEntry
  <2>4. TypeOK'
    BY <2>1, <2>2, <2>3 DEF listVars
  <2>5. LockInv' /\ CountInv'
    BY <2>3 DEF listVars
  <2> QED BY <2>4, <2>5
<1>7. CASE Return
  BY <1>7 DEF Return, listVars
<1> QED BY <1>1, <1>2, <1>3, <1>4, <1>5, <1>6, <1>7 DEF DrainStep

(* Unloading the driver empties a list nobody else is working on.          *)
LEMMA CleanupKeepsIInv == IInv /\ Cleanup => IInv'
<1> SUFFICES ASSUME IInv, Cleanup PROVE IInv'
  OBVIOUS
<1>1. Range(queue) \subseteq Event
  BY LenProperties, ElementOfSeq DEF IInv, TypeOK, Range
<1>2. flushed' \subseteq Event
  BY <1>1 DEF Cleanup, IInv, TypeOK
<1>3. queue' \in Seq(Event) /\ Len(queue') = 0
  BY EmptySeq DEF Cleanup
<1>4. lock = Nobody
  BY DEF Cleanup, IInv, TypeOK, LockInv
<1>5. TypeOK'
  BY <1>2, <1>3 DEF Cleanup, IInv, TypeOK, pushVars, dropVars, drainVars
<1>6. LockInv' /\ CountInv'
  BY <1>3, <1>4 DEF Cleanup, IInv, LockInv, CountInv, pushVars, drainVars
<1> QED BY <1>5, <1>6 DEF IInv

(* The invariant is kept by every step of the specification.               *)
LEMMA NextKeepsIInv == IInv /\ [Next]_vars => IInv'
<1>1. IInv /\ Next => IInv'
  BY PushKeepsIInv, DrainKeepsIInv, CleanupKeepsIInv DEF Next
<1>2. IInv /\ UNCHANGED vars => IInv'
  BY DEF vars, IInv, TypeOK, LockInv, CountInv, listVars, pushVars, dropVars, drainVars
<1> QED BY <1>1, <1>2

(* Types and the agreement of count and list hold in every reachable state. *)
LEMMA Invariance == Spec => []IInv
  BY InitIInv, NextKeepsIInv, PTL DEF Spec

(* Every variable of the driver's queue keeps its type, for any number of  *)
(* callbacks; g_EventCount never goes below zero.                          *)
THEOREM TypeCorrect == Spec => []TypeOK
<1>1. IInv => TypeOK
  BY DEF IInv
<1> QED BY Invariance, <1>1, PTL

(* g_EventCount is the length of the list whenever the spinlock is free.   *)
THEOREM CountCorrect == Spec => []CountMatchesList
<1>1. IInv => CountMatchesList
  BY DEF IInv, CountInv, CountMatchesList
<1> QED BY Invariance, <1>1, PTL

-----------------------------------------------------------------------------
(* A pusher that joins or leaves the admitted ones changes their number by *)
(* one at most; they are never more than all pushers.                      *)
LEMMA AdmittedFinite ==
  ASSUME NEW S \in SUBSET Pushers
  PROVE  /\ IsFiniteSet(S)
         /\ Cardinality(S) \in Nat
         /\ Cardinality(S) <= Cardinality(Pushers)
         /\ Cardinality(Pushers) \in Nat \ {0}
  BY FS_Subset, FS_CardinalityType, FS_EmptySet

(* The overrun stays within its bound while the driver runs: a pusher      *)
(* joins only when the count is below MaxQueue, and the drainer and the    *)
(* unload only lower the count.                                            *)
LEMMA NextKeepsOverrun == IInv /\ IInv' /\ OverrunInv /\ [Next]_vars => OverrunInv'
<1> SUFFICES ASSUME IInv, IInv', OverrunInv, [Next]_vars PROVE OverrunInv'
  OBVIOUS
<1> USE DEF Admitted, At
<1>0. /\ Admitted \in SUBSET Pushers /\ Admitted' \in SUBSET Pushers
      /\ eventCount \in Nat /\ eventCount' \in Nat
      /\ pc \in [Pushers -> {"idle", "stamped", "admitted", "filled", "locked",
                         "linked", "counted", "released"}]
  BY DEF IInv, TypeOK
<1>1. /\ Cardinality(Admitted) \in Nat /\ Cardinality(Admitted') \in Nat
      /\ IsFiniteSet(Admitted) /\ Cardinality(Admitted') <= Cardinality(Pushers)
      /\ Cardinality(Pushers) \in Nat
  BY <1>0, AdmittedFinite
<1> HIDE DEF Admitted, At
(* Most steps neither add an admitted pusher nor raise the count.          *)
<1>2. ASSUME Admitted' = Admitted, eventCount' <= eventCount PROVE OverrunInv'
  BY <1>0, <1>1, <1>2 DEF OverrunInv
<1>3. ASSUME NEW p \in Pushers, Stamp(p) \/ PushStep(p) PROVE OverrunInv'
  <2> USE DEF Admitted, At, PusherAt, listVars, notPush
  <2>1. CASE Stamp(p)
    BY <1>0, <1>2, <2>1 DEF Stamp
  <2>2. CASE PushFull(p)
    BY <1>0, <1>2, <2>2 DEF PushFull, Drop
  <2>3. CASE PushAdmit(p)
    <3>1. eventCount < MaxQueue /\ eventCount' = eventCount
      BY <1>0, <2>3 DEF PushAdmit, AtCapacity
    <3> QED BY <1>0, <1>1, <3>1 DEF OverrunInv
  <2>4. CASE AllocFail(p)
    <3>1. Admitted' = Admitted \ {p} /\ p \in Admitted /\ eventCount' = eventCount
      BY <1>0, <2>4 DEF AllocFail, Drop
    <3>2. Cardinality(Admitted') = Cardinality(Admitted) - 1
      BY <1>1, <3>1, FS_RemoveElement
    <3> QED BY <1>0, <1>1, <3>1, <3>2 DEF OverrunInv
  <2>5. CASE Fill(p)
    BY <1>0, <1>2, <2>5 DEF Fill
  <2>6. CASE Acquire(p)
    BY <1>0, <1>2, <2>6 DEF Acquire
  <2>7. CASE Link(p)
    BY <1>0, <1>2, <2>7 DEF Link
  <2>8. CASE Count(p)
    <3>1. Admitted' = Admitted \ {p} /\ p \in Admitted /\ eventCount' = eventCount + 1
      BY <1>0, <2>8 DEF Count
    <3>2. Cardinality(Admitted') = Cardinality(Admitted) - 1
      BY <1>1, <3>1, FS_RemoveElement
    <3> QED BY <1>0, <1>1, <3>1, <3>2 DEF OverrunInv
  <2>9. CASE Release(p)
    BY <1>0, <1>2, <2>9 DEF Release
  <2>10. CASE Generate(p)
    BY <1>0, <1>2, <2>10 DEF Generate
  <2> QED BY <1>3, <2>1, <2>2, <2>3, <2>4, <2>5, <2>6, <2>7, <2>8, <2>9, <2>10
          DEF PushStep
<1>4. CASE DrainStep
  <2>1. pc' = pc
    BY <1>4 DEF DrainStep, StartDrain, MoveEntry, LoadCount, StoreCount, ReleaseDrain,
                CopyEntry, Return, notDrain, pushVars
  <2>2. Admitted' = Admitted
    BY <2>1 DEF Admitted, At
  <2>3. CASE StoreCount
    <3>1. eventCount' = Len(queue)' /\ eventCount = Len(queue) + drained
      BY <2>3 DEF StoreCount, ReaderAt, IInv, CountInv
    <3>2. queue' = queue /\ Len(queue) \in Nat /\ drained \in Nat
      BY <2>3, LenProperties DEF StoreCount, IInv, TypeOK
    <3> QED BY <1>2, <2>2, <3>1, <3>2
  <2>4. CASE ~StoreCount
    <3>1. eventCount' = eventCount
      BY <1>4, <2>4 DEF DrainStep, StartDrain, MoveEntry, LoadCount, ReleaseDrain,
                        CopyEntry, Return, listVars
    <3> QED BY <1>0, <1>2, <2>2, <3>1
  <2> QED BY <2>3, <2>4
<1>5. CASE Cleanup
  BY <1>0, <1>2, <1>5 DEF Cleanup, pushVars, Admitted, At
<1>6. CASE UNCHANGED vars
  BY <1>0, <1>2, <1>6 DEF vars, pushVars, listVars, Admitted, At
<1> QED BY <1>3, <1>4, <1>5, <1>6 DEF Next

(* The list is longer than the count by the linked entry at most, and its  *)
(* pusher is one of the admitted.                                          *)
LEMMA OverrunInvBounds == IInv /\ OverrunInv => OverrunBound
<1> SUFFICES ASSUME IInv, OverrunInv PROVE OverrunBound
  OBVIOUS
<1>1. /\ Len(queue) \in Nat /\ eventCount \in Nat /\ drained \in Nat
      /\ Admitted \in SUBSET Pushers
  BY LenProperties DEF IInv, TypeOK, Admitted, At
<1>2. Cardinality(Admitted) \in Nat /\ Cardinality(Pushers) \in Nat
  BY <1>1, AdmittedFinite
<1>3. CASE \E p \in Pushers : pc[p] = "linked"
  <2>1. PICK p \in Pushers : pc[p] = "linked"
    BY <1>3
  <2>2. eventCount + 1 = Len(queue)
    BY <2>1 DEF IInv, CountInv
  <2>3. Admitted # {}
    BY <2>1 DEF Admitted, At
  <2>4. Cardinality(Admitted) # 0
    BY <1>1, <2>3, AdmittedFinite, FS_EmptySet
  <2> QED BY <1>1, <1>2, <2>2, <2>4 DEF OverrunInv, OverrunBound
<1>4. CASE \A p \in Pushers : pc[p] # "linked"
  <2>1. Len(queue) <= eventCount
    BY <1>1, <1>4 DEF IInv, TypeOK, LockInv, CountInv
  <2> QED BY <1>1, <1>2, <2>1 DEF OverrunInv, OverrunBound
<1> QED BY <1>3, <1>4

(* The list outgrows EDR_MAX_EVENTS_IN_QUEUE by less than the number of    *)
(* processors that can be inside PushEvent at once, whatever they do.      *)
THEOREM OverrunBounded == Spec => []OverrunBound
<1>1. Init => OverrunInv
  <2> SUFFICES ASSUME Init PROVE OverrunInv
    OBVIOUS
  <2>1. Admitted = {} /\ eventCount = 0
    BY DEF Init, Admitted, At
  <2> QED BY <2>1, AdmittedFinite, FS_EmptySet DEF OverrunInv
<1> QED BY <1>1, Invariance, NextKeepsIInv, NextKeepsOverrun, OverrunInvBounds,
           InitIInv, PTL DEF Spec

-----------------------------------------------------------------------------
(* The pushers with an event that is on no list and not given up yet.      *)
Holding == At({"stamped", "admitted", "filled", "locked"})
Held == {ev[p] : p \in Holding}

(* The events on their way to the agent, and all that ever got that far.   *)
Chan == local \o queue
Arrived == received \o Chan
Entered == Range(Arrived) \cup flushed

Linking == At({"linked", "counted", "released"})
Filling == At({"filled", "locked"})
EnteredOf(k) == {e \in Entered : e.kind = k}
FillingOf(k) == {p \in Filling : ev[p].kind = k}

(* No event is in two places, or twice on a list; a reader that is not in  *)
(* DrainEvents has no list of its own.                                     *)
Apart ==
  /\ \A p, q \in Holding : ev[p] = ev[q] => p = q
  /\ IsInjective(Arrived)
  /\ Held \cap Entered = {} /\ Held \cap lost = {} /\ Entered \cap lost = {}
  /\ Range(Arrived) \cap flushed = {}
  /\ IsFiniteSet(lost) /\ IsFiniteSet(flushed)
  /\ rpc = "idle" => local = <<>>

(* Every number that was given out is the number of one of these events.   *)
Numbered ==
  /\ {e.seq : e \in Held \cup Entered \cup lost} = 1 .. seqNum
  /\ Cardinality(Holding) + Len(Arrived) + Cardinality(lost) + Cardinality(flushed) = seqNum

(* StatisticsAgree, in these terms.                                        *)
Counters ==
  /\ generated + Cardinality(Linking) = Cardinality(Entered)
  /\ delivered = Len(received) /\ dropped = Cardinality(lost)
  /\ \A k \in Kinds : typeCount[k] = Cardinality(EnteredOf(k)) + Cardinality(FillingOf(k))

EventsInv == Apart /\ Numbered /\ Counters

-----------------------------------------------------------------------------
(* The lists hold events only, and so do the pushers' hands.               *)
LEMMA EventsTyped ==
  ASSUME IInv
  PROVE  /\ queue \in Seq(Event) /\ local \in Seq(Event) /\ received \in Seq(Event)
         /\ Chan \in Seq(Event) /\ Arrived \in Seq(Event)
         /\ Len(Arrived) \in Nat /\ Len(received) \in Nat /\ Len(queue) \in Nat
         /\ \A p \in Holding : p \in Pushers /\ ev[p] \in Event
         /\ Held \subseteq Event
<1>1. queue \in Seq(Event) /\ local \in Seq(Event) /\ received \in Seq(Event)
  BY DEF IInv, TypeOK
<1>2. Chan \in Seq(Event)
  BY <1>1, ConcatProperties DEF Chan
<1>3. Arrived \in Seq(Event)
  BY <1>1, <1>2, ConcatProperties DEF Arrived
<1>4. \A p \in Holding : p \in Pushers /\ ev[p] \in Event
  BY DEF Holding, At, IInv, TypeOK
<1> QED BY <1>1, <1>2, <1>3, <1>4, LenProperties DEF Held

(* The sets of pushers the counters speak of are finite.                   *)
LEMMA PushersCounted ==
  /\ IsFiniteSet(Holding) /\ Cardinality(Holding) \in Nat
  /\ IsFiniteSet(Linking) /\ Cardinality(Linking) \in Nat
  /\ \A k : IsFiniteSet(FillingOf(k)) /\ Cardinality(FillingOf(k)) \in Nat
<1>1. /\ Holding \in SUBSET Pushers /\ Linking \in SUBSET Pushers
      /\ \A k : FillingOf(k) \in SUBSET Pushers
  BY DEF Holding, Linking, FillingOf, Filling, At
<1> QED BY <1>1, AdmittedFinite

(* So are the sets of events.                                              *)
LEMMA EventsCounted ==
  ASSUME IInv, Apart
  PROVE  /\ IsFiniteSet(Entered) /\ Cardinality(Entered) \in Nat
         /\ \A k : IsFiniteSet(EnteredOf(k)) /\ Cardinality(EnteredOf(k)) \in Nat
         /\ Cardinality(lost) \in Nat /\ Cardinality(flushed) \in Nat
<1>1. IsFiniteSet(Range(Arrived)) /\ IsFiniteSet(lost) /\ IsFiniteSet(flushed)
  BY EventsTyped, Distinct DEF Apart
<1>2. IsFiniteSet(Entered)
  BY <1>1, FS_Union DEF Entered
<1>3. \A k : EnteredOf(k) \in SUBSET Entered
  BY DEF EnteredOf
<1> QED BY <1>1, <1>2, <1>3, FS_Subset, FS_CardinalityType

(* A step that leaves the events where they are.                           *)
LEMMA EventsStay ==
  ASSUME Apart, Numbered, UNCHANGED <<seqNum, lost, flushed>>,
         Holding' = Holding, \A q \in Holding : ev'[q] = ev[q],
         Arrived' = Arrived, rpc' = "idle" => local' = <<>>
  PROVE  Held' = Held /\ Entered' = Entered /\ Apart' /\ Numbered'
<1>1. Held' = Held /\ Entered' = Entered
  BY DEF Held, Entered
<1>2. Apart'
  BY <1>1 DEF Apart
<1> QED BY <1>1, <1>2 DEF Numbered

LEMMA CountersStay ==
  ASSUME Counters, UNCHANGED <<typeCount, lost, dropped>>,
         Entered' = Entered, Filling' = Filling, \A q \in Filling : ev'[q] = ev[q],
         generated' + Cardinality(Linking') = generated + Cardinality(Linking),
         delivered' = Len(received')
  PROVE  Counters'
<1>1. \A k : EnteredOf(k)' = EnteredOf(k) /\ FillingOf(k)' = FillingOf(k)
  BY DEF EnteredOf, FillingOf
<1> QED BY <1>1 DEF Counters

(* A callback's event is nowhere, then in its hands ...                    *)
LEMMA StampKeepsEvents ==
  ASSUME IInv, EventsInv, NEW p \in Pushers, Stamp(p)
  PROVE  EventsInv'
<1>1. PICK k \in Kinds : ev' = [ev EXCEPT ![p] = [seq |-> seqNum + 1, kind |-> k]]
  BY DEF Stamp
<1> DEFINE e == [seq |-> seqNum + 1, kind |-> k]
<1>2. e.seq = seqNum + 1 /\ ev' = [ev EXCEPT ![p] = e]
  BY <1>1
<1> HIDE DEF e
<1>3. /\ pc[p] = "idle" /\ pc' = [pc EXCEPT ![p] = "stamped"]
      /\ seqNum' = seqNum + 1 /\ seqNum \in Nat
      /\ UNCHANGED <<queue, local, received, lost, flushed, rpc, generated, typeCount,
                     dropped, delivered>>
  BY DEF Stamp, PusherAt, listVars, dropVars, drainVars, IInv, TypeOK
<1>4. Holding' = Holding \cup {p} /\ p \notin Holding
  BY <1>3 DEF Holding, At, IInv, TypeOK
<1>5. Linking' = Linking /\ Filling' = Filling /\ p \notin Filling
  BY <1>3 DEF Linking, Filling, At, IInv, TypeOK
<1>6. ev'[p] = e /\ \A q \in Pushers : q # p => ev'[q] = ev[q]
  BY <1>2 DEF IInv, TypeOK
<1>7. \A q \in Holding \cup Filling : q \in Pushers /\ q # p
  BY <1>4, <1>5 DEF Holding, Filling, At
<1>8. Held' = Held \cup {e}
  BY <1>4, <1>6, <1>7 DEF Held
<1>9. Arrived' = Arrived /\ Entered' = Entered
  BY <1>3 DEF Arrived, Chan, Entered
<1>10. e \notin Held \cup Entered \cup lost
  <2>1. \A f \in Held \cup Entered \cup lost : f.seq \in 1 .. seqNum
    BY DEF EventsInv, Numbered
  <2> QED BY <1>2, <1>3, <2>1
<1>11. Apart'
  <2>1. \A q, r \in Holding' : ev'[q] = ev'[r] => q = r
    <3>1. \A q \in Holding : ev'[q] = ev[q] /\ ev[q] \in Held
      BY <1>6, <1>7 DEF Held
    <3>2. \A q \in Holding : ev'[q] # e
      BY <1>10, <3>1
    <3> QED BY <1>4, <1>6, <3>1, <3>2 DEF EventsInv, Apart
  <2> QED BY <1>3, <1>8, <1>9, <1>10, <2>1 DEF EventsInv, Apart
<1>12. Numbered'
  <2>1. {f.seq : f \in Held' \cup Entered' \cup lost'}
          = {f.seq : f \in Held \cup Entered \cup lost} \cup {seqNum + 1}
    BY <1>2, <1>3, <1>8, <1>9
  <2>2. 1 .. seqNum + 1 = (1 .. seqNum) \cup {seqNum + 1}
    BY <1>3
  <2>3. Cardinality(Holding') = Cardinality(Holding) + 1 /\ Cardinality(Holding) \in Nat
    BY <1>4, PushersCounted, FS_AddElement
  <2>4. Len(Arrived) \in Nat /\ Cardinality(lost) \in Nat /\ Cardinality(flushed) \in Nat
    BY EventsTyped, EventsCounted DEF EventsInv
  <2>5. Cardinality(Holding') + Len(Arrived') + Cardinality(lost') + Cardinality(flushed')
          = seqNum'
    <3>1. Cardinality(Holding) + Len(Arrived) + Cardinality(lost) + Cardinality(flushed) = seqNum
      BY DEF EventsInv, Numbered
    <3>2. UNCHANGED <<Arrived, lost, flushed>> /\ seqNum' = seqNum + 1
      BY <1>3, <1>9
    <3> QED BY <2>3, <2>4, <3>1, <3>2
  <2> QED BY <1>3, <2>1, <2>2, <2>5 DEF EventsInv, Numbered
<1>13. Counters'
  BY <1>3, <1>5, <1>6, <1>7, <1>9, CountersStay DEF EventsInv, Counters
<1> QED BY <1>11, <1>12, <1>13 DEF EventsInv

(* ... given up ...                                                        *)
LEMMA DropKeepsEvents ==
  ASSUME IInv, EventsInv, NEW p \in Pushers, PushFull(p) \/ AllocFail(p)
  PROVE  EventsInv'
<1>1. /\ ev' = [ev EXCEPT ![p] = NoEvent] /\ pc[p] \in {"stamped", "admitted"}
      /\ pc' = [pc EXCEPT ![p] = "idle"]
      /\ lost' = lost \cup {ev[p]} /\ dropped' = dropped + 1
      /\ UNCHANGED <<seqNum, queue, local, received, flushed, rpc, generated, typeCount,
                     delivered>>
  BY DEF PushFull, AllocFail, Drop, PusherAt, listVars, drainVars
<1>2. Holding' = Holding \ {p} /\ p \in Holding
  BY <1>1 DEF Holding, At, IInv, TypeOK
<1>3. Linking' = Linking /\ Filling' = Filling /\ p \notin Filling
  BY <1>1 DEF Linking, Filling, At, IInv, TypeOK
<1>4. \A q \in Pushers : q # p => ev'[q] = ev[q]
  BY <1>1 DEF IInv, TypeOK
<1>5. \A q \in Holding \cup Filling : q \in Pushers
  BY DEF Holding, Filling, At
<1>6. Held' = Held \ {ev[p]} /\ ev[p] \in Held
  BY <1>2, <1>4, <1>5 DEF Held, EventsInv, Apart
<1>7. Arrived' = Arrived /\ Entered' = Entered
  BY <1>1 DEF Arrived, Chan, Entered
<1>8. ev[p] \notin Entered /\ ev[p] \notin lost
  BY <1>6 DEF EventsInv, Apart
<1>9. IsFiniteSet(lost') /\ Cardinality(lost') = Cardinality(lost) + 1 /\ Cardinality(lost) \in Nat
  BY <1>1, <1>8, FS_AddElement, FS_CardinalityType DEF EventsInv, Apart
<1>10. Apart'
  <2>1. \A q, r \in Holding' : ev'[q] = ev'[r] => q = r
    BY <1>2, <1>4, <1>5 DEF EventsInv, Apart
  <2> QED BY <1>1, <1>6, <1>7, <1>8, <1>9, <2>1 DEF EventsInv, Apart
<1>11. Numbered'
  <2>1. Held' \cup Entered' \cup lost' = Held \cup Entered \cup lost
    BY <1>1, <1>6, <1>7
  <2>2. Cardinality(Holding') = Cardinality(Holding) - 1 /\ Cardinality(Holding) \in Nat
    BY <1>2, PushersCounted, FS_RemoveElement
  <2>3. Len(Arrived) \in Nat /\ Cardinality(flushed) \in Nat
    BY EventsTyped, EventsCounted DEF EventsInv
  <2>4. Cardinality(Holding') + Len(Arrived') + Cardinality(lost') + Cardinality(flushed')
          = seqNum'
    BY <1>1, <1>7, <1>9, <2>2, <2>3 DEF EventsInv, Numbered
  <2> QED BY <1>1, <2>1, <2>4 DEF EventsInv, Numbered
<1>12. Counters'
  <2>1. \A k : EnteredOf(k)' = EnteredOf(k) /\ FillingOf(k)' = FillingOf(k)
    BY <1>3, <1>4, <1>5, <1>7 DEF EnteredOf, FillingOf
  <2> QED BY <1>1, <1>3, <1>7, <1>9, <2>1 DEF EventsInv, Counters
<1> QED BY <1>10, <1>11, <1>12 DEF EventsInv

(* ... counted by its category ...                                         *)
LEMMA FillKeepsEvents ==
  ASSUME IInv, EventsInv, NEW p \in Pushers, Fill(p)
  PROVE  EventsInv'
<1>0. PICK k \in Kinds : k = ev[p].kind
  BY EventKind DEF Fill, PusherAt, IInv, TypeOK
<1>1. /\ pc[p] = "admitted" /\ pc' = [pc EXCEPT ![p] = "filled"]
      /\ typeCount' = [typeCount EXCEPT ![k] = @ + 1]
      /\ UNCHANGED <<seqNum, lost, flushed, ev, queue, local, received, rpc, generated, dropped,
                     delivered>>
  BY <1>0 DEF Fill, PusherAt, IncrementTypeCounter, notPush, dropVars, drainVars, listVars
<1>2. typeCount \in [Kinds -> Nat]
  BY DEF IInv, TypeOK
<1>3. Holding' = Holding /\ Linking' = Linking /\ Filling' = Filling \cup {p} /\ p \notin Filling
  BY <1>1 DEF Holding, Linking, Filling, At, IInv, TypeOK
<1>4. Arrived' = Arrived
  BY <1>1 DEF Arrived, Chan
<1>5. Entered' = Entered /\ Apart' /\ Numbered'
  BY <1>1, <1>3, <1>4, EventsStay DEF EventsInv, Apart
<1>6. \A j : EnteredOf(j)' = EnteredOf(j)
  BY <1>5 DEF EnteredOf
<1>7. FillingOf(k)' = FillingOf(k) \cup {p} /\ p \notin FillingOf(k)
  BY <1>0, <1>1, <1>3 DEF FillingOf
<1>8. \A j \in Kinds : j # k => FillingOf(j)' = FillingOf(j)
  BY <1>0, <1>1, <1>3 DEF FillingOf
<1>9. Cardinality(FillingOf(k)') = Cardinality(FillingOf(k)) + 1
  BY <1>7, PushersCounted, FS_AddElement
<1>10. ASSUME NEW j \in Kinds
       PROVE  typeCount'[j] = Cardinality(EnteredOf(j)') + Cardinality(FillingOf(j)')
  <2>1. typeCount[j] = Cardinality(EnteredOf(j)) + Cardinality(FillingOf(j))
    BY DEF EventsInv, Counters
  <2>2. CASE j = k
    <3>1. typeCount'[j] = typeCount[j] + 1
      BY <1>1, <1>2, <2>2
    <3>2. Cardinality(EnteredOf(j)) \in Nat /\ Cardinality(FillingOf(j)) \in Nat
      BY EventsCounted, PushersCounted DEF EventsInv
    <3> QED BY <1>6, <1>9, <2>1, <2>2, <3>1, <3>2
  <2>3. CASE j # k
    BY <1>1, <1>2, <1>6, <1>8, <2>1, <2>3
  <2> QED BY <2>2, <2>3
<1>11. Counters'
  BY <1>1, <1>3, <1>5, <1>10 DEF EventsInv, Counters
<1> QED BY <1>5, <1>11 DEF EventsInv

(* ... or linked at the end of the list.                                   *)
LEMMA LinkKeepsEvents ==
  ASSUME IInv, EventsInv, NEW p \in Pushers, Link(p)
  PROVE  EventsInv' /\ Chan' = Append(Chan, ev[p]) /\ ev[p] \notin Entered \cup lost
<1>0. PICK e \in Event, k \in Kinds : e = ev[p] /\ k = e.kind
  BY EventKind DEF Link, PusherAt, IInv, TypeOK
<1>1. /\ pc[p] = "locked" /\ pc' = [pc EXCEPT ![p] = "linked"] /\ queue' = Append(queue, e)
      /\ UNCHANGED <<seqNum, lost, flushed, ev, local, received, rpc, generated, typeCount,
                     dropped, delivered>>
  BY <1>0 DEF Link, PusherAt, InsertTail, notPush, dropVars, drainVars
<1>3. /\ Holding' = Holding \ {p} /\ p \in Holding /\ Linking' = Linking \cup {p}
      /\ p \notin Linking /\ Filling' = Filling \ {p} /\ p \in Filling
  BY <1>1 DEF Holding, Linking, Filling, At, IInv, TypeOK
<1>4. Chan' = Append(Chan, e) /\ Arrived' = Append(Arrived, e)
  <2>1. Chan' = Append(Chan, e)
    BY <1>1, EventsTyped, AppendJoined DEF Chan
  <2> QED BY <1>1, <2>1, EventsTyped, AppendJoined DEF Arrived
<1>5. Held' = Held \ {e} /\ e \in Held
  BY <1>0, <1>1, <1>3 DEF Held, EventsInv, Apart
<1>6. e \notin Entered /\ e \notin lost
  BY <1>5 DEF EventsInv, Apart
<1>7. /\ Range(Arrived') = Range(Arrived) \cup {e} /\ IsInjective(Arrived')
      /\ Len(Arrived') = Len(Arrived) + 1 /\ Len(Arrived) \in Nat
  <2>1. e \notin Range(Arrived) /\ IsInjective(Arrived)
    BY <1>6 DEF Entered, EventsInv, Apart
  <2> QED BY <1>4, <2>1, EventsTyped, NewLast, AppendProperties
<1>8. Entered' = Entered \cup {e}
  BY <1>1, <1>7 DEF Entered
<1>9. Apart'
  <2>1. \A q, r \in Holding' : ev'[q] = ev'[r] => q = r
    BY <1>1, <1>3 DEF EventsInv, Apart
  <2>2. e \notin flushed
    BY <1>6 DEF Entered
  <2> QED BY <1>1, <1>5, <1>6, <1>7, <1>8, <2>1, <2>2 DEF EventsInv, Apart
<1>10. Numbered'
  <2>1. Held' \cup Entered' \cup lost' = Held \cup Entered \cup lost
    BY <1>1, <1>5, <1>8
  <2>2. Cardinality(Holding') = Cardinality(Holding) - 1 /\ Cardinality(Holding) \in Nat
    BY <1>3, PushersCounted, FS_RemoveElement
  <2>3. Cardinality(lost) \in Nat /\ Cardinality(flushed) \in Nat
    BY EventsCounted DEF EventsInv
  <2>4. Cardinality(Holding') + Len(Arrived') + Cardinality(lost') + Cardinality(flushed')
          = seqNum'
    <3>1. Cardinality(Holding) + Len(Arrived) + Cardinality(lost) + Cardinality(flushed) = seqNum
      BY DEF EventsInv, Numbered
    <3> QED BY <1>1, <1>7, <2>2, <2>3, <3>1
  <2> QED BY <1>1, <2>1, <2>4 DEF EventsInv, Numbered
<1>11. Counters'
  <2>1. /\ Cardinality(Entered') = Cardinality(Entered) + 1
        /\ Cardinality(Linking') = Cardinality(Linking) + 1
        /\ Cardinality(Entered) \in Nat /\ Cardinality(Linking) \in Nat
    BY <1>3, <1>6, <1>8, PushersCounted, EventsCounted, FS_AddElement DEF EventsInv
  <2>2. generated' + Cardinality(Linking') = Cardinality(Entered')
    BY <1>1, <2>1 DEF EventsInv, Counters, IInv, TypeOK
  <2>3. EnteredOf(k)' = EnteredOf(k) \cup {e} /\ e \notin EnteredOf(k)
    BY <1>0, <1>6, <1>8 DEF EnteredOf
  <2>4. FillingOf(k)' = FillingOf(k) \ {p} /\ p \in FillingOf(k)
    BY <1>0, <1>1, <1>3 DEF FillingOf
  <2>5. \A j \in Kinds : j # k => EnteredOf(j)' = EnteredOf(j) /\ FillingOf(j)' = FillingOf(j)
    BY <1>0, <1>1, <1>3, <1>8 DEF EnteredOf, FillingOf
  <2>6. /\ Cardinality(EnteredOf(k)') = Cardinality(EnteredOf(k)) + 1
        /\ Cardinality(FillingOf(k)') = Cardinality(FillingOf(k)) - 1
        /\ Cardinality(EnteredOf(k)) \in Nat /\ Cardinality(FillingOf(k)) \in Nat
    <3>1. /\ IsFiniteSet(EnteredOf(k)) /\ Cardinality(EnteredOf(k)) \in Nat
          /\ IsFiniteSet(FillingOf(k)) /\ Cardinality(FillingOf(k)) \in Nat
      BY PushersCounted, EventsCounted DEF EventsInv
    <3>2. Cardinality(EnteredOf(k)') = Cardinality(EnteredOf(k)) + 1
      BY <2>3, <3>1, FS_AddElement
    <3>3. Cardinality(FillingOf(k)') = Cardinality(FillingOf(k)) - 1
      BY <2>4, <3>1, FS_RemoveElement
    <3> QED BY <3>1, <3>2, <3>3
  <2>7. ASSUME NEW j \in Kinds
        PROVE  typeCount'[j] = Cardinality(EnteredOf(j)') + Cardinality(FillingOf(j)')
    <3>1. typeCount'[j] = Cardinality(EnteredOf(j)) + Cardinality(FillingOf(j))
      BY <1>1 DEF EventsInv, Counters
    <3>2. CASE j = k
      BY <2>6, <3>1, <3>2
    <3>3. CASE j # k
      BY <2>5, <3>1, <3>3
    <3> QED BY <3>2, <3>3
  <2>8. delivered' = Len(received') /\ dropped' = Cardinality(lost')
    BY <1>1 DEF EventsInv, Counters
  <2> QED BY <2>2, <2>7, <2>8 DEF Counters
<1> QED BY <1>0, <1>4, <1>6, <1>9, <1>10, <1>11 DEF EventsInv

(* The other steps of PushEvent touch no list.                             *)
LEMMA PushKeepsEvents ==
  ASSUME IInv, EventsInv, NEW p \in Pushers, Stamp(p) \/ PushStep(p)
  PROVE  EventsInv'
<1>1. CASE PushAdmit(p) \/ Acquire(p) \/ Count(p) \/ Release(p) \/ Generate(p)
  <2>1. UNCHANGED <<seqNum, lost, flushed, queue, local, received, rpc, typeCount, dropped,
                    delivered>>
    BY <1>1 DEF PushAdmit, Acquire, Count, Release, Generate, notPush, dropVars, drainVars,
                listVars
  <2>2. Holding' = Holding /\ Filling' = Filling /\ \A q \in Holding \cup Filling : ev'[q] = ev[q]
    BY <1>1 DEF PushAdmit, Acquire, Count, Release, Generate, PusherAt, Holding, Filling, At,
                IInv, TypeOK
  <2>3. generated' + Cardinality(Linking') = generated + Cardinality(Linking)
    <3>1. CASE Generate(p)
      <4>1. Linking' = Linking \ {p} /\ p \in Linking /\ generated' = generated + 1
        BY <3>1 DEF Generate, PusherAt, Linking, At, IInv, TypeOK
      <4>2. /\ Cardinality(Linking') = Cardinality(Linking) - 1
            /\ Cardinality(Linking) \in Nat /\ generated \in Nat
        BY <4>1, PushersCounted, FS_RemoveElement DEF IInv, TypeOK
      <4> QED BY <4>1, <4>2
    <3>2. CASE ~Generate(p)
      BY <1>1, <3>2 DEF PushAdmit, Acquire, Count, Release, PusherAt, Linking, At, IInv, TypeOK
    <3> QED BY <3>1, <3>2
  <2>4. Arrived' = Arrived
    BY <2>1 DEF Arrived, Chan
  <2>5. Entered' = Entered /\ Apart' /\ Numbered'
    BY <2>1, <2>2, <2>4, EventsStay DEF EventsInv, Apart
  <2>6. Counters'
    BY <2>1, <2>2, <2>3, <2>5, CountersStay DEF EventsInv, Counters
  <2> QED BY <2>5, <2>6 DEF EventsInv
<1> QED BY <1>1, StampKeepsEvents, DropKeepsEvents, FillKeepsEvents, LinkKeepsEvents DEF PushStep

(* The read moves the oldest entry to the reader's list, or from there to  *)
(* the agent.                                                              *)
LEMMA DrainKeepsEvents ==
  ASSUME IInv, EventsInv, DrainStep
  PROVE  /\ EventsInv'
         /\ \/ UNCHANGED <<Chan, received>>
            \/ /\ Chan # <<>> /\ received' = Append(received, Head(Chan))
               /\ Chan' = Tail(Chan)
<1>1. /\ UNCHANGED <<seqNum, lost, flushed, dropped, pc, ev, generated, typeCount>>
      /\ Holding' = Holding /\ Filling' = Filling /\ Linking' = Linking
  BY DEF DrainStep, StartDrain, MoveEntry, LoadCount, StoreCount, ReleaseDrain, CopyEntry,
         Return, notDrain, pushVars, dropVars, Holding, Filling, Linking, At
<1>2. delivered = Len(received) /\ (rpc = "idle" => local = <<>>)
  BY DEF EventsInv, Apart, Counters
<1>3. queue \in Seq(Event) /\ local \in Seq(Event) /\ received \in Seq(Event) /\ Chan \in Seq(Event)
  BY EventsTyped
<1>4. ASSUME Arrived' = Arrived, delivered' = Len(received'), rpc' = "idle" => local' = <<>>
      PROVE  EventsInv'
  BY <1>1, <1>4, EventsStay, CountersStay DEF EventsInv
<1>5. CASE MoveEntry
  <2>1. /\ queue # <<>> /\ queue' = Tail(queue) /\ local' = Append(local, Head(queue))
        /\ UNCHANGED <<received, delivered>> /\ rpc' = "moving"
    BY <1>5 DEF MoveEntry, HeadFits, RemoveEntry, InsertTail, ReaderAt
  <2>2. Chan' = Chan
    BY <1>3, <2>1, Moved DEF Chan
  <2>3. Arrived' = Arrived
    BY <2>1, <2>2 DEF Arrived
  <2> QED BY <1>2, <1>4, <2>1, <2>2, <2>3
<1>6. CASE CopyEntry
  <2>1. /\ local # <<>> /\ local' = Tail(local) /\ received' = Append(received, Head(local))
        /\ queue' = queue /\ delivered' = delivered + 1 /\ rpc' = "copying"
    BY <1>6 DEF CopyEntry, ReaderAt, listVars
  <2>2. Chan # <<>> /\ Head(Chan) = Head(local) /\ Chan' = Tail(Chan)
    BY <1>3, <2>1, HeadJoined DEF Chan
  <2>3. Arrived' = Arrived
    <3>1. Arrived' = Append(received, Head(Chan)) \o Tail(Chan)
      BY <2>1, <2>2 DEF Arrived
    <3>2. Append(received, Head(Chan)) \o Tail(Chan) = received \o Chan
      BY <1>3, <2>2, Moved
    <3> QED BY <3>1, <3>2 DEF Arrived
  <2>4. delivered' = Len(received')
    <3>1. Head(local) \in Event
      BY <1>3, <2>1, HeadTailProperties
    <3> QED BY <1>2, <1>3, <2>1, <3>1, AppendProperties
  <2> QED BY <1>4, <2>1, <2>2, <2>3, <2>4
<1>7. CASE ~MoveEntry /\ ~CopyEntry
  <2>1. UNCHANGED <<queue, local, received, delivered>> /\ (rpc' = "idle" => local = <<>>)
    BY <1>2, <1>7 DEF DrainStep, StartDrain, LoadCount, StoreCount, ReleaseDrain, Return,
                      ReaderAt, listVars
  <2>2. Chan' = Chan /\ Arrived' = Arrived
    BY <2>1 DEF Chan, Arrived
  <2> QED BY <1>2, <1>4, <2>1, <2>2
<1> QED BY <1>5, <1>6, <1>7

(* The unload frees what is on the list; the reader has nothing left.      *)
LEMMA CleanupKeepsEvents ==
  ASSUME IInv, EventsInv, Cleanup
  PROVE  /\ EventsInv' /\ Chan' = <<>> /\ received' = received /\ lost' = lost
         /\ flushed' = flushed \cup Range(Chan)
<1>1. /\ rpc = "idle" /\ queue' = <<>> /\ flushed' = flushed \cup Range(queue)
      /\ UNCHANGED <<seqNum, lost, dropped, pc, ev, generated, typeCount, local, received,
                     delivered, rpc>>
      /\ Holding' = Holding /\ Filling' = Filling /\ Linking' = Linking
  BY DEF Cleanup, pushVars, dropVars, drainVars, Holding, Filling, Linking, At
<1>2. local = <<>>
  BY <1>1 DEF EventsInv, Apart
<1>3. queue \in Seq(Event) /\ received \in Seq(Event)
  BY EventsTyped
<1>4. Chan = queue /\ Chan' = <<>>
  BY <1>1, <1>2, <1>3, EmptySeq, ConcatEmptySeq DEF Chan
<1>5. Arrived' = received
  BY <1>1, <1>3, <1>4, ConcatEmptySeq DEF Arrived
<1>6. Range(Arrived) = Range(received) \cup Range(queue)
  BY <1>3, <1>4, RangeConcatenation DEF Arrived
<1>7. /\ IsInjective(received) /\ IsInjective(queue)
      /\ Range(received) \cap Range(queue) = {}
  BY <1>3, <1>4, Split DEF Arrived, EventsInv, Apart
<1>8. Held' = Held /\ Entered' = Entered
  BY <1>1, <1>5, <1>6 DEF Held, Entered
<1>9. IsFiniteSet(Range(queue)) /\ Cardinality(Range(queue)) = Len(queue)
  BY <1>3, <1>7, Distinct
<1>10. Range(queue) \cap flushed = {} /\ Range(received) \cap flushed = {}
  BY <1>6 DEF EventsInv, Apart
<1>11. /\ IsFiniteSet(flushed') /\ Cardinality(flushed') = Cardinality(flushed) + Len(queue)
       /\ Cardinality(flushed) \in Nat
  <2>1. IsFiniteSet(flushed) /\ Cardinality(flushed) \in Nat
    BY FS_CardinalityType DEF EventsInv, Apart
  <2>2. flushed \cap Range(queue) = {}
    BY <1>10
  <2>3. /\ IsFiniteSet(flushed \cup Range(queue))
        /\ Cardinality(flushed \cup Range(queue))
             = Cardinality(flushed) + Cardinality(Range(queue)) - Cardinality({})
    BY <1>9, <2>1, <2>2, FS_Union
  <2>4. Len(queue) \in Nat
    BY <1>3, LenProperties
  <2> QED BY <1>1, <1>9, <2>1, <2>3, <2>4, FS_EmptySet
<1>12. Apart'
  <2>1. Range(received) \cap (flushed \cup Range(queue)) = {}
    BY <1>7, <1>10
  <2> QED BY <1>1, <1>2, <1>5, <1>7, <1>8, <1>11, <2>1 DEF EventsInv, Apart
<1>13. Numbered'
  <2>1. Len(Arrived) = Len(received) + Len(queue)
    BY <1>3, <1>4, ConcatProperties DEF Arrived
  <2>2. /\ Len(received) \in Nat /\ Len(queue) \in Nat /\ Cardinality(lost) \in Nat
        /\ Cardinality(Holding) \in Nat
    BY EventsTyped, EventsCounted, PushersCounted DEF EventsInv
  <2>3. Cardinality(Holding) + Len(Arrived) + Cardinality(lost) + Cardinality(flushed) = seqNum
    BY DEF EventsInv, Numbered
  <2>4. Cardinality(Holding') + Len(Arrived') + Cardinality(lost') + Cardinality(flushed')
          = seqNum'
    BY <1>1, <1>5, <1>11, <2>1, <2>2, <2>3
  <2> QED BY <1>1, <1>8, <2>4 DEF EventsInv, Numbered
<1>14. Counters'
  <2>1. delivered' = Len(received')
    BY <1>1 DEF EventsInv, Counters
  <2> QED BY <1>1, <1>8, <2>1, CountersStay DEF EventsInv
<1> QED BY <1>1, <1>4, <1>12, <1>13, <1>14 DEF EventsInv

LEMMA InitEvents == Init => EventsInv
<1> SUFFICES ASSUME Init PROVE EventsInv
  OBVIOUS
<1>1. Holding = {} /\ Linking = {} /\ Filling = {}
  BY DEF Init, Holding, Linking, Filling, At
<1>2. Arrived = <<>> /\ Range(Arrived) = {} /\ Len(Arrived) = 0
  <2>1. Arrived = <<>>
    BY EmptySeq, ConcatEmptySeq DEF Init, Arrived, Chan
  <2> QED BY <2>1 DEF Range
<1>3. Held = {} /\ Entered = {} /\ \A k : EnteredOf(k) = {} /\ FillingOf(k) = {}
  BY <1>1, <1>2 DEF Init, Held, Entered, EnteredOf, FillingOf
<1>4. Cardinality({}) = 0 /\ IsFiniteSet({})
  BY FS_EmptySet
<1>5. Apart
  BY <1>1, <1>2, <1>3, <1>4 DEF Apart, Init, IsInjective
<1>6. Numbered
  BY <1>1, <1>2, <1>3, <1>4 DEF Numbered, Init
<1>7. Counters
  <2>1. \A k : Cardinality(EnteredOf(k)) = 0 /\ Cardinality(FillingOf(k)) = 0
    BY <1>3, <1>4
  <2>2. \A k \in Kinds : typeCount[k] = 0
    BY DEF Init
  <2>3. \A k \in Kinds : typeCount[k] = Cardinality(EnteredOf(k)) + Cardinality(FillingOf(k))
    BY <2>1, <2>2
  <2>4. Cardinality(Linking) = 0 /\ Cardinality(Entered) = 0 /\ Cardinality(lost) = 0
    BY <1>1, <1>3, <1>4 DEF Init
  <2> QED BY <2>3, <2>4 DEF Counters, Init
<1> QED BY <1>5, <1>6, <1>7 DEF EventsInv

LEMMA NextKeepsEvents == IInv /\ EventsInv /\ [Next]_vars => EventsInv'
<1>1. ASSUME IInv, EventsInv, UNCHANGED vars PROVE EventsInv'
  <2>1. /\ UNCHANGED <<seqNum, lost, flushed, dropped, ev, generated, typeCount, local, rpc,
                       received, delivered>>
        /\ Holding' = Holding /\ Filling' = Filling /\ Linking' = Linking /\ Arrived' = Arrived
    BY <1>1 DEF vars, listVars, pushVars, dropVars, drainVars, Holding, Filling, Linking, At,
                Arrived, Chan
  <2>2. Entered' = Entered /\ Apart' /\ Numbered'
    BY <1>1, <2>1, EventsStay DEF EventsInv, Apart
  <2>3. Counters'
    BY <1>1, <2>1, <2>2, CountersStay DEF EventsInv, Counters
  <2> QED BY <2>2, <2>3 DEF EventsInv
<1> QED BY <1>1, PushKeepsEvents, DrainKeepsEvents, CleanupKeepsEvents DEF Next

(* In every reachable state each event is in one place and counted.        *)
LEMMA EventsInvariance == Spec => [](IInv /\ EventsInv)
  BY InitIInv, NextKeepsIInv, InitEvents, NextKeepsEvents, PTL DEF Spec

(* The invariant says of the variables what EveryEventOnce says.           *)
LEMMA EventsInvSuffices == IInv /\ EventsInv => EveryEventOnce
<1> SUFFICES ASSUME IInv, EventsInv PROVE EveryEventOnce
  OBVIOUS
<1> DEFINE Listed == queue \o local \o received
<1>1. queue \in Seq(Event) /\ local \in Seq(Event) /\ received \in Seq(Event) /\ Chan \in Seq(Event)
  BY EventsTyped
<1>2. queue \o local \in Seq(Event) /\ Len(queue \o local) = Len(queue) + Len(local)
  BY <1>1, ConcatProperties
<1>3. /\ Range(Listed) = Range(queue) \cup Range(local) \cup Range(received)
      /\ Len(Listed) = Len(queue) + Len(local) + Len(received)
  <2>1. Range(queue \o local) = Range(queue) \cup Range(local)
    BY <1>1, RangeConcatenation
  <2>2. Range(Listed) = Range(queue \o local) \cup Range(received)
    <3> DEFINE m == queue \o local
    <3>1. m \in Seq(Event) /\ Listed = m \o received
      BY <1>2
    <3> HIDE DEF m, Listed
    <3>2. Range(m \o received) = Range(m) \cup Range(received)
      BY <1>1, <3>1, RangeConcatenation
    <3>3. Range(Listed) = Range(m) \cup Range(received)
      BY <3>1, <3>2
    <3> QED BY <3>3 DEF m
  <2>3. Len(Listed) = Len(queue \o local) + Len(received)
    BY <1>1, <1>2, ConcatProperties
  <2> QED BY <1>2, <2>1, <2>2, <2>3
<1>4. Range(Chan) = Range(local) \cup Range(queue) /\ Len(Chan) = Len(local) + Len(queue)
  BY <1>1, RangeConcatenation, ConcatProperties DEF Chan
<1>5. Range(Arrived) = Range(received) \cup Range(Chan) /\ Len(Arrived) = Len(received) + Len(Chan)
  BY <1>1, RangeConcatenation, ConcatProperties DEF Arrived
<1>6. Range(Listed) = Range(Arrived)
  BY <1>3, <1>4, <1>5
<1>7. Len(Listed) = Len(Arrived)
  <2>1. Len(queue) \in Nat /\ Len(local) \in Nat /\ Len(received) \in Nat
    BY <1>1, LenProperties
  <2> QED BY <1>3, <1>4, <1>5, <2>1
<1> HIDE DEF Listed
<1>8. StatisticsAgree
  <2>1. Range(Listed) \cup flushed = Entered
    BY <1>6 DEF Entered
  <2>2. /\ generated + Cardinality(At({"linked", "counted", "released"})) = Cardinality(Entered)
        /\ delivered = Len(received) /\ dropped = Cardinality(lost)
    BY DEF EventsInv, Counters, Linking
  <2>3. \A k \in Kinds : typeCount[k] =
          Cardinality({e \in Entered : e.kind = k})
          + Cardinality({p \in At({"filled", "locked"}) : ev[p].kind = k})
    BY DEF EventsInv, Counters, EnteredOf, FillingOf, Filling
  <2> QED BY <2>1, <2>2, <2>3 DEF StatisticsAgree, Listed
<1>9. {ev[p] : p \in At({"stamped", "admitted", "filled", "locked"})} = Held
  BY DEF Held, Holding
<1>10. Held \cup Range(Listed) \cup lost \cup flushed = Held \cup Entered \cup lost
  BY <1>6 DEF Entered
<1>11. {e.seq : e \in Held \cup Range(Listed) \cup lost \cup flushed} = 1 .. seqNum
  BY <1>10 DEF EventsInv, Numbered
<1>12. Cardinality(At({"stamped", "admitted", "filled", "locked"})) + Len(Listed)
         + Cardinality(lost) + Cardinality(flushed) = seqNum
  BY <1>7 DEF EventsInv, Numbered, Holding
<1> QED BY <1>8, <1>9, <1>11, <1>12 DEF EveryEventOnce, Listed

(* No event of the driver is leaked, doubled or freed twice, whatever the  *)
(* number of callbacks and the capacity, and the statistics agree with     *)
(* where the events are.                                                   *)
THEOREM EventsKeptOnce == Spec => []EveryEventOnce
  BY EventsInvariance, EventsInvSuffices, PTL

-----------------------------------------------------------------------------
(* An event that PushEvent gives up has not been on a list.                *)
LEMMA DropIsLose ==
  ASSUME IInv, EventsInv, NEW p \in Pushers, PushFull(p) \/ AllocFail(p)
  PROVE  /\ ev[p] \in Event /\ ev[p] \notin Entered \cup lost
         /\ lost' = lost \cup {ev[p]} /\ UNCHANGED <<flushed, Chan, received>>
<1>1. /\ pc[p] \in {"stamped", "admitted"} /\ lost' = lost \cup {ev[p]}
      /\ UNCHANGED <<queue, local, received, flushed>>
  BY DEF PushFull, AllocFail, Drop, PusherAt, listVars, drainVars
<1>2. ev[p] \in Event /\ ev[p] \in Held
  BY <1>1 DEF Held, Holding, At, IInv, TypeOK
<1>3. ev[p] \notin Entered \cup lost
  BY <1>2 DEF EventsInv, Apart
<1> QED BY <1>1, <1>2, <1>3 DEF Chan

(* A step of the queue is a step of the channel, or none.                  *)
LEMMA StepRefines ==
  ASSUME IInv, EventsInv, [Next]_vars
  PROVE  [Channel!Next]_Channel!vars
<1> DEFINE gone == lost \cup flushed
<1>0. Channel!Seen = Entered \cup lost
  <2>1. Chan \in Seq(Event) /\ received \in Seq(Event)
    BY EventsTyped
  <2>2. Range(Arrived) = Range(received) \cup Range(Chan)
    BY <2>1, RangeConcatenation DEF Arrived
  <2>3. Channel!Seen = Range(Chan) \cup Range(received) \cup gone
    BY DEF Channel!Seen, Channel!Range, Range, Chan
  <2>4. Entered = Range(Arrived) \cup flushed
    BY DEF Entered
  <2> QED BY <2>2, <2>3, <2>4
<1>1. ASSUME UNCHANGED <<Chan, received, lost, flushed>> PROVE UNCHANGED Channel!vars
  BY <1>1 DEF Channel!vars, Chan
<1>2. ASSUME NEW p \in Pushers, Stamp(p) \/ PushStep(p) PROVE [Channel!Next]_Channel!vars
  <2>1. CASE Link(p)
    <3>1. /\ Chan' = Append(Chan, ev[p]) /\ ev[p] \notin Channel!Seen
      BY <1>0, <2>1, LinkKeepsEvents
    <3>2. UNCHANGED <<received, lost, flushed>> /\ ev[p] \in Event
      BY <2>1 DEF Link, PusherAt, notPush, dropVars, drainVars, IInv, TypeOK
    <3>3. Channel!Send(ev[p])
      BY <3>1, <3>2 DEF Channel!Send, Chan
    <3> QED BY <3>2, <3>3 DEF Channel!Next
  <2>2. CASE PushFull(p) \/ AllocFail(p)
    <3>1. /\ ev[p] \in Event /\ ev[p] \notin Channel!Seen
          /\ gone' = gone \cup {ev[p]} /\ UNCHANGED <<Chan, received>>
      BY <1>0, <2>2, DropIsLose
    <3>2. Channel!Lose(ev[p])
      BY <3>1 DEF Channel!Lose, Chan
    <3> QED BY <3>1, <3>2 DEF Channel!Next
  <2>3. CASE ~Link(p) /\ ~PushFull(p) /\ ~AllocFail(p)
    <3>1. UNCHANGED <<queue, local, received, lost, flushed>>
      BY <1>2, <2>3 DEF PushStep, Stamp, PushAdmit, Fill, Acquire, Count, Release, Generate,
                        notPush, dropVars, drainVars, listVars
    <3> QED BY <1>1, <3>1 DEF Chan
  <2> QED BY <2>1, <2>2, <2>3
<1>3. CASE DrainStep
  <2>1. UNCHANGED <<lost, flushed>>
    BY <1>3 DEF DrainStep, StartDrain, MoveEntry, LoadCount, StoreCount, ReleaseDrain,
                CopyEntry, Return, notDrain, dropVars
  <2>2. CASE UNCHANGED <<Chan, received>>
    BY <1>1, <2>1, <2>2
  <2>3. CASE /\ Chan # <<>> /\ received' = Append(received, Head(Chan))
             /\ Chan' = Tail(Chan)
    BY <2>1, <2>3 DEF Channel!Next, Channel!Receive, Chan
  <2> QED BY <1>3, <2>2, <2>3, DrainKeepsEvents
<1>4. CASE Cleanup
  <2>1. Chan' = <<>> /\ received' = received /\ gone' = gone \cup Range(Chan)
    <3>1. /\ Chan' = <<>> /\ received' = received /\ lost' = lost
          /\ flushed' = flushed \cup Range(Chan)
      BY <1>4, CleanupKeepsEvents
    <3> QED BY <3>1
  <2>2. Channel!Empty
    BY <2>1 DEF Channel!Empty, Channel!Range, Range, Chan
  <2> QED BY <2>2 DEF Channel!Next
<1>5. CASE UNCHANGED vars
  BY <1>1, <1>5 DEF vars, listVars, dropVars, drainVars, Chan
<1> QED BY <1>2, <1>3, <1>4, <1>5 DEF Next

(* The driver's queue is a lossy channel to the agent: whatever the        *)
(* callbacks, the spinlock and the plain "g_EventCount -=" do, no event    *)
(* arrives twice, after it was dropped or before one linked earlier.       *)
THEOREM ChannelImplemented == Spec => DeliversInOrder
<1>1. Init => Channel!Init
  BY EmptySeq, ConcatEmptySeq DEF Init, Channel!Init
<1>2. IInv /\ EventsInv /\ [Next]_vars => [Channel!Next]_Channel!vars
  BY StepRefines
<1> QED BY <1>1, <1>2, EventsInvariance, PTL DEF Spec, Channel!Spec, DeliversInOrder

=============================================================================

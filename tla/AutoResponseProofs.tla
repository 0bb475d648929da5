------------------------- MODULE AutoResponseProofs --------------------------
(***************************************************************************)
(* Proofs about AutoResponse: with the events under way the process        *)
(* tracker agrees with the system, and an alert from the driver's stream   *)
(* sits on the node of the process that acted, for any ids, queue sizes    *)
(* and sizes of the map, unless an event of that process was lost.         *)
(***************************************************************************)
EXTENDS AutoResponse, FiniteSetTheorems, SequenceTheorems, TLAPS

Process == [id : 0 .. MaxProcesses, image : Images]

(* The agent is process 1 and stays it, ids are given out once, and every  *)
(* event is about a process.                                               *)
Stamped(e) == e.kind # "none" /\ e.id # 0

IdsInv ==
  /\ started # 0 /\ real[Self].id = 1
  /\ \A p \in Pids : Living(p) => real[p].id \in 1 .. started /\ (p # Self => real[p].id # 1)
  /\ \A i \in DOMAIN queue : Stamped(queue[i]) /\ queue[i].kind # "file"
  /\ \A i \in DOMAIN files : Stamped(files[i]) /\ files[i].kind = "file"
  /\ holder # "nobody" => Stamped(cur) /\ (holder = "filter" <=> cur.kind = "file")
  /\ step = "condemned" => cur.pid # Self
  /\ \A p \in Pids : tracker[p] = NoNode \/ tracker[p].id # 0

(* The belief that an id belongs to process b is right, or excused by an   *)
(* event that was lost.                                                    *)
Agrees(b, id, miss) == b \in miss \/ b = id \/ (b = 0 /\ id \in miss)

(* What the last event about p in the queue says agrees; without one, what *)
(* is believed already.                                                    *)
Caught(q, p, belief, id, miss) ==
  /\ \A i \in DOMAIN q : LastLife(q, p, i) => Agrees(Says(q[i]), id, miss)
  /\ (\E i \in DOMAIN q : Life(q[i], p)) => \E i \in DOMAIN q : LastLife(q, p, i)
  /\ (\A i \in DOMAIN q : ~Life(q[i], p)) => Agrees(belief, id, miss)

Belief == [p \in Pids |-> IF step = "received" /\ Life(cur, p) THEN Says(cur)
                          ELSE IF tracker[p].alive THEN tracker[p].id ELSE 0]

CaughtInv == \A p \in Pids : Caught(queue, p, Belief[p], real[p].id, missed)

(* The node of process a is that of process b, or excused; 0 is no node.   *)
Fits(a, b, miss) == a = 0 \/ a = b \/ b \in miss

(* The last creation among the first n events of the queue fits process b; *)
(* without one, the node that is there already.                            *)
Creates(q, p, i) == q[i].kind = "create" /\ q[i].pid = p

Own(q, n, p, owner, b, miss) ==
  /\ \A i \in 1 .. n : Creates(q, p, i) /\ (\A j \in 1 .. n : i < j => ~Creates(q, p, j))
                         => Fits(q[i].id, b, miss)
  /\ (\A i \in 1 .. n : ~Creates(q, p, i)) => Fits(owner, b, miss)

CreationAtHand == step = "received" /\ cur.kind = "create"

Owner == [p \in Pids |-> IF CreationAtHand /\ cur.pid = p THEN cur.id ELSE tracker[p].id]

(* The events in the queue, those that may still come, the event at hand   *)
(* and the alerts fit the nodes they will be, or are, attached to.         *)
QueueFits == \A n \in 1 .. Len(queue) :
  queue[n].kind # "create" =>
    Own(queue, n - 1, queue[n].pid, Owner[queue[n].pid], queue[n].id, missed)

LivingFit == \A p \in Pids :
  Living(p) => Own(queue, Len(queue), p, Owner[p], real[p].id, missed)

AtHandFits == holder = "driver" /\ ~CreationAtHand => Fits(tracker[cur.pid].id, cur.id, missed)

AlertsFit == \A p \in Pids : \A a \in tracker[p].alerts :
  a.kind = "file" \/ Fits(tracker[p].id, a.id, missed)

OwnInv == QueueFits /\ LivingFit /\ AtHandFits /\ AlertsFit

IInv == TypeOK /\ IdsInv /\ CaughtInv /\ OwnInv

-----------------------------------------------------------------------------
(* What an event more or less in the queue does to these.                  *)

LEMMA Appended ==
  ASSUME NEW S, NEW q \in Seq(S), NEW e \in S
  PROVE  LET s == Append(q, e)
         IN /\ s \in Seq(S) /\ Len(s) = Len(q) + 1 /\ Len(q) \in Nat
            /\ DOMAIN q = 1 .. Len(q) /\ DOMAIN s = 1 .. Len(q) + 1
            /\ \A i \in 1 .. Len(q) : s[i] = q[i]
            /\ s[Len(q) + 1] = e
  BY AppendProperties, LenProperties

LEMMA Shifted ==
  ASSUME NEW S, NEW q \in Seq(S), q # <<>>
  PROVE  LET t == Tail(q)
         IN /\ t \in Seq(S) /\ Len(q) = Len(t) + 1 /\ Len(t) \in Nat
            /\ DOMAIN t = 1 .. Len(t) /\ DOMAIN q = 1 .. Len(t) + 1
            /\ \A i \in 1 .. Len(t) : t[i] = q[i + 1]
            /\ Head(q) = q[1] /\ q[1] \in S
  BY HeadTailProperties, LenProperties, EmptySeq

(* The places behind the head are those of the tail.                       *)
LEMMA Places == ASSUME NEW n \in Nat, NEW i \in 1 .. n + 1
                PROVE  i = 1 \/ (i - 1 \in 1 .. n /\ (i - 1) + 1 = i)
  OBVIOUS

LEMMA CaughtMonotone ==
  ASSUME NEW q, NEW p, NEW o, NEW id, NEW miss, NEW id2, NEW miss2,
         Caught(q, p, o, id, miss), \A b : Agrees(b, id, miss) => Agrees(b, id2, miss2)
  PROVE  Caught(q, p, o, id2, miss2)
  BY DEF Caught

LEMMA CaughtAppended ==
  ASSUME NEW S, NEW q \in Seq(S), NEW e \in S, NEW p, NEW o, NEW id, NEW miss,
         IF Life(e, p) THEN Agrees(Says(e), id, miss) ELSE Caught(q, p, o, id, miss)
  PROVE  Caught(Append(q, e), p, o, id, miss)
<1> DEFINE s == Append(q, e)
<1>1. /\ Len(q) \in Nat /\ DOMAIN q = 1 .. Len(q) /\ DOMAIN s = 1 .. Len(q) + 1
      /\ \A i \in 1 .. Len(q) : s[i] = q[i]
      /\ s[Len(q) + 1] = e
  BY Appended
<1> HIDE DEF s
<1>2. Len(q) + 1 \in DOMAIN s /\ \A i \in DOMAIN s : i = Len(q) + 1 \/ i \in DOMAIN q
  BY <1>1
<1>3. \A i \in DOMAIN q : i \in DOMAIN s /\ i < Len(q) + 1 /\ s[i] = q[i]
  BY <1>1
<1>4. CASE Life(e, p)
  <2>1. LastLife(s, p, Len(q) + 1)
    <3>1. \A j \in DOMAIN s : ~(Len(q) + 1 < j)
      BY <1>1
    <3> QED BY <1>1, <1>2, <1>4, <3>1 DEF LastLife
  <2>2. ASSUME NEW i \in DOMAIN s, LastLife(s, p, i) PROVE s[i] = e
    BY <1>1, <1>2, <1>3, <1>4, <2>2 DEF LastLife
  <2> QED BY <1>1, <1>2, <1>4, <2>1, <2>2 DEF Caught, s
<1>5. CASE ~Life(e, p)
  <2>1. Caught(q, p, o, id, miss)
    BY <1>5
  <2>2. \A i \in DOMAIN s : Life(s[i], p) => i \in DOMAIN q /\ Life(q[i], p)
    BY <1>1, <1>2, <1>3, <1>5
  <2>3. \A i \in DOMAIN q : LastLife(q, p, i) => LastLife(s, p, i)
    BY <1>3, <2>2 DEF LastLife
  <2>4. \A i \in DOMAIN s : LastLife(s, p, i) => i \in DOMAIN q /\ LastLife(q, p, i) /\ s[i] = q[i]
    BY <1>3, <2>2 DEF LastLife
  <2>5. \A i \in DOMAIN s : LastLife(s, p, i) => Agrees(Says(s[i]), id, miss)
    BY <2>1, <2>4 DEF Caught
  <2>6. (\E i \in DOMAIN s : Life(s[i], p)) => \E i \in DOMAIN s : LastLife(s, p, i)
    BY <1>3, <2>1, <2>2, <2>3 DEF Caught
  <2>7. (\A i \in DOMAIN s : ~Life(s[i], p)) => Agrees(o, id, miss)
    BY <1>3, <2>1 DEF Caught
  <2> QED BY <2>5, <2>6, <2>7 DEF Caught, s
<1> QED BY <1>4, <1>5

LEMMA CaughtShifted ==
  ASSUME NEW S, NEW q \in Seq(S), q # <<>>, NEW p, NEW o, NEW id, NEW miss,
         Caught(q, p, o, id, miss)
  PROVE  Caught(Tail(q), p, IF Life(Head(q), p) THEN Says(Head(q)) ELSE o, id, miss)
<1> DEFINE t == Tail(q)
           h == Head(q)
<1>1. /\ Len(t) \in Nat /\ DOMAIN t = 1 .. Len(t) /\ DOMAIN q = 1 .. Len(t) + 1
      /\ \A i \in 1 .. Len(t) : t[i] = q[i + 1]
      /\ h = q[1]
  BY Shifted
<1> HIDE DEF t, h
<1>2. \A i \in DOMAIN t : i + 1 \in DOMAIN q /\ t[i] = q[i + 1] /\ 1 < i + 1
  BY <1>1
<1>3. \A i \in DOMAIN q : i = 1 \/ (i - 1 \in DOMAIN t /\ (i - 1) + 1 = i)
  BY <1>1, Places
<1>4. \A i \in DOMAIN q : i # 1 => i - 1 \in DOMAIN t /\ t[i - 1] = q[i]
  <2>1. \A i \in DOMAIN q : i # 1 => t[i - 1] = q[(i - 1) + 1]
    BY <1>1, <1>3
  <2> QED BY <1>3, <2>1
<1>5. ASSUME NEW i \in DOMAIN t, LastLife(t, p, i) PROVE LastLife(q, p, i + 1)
  <2>1. ASSUME NEW j \in DOMAIN q, i + 1 < j PROVE ~Life(q[j], p)
    <3>1. j # 1 /\ i < j - 1
      BY <1>1, <2>1
    <3> QED BY <1>4, <1>5, <3>1 DEF LastLife
  <2> QED BY <1>2, <1>5, <2>1 DEF LastLife
<1>6. \A i \in DOMAIN t : LastLife(t, p, i) => Agrees(Says(t[i]), id, miss)
  BY <1>2, <1>5 DEF Caught
<1>7. ASSUME NEW k \in DOMAIN t, Life(t[k], p) PROVE \E i \in DOMAIN t : LastLife(t, p, i)
  <2>1. Life(q[k + 1], p) /\ k + 1 \in DOMAIN q /\ 1 < k + 1
    BY <1>2, <1>7
  <2>2. PICK n \in DOMAIN q : LastLife(q, p, n)
    BY <2>1 DEF Caught
  <2>3. n # 1
    BY <2>1, <2>2 DEF LastLife
  <2>4. n - 1 \in DOMAIN t /\ t[n - 1] = q[n]
    BY <1>4, <2>3
  <2>5. ASSUME NEW j \in DOMAIN t, n - 1 < j PROVE ~Life(t[j], p)
    <3>1. n < j + 1
      BY <1>1, <2>5
    <3> QED BY <1>2, <2>2, <3>1 DEF LastLife
  <2>6. LastLife(t, p, n - 1)
    BY <2>2, <2>4, <2>5 DEF LastLife
  <2> QED BY <2>4, <2>6
<1>8. ASSUME \A i \in DOMAIN t : ~Life(t[i], p)
      PROVE  Agrees(IF Life(h, p) THEN Says(h) ELSE o, id, miss)
  <2>1. \A i \in DOMAIN q : i # 1 => ~Life(q[i], p)
    BY <1>4, <1>8
  <2>2. 1 \in DOMAIN q /\ \A i \in DOMAIN q : 1 < i => i # 1
    BY <1>1
  <2>3. CASE Life(h, p)
    <3>1. LastLife(q, p, 1)
      BY <1>1, <2>1, <2>2, <2>3 DEF LastLife
    <3> QED BY <1>1, <2>2, <2>3, <3>1 DEF Caught
  <2>4. CASE ~Life(h, p)
    <3>1. \A i \in DOMAIN q : ~Life(q[i], p)
      BY <1>1, <2>1, <2>4
    <3> QED BY <2>4, <3>1 DEF Caught
  <2> QED BY <2>3, <2>4
<1> QED BY <1>6, <1>7, <1>8 DEF Caught, t, h

LEMMA OwnMonotone ==
  ASSUME NEW q, NEW n, NEW p, NEW o, NEW b, NEW miss, NEW o2, NEW miss2,
         Own(q, n, p, o, b, miss), miss \subseteq miss2, o2 \in {0, o}
  PROVE  Own(q, n, p, o2, b, miss2)
<1>1. \A a : Fits(a, b, miss) => Fits(a, b, miss2)
  BY DEF Fits
<1>2. Fits(o, b, miss) => Fits(o2, b, miss2)
  BY DEF Fits
<1> QED BY <1>1, <1>2 DEF Own

LEMMA OwnAppended ==
  ASSUME NEW S, NEW q \in Seq(S), NEW e \in S, NEW p, NEW o, NEW b, NEW miss
  PROVE  /\ \A n \in 0 .. Len(q) : Own(q, n, p, o, b, miss) => Own(Append(q, e), n, p, o, b, miss)
         /\ (IF e.kind = "create" /\ e.pid = p THEN Fits(e.id, b, miss)
                                                ELSE Own(q, Len(q), p, o, b, miss))
              => Own(Append(q, e), Len(q) + 1, p, o, b, miss)
<1> DEFINE s == Append(q, e)
<1>1. /\ Len(q) \in Nat /\ \A i \in 1 .. Len(q) : s[i] = q[i]
      /\ s[Len(q) + 1] = e
  BY Appended
<1> HIDE DEF s
<1>2. ASSUME NEW n \in 0 .. Len(q), Own(q, n, p, o, b, miss) PROVE Own(s, n, p, o, b, miss)
  <2>1. \A i \in 1 .. n : s[i] = q[i]
    BY <1>1
  <2>2. \A i \in 1 .. n : Creates(s, p, i) <=> Creates(q, p, i)
    BY <2>1 DEF Creates
  <2> QED BY <1>2, <2>1, <2>2 DEF Own
<1> DEFINE m == Len(q) + 1
<1>3. /\ m \in 1 .. m /\ \A i \in 1 .. m : i = m \/ i \in 1 .. Len(q)
      /\ \A i \in 1 .. Len(q) : i \in 1 .. m /\ i < m
      /\ \A i \in 1 .. m : ~(m < i)
  BY <1>1
<1>4. s[m] = e /\ (Creates(s, p, m) <=> e.kind = "create" /\ e.pid = p)
  BY <1>1 DEF Creates
<1>5. \A i \in 1 .. Len(q) : s[i] = q[i] /\ (Creates(s, p, i) <=> Creates(q, p, i))
  BY <1>1 DEF Creates
<1> HIDE DEF m
<1>6. ASSUME Creates(s, p, m), Fits(e.id, b, miss) PROVE Own(s, m, p, o, b, miss)
  <2>1. ASSUME NEW i \in 1 .. m, \A j \in 1 .. m : i < j => ~Creates(s, p, j) PROVE i = m
    BY <1>3, <1>6, <2>1
  <2> QED BY <1>3, <1>4, <1>6, <2>1 DEF Own
<1>7. ASSUME ~Creates(s, p, m), Own(q, Len(q), p, o, b, miss) PROVE Own(s, m, p, o, b, miss)
  <2>1. ASSUME NEW i \in 1 .. m, Creates(s, p, i), \A j \in 1 .. m : i < j => ~Creates(s, p, j)
        PROVE  Fits(s[i].id, b, miss)
    <3>1. i \in 1 .. Len(q) /\ Creates(q, p, i) /\ s[i] = q[i]
      BY <1>3, <1>5, <1>7, <2>1
    <3>2. \A j \in 1 .. Len(q) : i < j => ~Creates(q, p, j)
      BY <1>3, <1>5, <2>1
    <3> QED BY <1>7, <3>1, <3>2 DEF Own
  <2>2. ASSUME \A i \in 1 .. m : ~Creates(s, p, i) PROVE Fits(o, b, miss)
    BY <1>3, <1>5, <1>7, <2>2 DEF Own
  <2> QED BY <2>1, <2>2 DEF Own
<1> QED BY <1>2, <1>4, <1>6, <1>7 DEF s, m

LEMMA OwnShifted ==
  ASSUME NEW S, NEW q \in Seq(S), q # <<>>, NEW n \in 0 .. Len(Tail(q)), NEW p, NEW o,
         NEW b, NEW miss, Own(q, n + 1, p, o, b, miss)
  PROVE  Own(Tail(q), n, p, IF Creates(q, p, 1) THEN q[1].id ELSE o, b, miss)
<1> DEFINE t == Tail(q)
<1>1. Len(t) \in Nat /\ \A i \in 1 .. Len(t) : t[i] = q[i + 1]
  BY Shifted
<1> HIDE DEF t
<1>2. n \in 0 .. Len(t)
  BY DEF t
<1>3. \A i \in 1 .. n : i + 1 \in 1 .. n + 1 /\ t[i] = q[i + 1]
  BY <1>1, <1>2
<1>4. \A i \in 1 .. n : Creates(t, p, i) <=> Creates(q, p, i + 1)
  BY <1>3 DEF Creates
<1>5. \A i \in 1 .. n + 1 : i # 1 => i - 1 \in 1 .. n /\ (Creates(t, p, i - 1) <=> Creates(q, p, i))
  <2> SUFFICES ASSUME NEW i \in 1 .. n + 1, i # 1
               PROVE  i - 1 \in 1 .. n /\ (Creates(t, p, i - 1) <=> Creates(q, p, i))
    OBVIOUS
  <2>1. i - 1 \in 1 .. n /\ (i - 1) + 1 = i
    BY <1>1, <1>2
  <2>2. Creates(t, p, i - 1) <=> Creates(q, p, (i - 1) + 1)
    BY <1>4, <2>1
  <2> QED BY <2>1, <2>2
<1>6. ASSUME NEW i \in 1 .. n, Creates(t, p, i), \A j \in 1 .. n : i < j => ~Creates(t, p, j)
      PROVE  Fits(t[i].id, b, miss)
  <2>1. ASSUME NEW j \in 1 .. n + 1, i + 1 < j PROVE ~Creates(q, p, j)
    <3>1. j # 1 /\ i < j - 1
      BY <1>2, <2>1
    <3> QED BY <1>5, <1>6, <3>1
  <2> QED BY <1>3, <1>4, <1>6, <2>1 DEF Own
<1>7. ASSUME \A i \in 1 .. n : ~Creates(t, p, i)
      PROVE  Fits(IF Creates(q, p, 1) THEN q[1].id ELSE o, b, miss)
  <2>1. \A i \in 1 .. n + 1 : i # 1 => ~Creates(q, p, i)
    BY <1>5, <1>7
  <2>2. 1 \in 1 .. n + 1 /\ \A i \in 1 .. n + 1 : 1 < i => i # 1
    BY <1>1, <1>2
  <2>3. CASE Creates(q, p, 1)
    BY <2>1, <2>2, <2>3 DEF Own
  <2>4. CASE ~Creates(q, p, 1)
    BY <2>1, <2>2, <2>4 DEF Own
  <2> QED BY <2>3, <2>4
<1> QED BY <1>6, <1>7 DEF Own, t

-----------------------------------------------------------------------------
USE ResponseAssumption

(* What the invariant's other lemmas start from.                           *)
LEMMA Typed ==
  ASSUME IInv
  PROVE  /\ queue \in Seq(EventType) /\ files \in Seq(EventType) /\ Len(queue) \in Nat
         /\ DOMAIN queue = 1 .. Len(queue) /\ DOMAIN files = 1 .. Len(files)
         /\ \A n \in 1 .. Len(queue) : queue[n] \in EventType /\ queue[n].pid \in Pids
         /\ real \in [Pids -> Process] /\ tracker \in [Pids -> Node]
         /\ cur \in EventType /\ cur.pid \in Pids
         /\ Self \in Pids /\ Process # {}
<1>1. /\ queue \in Seq(EventType) /\ files \in Seq(EventType)
      /\ real \in [Pids -> Process] /\ tracker \in [Pids -> Node] /\ cur \in EventType
  BY DEF IInv, TypeOK, Process
<1>2. \A e \in EventType : e.pid \in Pids
  BY DEF EventType
<1>3. real[Self] \in Process
  BY <1>1
<1> QED BY <1>1, <1>2, <1>3, LenProperties, ElementOfSeq

LEMMA EventTyped ==
  ASSUME NEW kind \in {"none", "create", "exit", "handle", "thread", "file"},
         NEW p \in Pids, NEW x \in Process
  PROVE  /\ Event(kind, p, x) \in EventType /\ Event(kind, p, x).kind = kind
         /\ Event(kind, p, x).pid = p /\ Event(kind, p, x).id = x.id
  BY DEF Event, EventType, Process

LEMMA NothingTyped == NoProcess \in Process /\ NoNode \in Node /\ NoEvent \in EventType
  BY DEF NoProcess, NoNode, NoEvent, Process, Node, EventType, Images

(* A step that touches neither the queue nor the system's processes.       *)
LEMMA Quiet ==
  ASSUME IInv, UNCHANGED <<queue, missed, real>>,
         \A p \in Pids : Belief'[p] = Belief[p] /\ Owner'[p] \in {0, Owner[p]}
  PROVE  CaughtInv' /\ QueueFits' /\ LivingFit'
<1>1. CaughtInv'
  BY DEF IInv, CaughtInv
<1>2. QueueFits'
  <2> SUFFICES ASSUME NEW n \in 1 .. Len(queue), queue[n].kind # "create"
               PROVE  Own(queue, n - 1, queue[n].pid, Owner'[queue'[n].pid], queue[n].id, missed)
    BY DEF QueueFits
  <2> DEFINE p == queue[n].pid
  <2>1. PICK o, o2 : o = Owner[p] /\ o2 = Owner'[queue'[n].pid] /\ o2 \in {0, o}
    BY Typed
  <2>2. Own(queue, n - 1, p, o, queue[n].id, missed)
    BY <2>1 DEF IInv, OwnInv, QueueFits
  <2> QED BY <2>1, <2>2, OwnMonotone
<1>3. LivingFit'
  <2> SUFFICES ASSUME NEW p \in Pids, Living(p)
               PROVE  Own(queue, Len(queue), p, Owner'[p], real[p].id, missed)
    BY DEF LivingFit, Living
  <2>1. Own(queue, Len(queue), p, Owner[p], real[p].id, missed)
    BY DEF IInv, OwnInv, LivingFit
  <2>2. Owner'[p] \in {0, Owner[p]}
    OBVIOUS
  <2> QED BY <2>1, <2>2, OwnMonotone
<1> QED BY <1>1, <1>2, <1>3

(* The driver queues an event about p, or loses it, as a process begins,   *)
(* ends or acts.                                                           *)
LEMMA SendKeeps ==
  ASSUME IInv, NEW p \in Pids, NEW e \in EventType, e.pid = p, Queued(e),
         NEW r \in Process, real' = [real EXCEPT ![p] = r], UNCHANGED <<tracker, cur>>,
         step' = "received" <=> step = "received",
         \/ e.kind = "create" /\ ~Living(p) /\ r.id = e.id
         \/ e.kind = "exit" /\ Living(p) /\ r = NoProcess /\ e.id = real[p].id
         \/ e.kind \in {"handle", "thread"} /\ Living(p) /\ r = real[p] /\ e.id = real[p].id
  PROVE  /\ queue' \in Seq(EventType)
         /\ missed \subseteq missed' /\ missed' \subseteq missed \cup {e.id}
         /\ \A i \in DOMAIN queue' : \/ queue'[i] = e
                                     \/ i \in DOMAIN queue /\ queue'[i] = queue[i]
         /\ CaughtInv' /\ QueueFits' /\ LivingFit' /\ AlertsFit'
<1>1. \A q \in Pids : /\ Belief'[q] = Belief[q] /\ Owner'[q] = Owner[q]
                      /\ Caught(queue, q, Belief[q], real[q].id, missed)
                      /\ Living(q) => Own(queue, Len(queue), q, Owner[q], real[q].id, missed)
  BY DEF Belief, Owner, CreationAtHand, IInv, CaughtInv, OwnInv, LivingFit
<1>2. \A q \in Pids : real'[q] = IF q = p THEN r ELSE real[q]
  BY Typed
<1>3. NoProcess.id = 0
  BY DEF NoProcess
<1>4. missed \subseteq missed' /\ missed' \subseteq missed \cup {e.id}
  BY DEF Queued
<1>5. AlertsFit'
  <2>1. \A a, b : Fits(a, b, missed) => Fits(a, b, missed')
    BY <1>4 DEF Fits
  <2> QED BY <2>1 DEF AlertsFit, IInv, OwnInv
<1>6. queue \in Seq(EventType) /\ Len(queue) \in Nat
  BY Typed
<1>7. \A n \in 1 .. Len(queue) : queue[n].kind # "create" =>
        /\ queue[n].pid \in Pids
        /\ Own(queue, n - 1, queue[n].pid, Owner[queue[n].pid], queue[n].id, missed)
  BY Typed DEF IInv, OwnInv, QueueFits
<1>8. CASE queue' = Append(queue, e) /\ missed' = missed
  <2>1. /\ queue' \in Seq(EventType) /\ Len(queue') = Len(queue) + 1
        /\ DOMAIN queue = 1 .. Len(queue) /\ DOMAIN queue' = 1 .. Len(queue) + 1
        /\ \A i \in 1 .. Len(queue) : queue'[i] = queue[i]
        /\ queue'[Len(queue) + 1] = e
    BY <1>6, <1>8, Appended
  <2>2. \A i \in DOMAIN queue' : i \in DOMAIN queue \/ i = Len(queue) + 1
    BY <1>6, <2>1
  <2>3. \A i \in DOMAIN queue' : queue'[i] = e \/ (i \in DOMAIN queue /\ queue'[i] = queue[i])
    BY <2>1, <2>2
  <2>4. ASSUME NEW q \in Pids PROVE Caught(queue', q, Belief'[q], real'[q].id, missed')
    <3>1. CASE Life(e, q)
      <4>1. q = p /\ Agrees(Says(e), real'[q].id, missed)
        BY <1>2, <1>3, <3>1 DEF Life, Says, Agrees
      <4> QED BY <1>6, <1>8, <3>1, <4>1, CaughtAppended
    <3>2. CASE ~Life(e, q)
      <4>1. real'[q] = real[q]
        BY <1>2, <3>2 DEF Life
      <4> QED BY <1>1, <1>6, <1>8, <3>2, <4>1, CaughtAppended
    <3> QED BY <3>1, <3>2
  <2>5. ASSUME NEW q \in Pids, Living(q)'
        PROVE  Own(queue', Len(queue'), q, Owner'[q], real'[q].id, missed')
    <3>1. CASE e.kind = "create" /\ q = p
      <4>1. Fits(e.id, real'[q].id, missed)
        BY <1>2, <3>1 DEF Fits
      <4> QED BY <1>6, <1>8, <2>1, <3>1, <4>1, OwnAppended
    <3>2. CASE ~(e.kind = "create" /\ q = p)
      <4>1. real'[q] = real[q] /\ Living(q)
        BY <1>2, <2>5, <3>2 DEF Living
      <4>2. Own(queue, Len(queue), q, Owner'[q], real'[q].id, missed)
        BY <1>1, <4>1
      <4> QED BY <1>6, <1>8, <2>1, <3>2, <4>2, OwnAppended
    <3> QED BY <3>1, <3>2
  <2>6. ASSUME NEW n \in 1 .. Len(queue'), queue'[n].kind # "create"
        PROVE  Own(queue', n - 1, queue'[n].pid, Owner'[queue'[n].pid], queue'[n].id, missed')
    <3>1. CASE n = Len(queue) + 1
      <4>1. queue'[n] = e /\ n - 1 = Len(queue) /\ Len(queue) \in 0 .. Len(queue) /\ Living(p)
        BY <1>6, <2>1, <2>6, <3>1
      <4>2. Own(queue, Len(queue), p, Owner[p], e.id, missed)
        BY <1>1, <2>6, <4>1
      <4>3. Own(queue', Len(queue), p, Owner[p], e.id, missed)
        BY <1>6, <1>8, <4>1, <4>2, OwnAppended
      <4> QED BY <1>1, <1>8, <4>1, <4>3
    <3>2. CASE n # Len(queue) + 1
      <4>1. n \in 1 .. Len(queue) /\ queue'[n] = queue[n] /\ n - 1 \in 0 .. Len(queue)
        BY <1>6, <2>1, <3>2
      <4> DEFINE q == queue[n].pid
      <4>2. q \in Pids /\ Own(queue, n - 1, q, Owner[q], queue[n].id, missed)
        BY <1>7, <2>6, <4>1
      <4>3. Own(queue', n - 1, q, Owner[q], queue[n].id, missed)
        BY <1>6, <1>8, <4>1, <4>2, OwnAppended
      <4> QED BY <1>1, <1>8, <4>1, <4>2, <4>3
    <3> QED BY <3>1, <3>2
  <2> QED BY <1>4, <1>5, <2>1, <2>3, <2>4, <2>5, <2>6 DEF CaughtInv, QueueFits, LivingFit
<1>9. CASE queue' = queue /\ missed' = missed \cup {e.id}
  <2>1. ASSUME NEW q \in Pids PROVE Caught(queue', q, Belief'[q], real'[q].id, missed')
    <3>1. \A b : Agrees(b, real[q].id, missed) => Agrees(b, real'[q].id, missed')
      <4>1. CASE q # p
        BY <1>2, <1>9, <4>1 DEF Agrees
      <4>2. CASE q = p
        BY <1>2, <1>3, <1>9, <4>2 DEF Agrees, Living
      <4> QED BY <4>1, <4>2
    <3>2. Caught(queue, q, Belief[q], real[q].id, missed)
      BY <1>1
    <3>3. Caught(queue, q, Belief[q], real'[q].id, missed')
      BY <3>1, <3>2 DEF Caught
    <3> QED BY <1>1, <1>9, <3>3
  <2>2. ASSUME NEW q \in Pids, Living(q)'
        PROVE  Own(queue', Len(queue'), q, Owner'[q], real'[q].id, missed')
    <3>1. CASE e.kind = "create" /\ q = p
      <4>1. \A a : Fits(a, real'[q].id, missed')
        BY <1>2, <1>9, <3>1 DEF Fits
      <4> QED BY <4>1 DEF Own
    <3>2. CASE ~(e.kind = "create" /\ q = p)
      <4>1. real'[q] = real[q] /\ Living(q)
        BY <1>2, <2>2, <3>2 DEF Living
      <4>2. Own(queue, Len(queue), q, Owner[q], real[q].id, missed)
        BY <1>1, <4>1
      <4> QED BY <1>1, <1>4, <1>9, <4>1, <4>2, OwnMonotone
    <3> QED BY <3>1, <3>2
  <2>3. ASSUME NEW n \in 1 .. Len(queue), queue[n].kind # "create"
        PROVE  Own(queue, n - 1, queue[n].pid, Owner[queue[n].pid], queue[n].id, missed')
    BY <1>4, <1>7, <2>3, OwnMonotone
  <2>4. QueueFits'
    BY <1>1, <1>7, <1>9, <2>3 DEF QueueFits
  <2> QED BY <1>4, <1>5, <1>6, <1>9, <2>1, <2>2, <2>4 DEF CaughtInv, LivingFit
<1> QED BY <1>8, <1>9 DEF Queued, PutLast

(* The rest of the invariant when the queue has at most one event more.    *)
LEMMA WorldKeeps ==
  ASSUME IInv, queue' \in Seq(EventType), missed \subseteq missed',
         NEW e \in EventType, Stamped(e), e.kind # "file", missed' \subseteq missed \cup {e.id},
         \A i \in DOMAIN queue' : queue'[i] = e \/ (i \in DOMAIN queue /\ queue'[i] = queue[i]),
         CaughtInv' /\ QueueFits' /\ LivingFit' /\ AlertsFit',
         NEW p \in Pids, NEW r \in Process, real' = [real EXCEPT ![p] = r],
         Living(p)' => r.id \in 1 .. started' /\ (p # Self => r.id # 1),
         p = Self => r.id = 1,
         started' \in {started, started + 1}, started' \in 0 .. MaxProcesses,
         acts' \in 0 .. MaxActs, UNCHANGED <<files, tracker, holder, cur>>,
         step' = step \/ (step = "condemned" /\ step' = "answered"),
         kills' \subseteq kills \cup [by : EventType, hit : [id : Ids \ {1}, image : Images]]
  PROVE  IInv'
<1>1. /\ TypeOK /\ IdsInv /\ MaxProcesses \in Nat /\ started \in Nat
      /\ real \in [Pids -> Process] /\ real' \in [Pids -> Process]
      /\ \A q \in Pids : real'[q] = IF q = p THEN r ELSE real[q]
  BY Typed DEF IInv, TypeOK
<1>2. e.id \in Ids
  BY <1>1 DEF EventType, Stamped, Ids
<1>3. TypeOK'
  <2>1. real' \in [Pids -> [id : 0 .. MaxProcesses, image : Images]]
    BY <1>1 DEF Process
  <2>2. missed' \subseteq Ids
    BY <1>1, <1>2 DEF TypeOK
  <2>3. kills' \subseteq [by : EventType, hit : [id : Ids \ {1}, image : Images]]
    BY <1>1 DEF TypeOK
  <2>4. /\ step' \in {"idle", "received", "tracked", "condemned", "answered"}
        /\ (step' = "idle") = (holder' = "nobody") /\ (cur' = NoEvent) = (holder' = "nobody")
        /\ cur' \in EventType /\ holder' \in {"nobody", "driver", "filter"}
    BY <1>1 DEF TypeOK
  <2>5. tracker' \in [Pids -> Node] /\ files' \in Seq(EventType)
    BY <1>1 DEF TypeOK
  <2> QED BY <2>1, <2>2, <2>3, <2>4, <2>5 DEF TypeOK
<1>4. IdsInv'
  <2>1. started' # 0 /\ real'[Self].id = 1
    BY <1>1 DEF IdsInv
  <2>2. ASSUME NEW q \in Pids, Living(q)'
        PROVE  real'[q].id \in 1 .. started' /\ (q # Self => real'[q].id # 1)
    <3>1. CASE q = p
      BY <1>1, <2>2, <3>1
    <3>2. CASE q # p
      <4>1. real'[q] = real[q] /\ Living(q)
        BY <1>1, <2>2, <3>2 DEF Living
      <4>2. real[q].id \in 1 .. started /\ (q # Self => real[q].id # 1)
        BY <1>1, <4>1 DEF IdsInv
      <4> QED BY <1>1, <4>1, <4>2
    <3> QED BY <3>1, <3>2
  <2>3. \A i \in DOMAIN queue' : Stamped(queue'[i]) /\ queue'[i].kind # "file"
    BY <1>1 DEF IdsInv
  <2>4. /\ \A i \in DOMAIN files' : Stamped(files'[i]) /\ files'[i].kind = "file"
        /\ holder' # "nobody" => Stamped(cur') /\ (holder' = "filter" <=> cur'.kind = "file")
        /\ step' = "condemned" => cur'.pid # Self
        /\ \A q \in Pids : tracker'[q] = NoNode \/ tracker'[q].id # 0
    BY <1>1 DEF IdsInv
  <2> QED BY <2>1, <2>2, <2>3, <2>4 DEF IdsInv
<1>5. AtHandFits'
  <2>1. \A a, b : Fits(a, b, missed) => Fits(a, b, missed')
    BY DEF Fits
  <2> QED BY <2>1 DEF AtHandFits, CreationAtHand, IInv, OwnInv
<1> QED BY <1>3, <1>4, <1>5 DEF IInv, OwnInv

LEMMA CreateKeeps == ASSUME IInv, NEW p \in Pids, Create(p) PROVE IInv'
<1>1. PICK image \in Images :
        /\ real' = [real EXCEPT ![p] = [id |-> started + 1, image |-> image]]
        /\ Queued(Event("create", p, [id |-> started + 1, image |-> image]))
  BY DEF Create
<1>2. /\ ~Living(p) /\ started < MaxProcesses /\ started' = started + 1
      /\ UNCHANGED <<acts, files, tracker, holder, step, cur, kills>>
      /\ started \in Nat /\ MaxProcesses \in Nat /\ started # 0
  BY DEF Create, agent, IInv, TypeOK, IdsInv
<1>3. PICK r \in Process : r = [id |-> started + 1, image |-> image]
  <2>1. started + 1 \in 0 .. MaxProcesses
    BY <1>2
  <2>2. [id |-> started + 1, image |-> image] \in Process
    BY <1>1, <2>1 DEF Process
  <2> QED BY <2>2
<1>4. PICK e \in EventType : /\ e = Event("create", p, r) /\ e.kind = "create" /\ e.pid = p
                             /\ e.id = r.id
  BY EventTyped
<1>5. r.id = started + 1 /\ r.id # 0 /\ r.id # 1 /\ r.id \in 1 .. started'
  BY <1>2, <1>3
<1>6. p # Self
  BY <1>2, NothingTyped DEF Living, IInv, IdsInv, NoProcess
<1>7. real' = [real EXCEPT ![p] = r] /\ Queued(e)
  BY <1>1, <1>3, <1>4
<1>8. Stamped(e) /\ e.kind # "file"
  BY <1>4, <1>5 DEF Stamped
<1>9. /\ queue' \in Seq(EventType)
      /\ missed \subseteq missed' /\ missed' \subseteq missed \cup {e.id}
      /\ \A i \in DOMAIN queue' : queue'[i] = e \/ (i \in DOMAIN queue /\ queue'[i] = queue[i])
      /\ CaughtInv' /\ QueueFits' /\ LivingFit' /\ AlertsFit'
  BY <1>2, <1>4, <1>7, SendKeeps
<1>10. started' \in 0 .. MaxProcesses /\ acts' \in 0 .. MaxActs
  BY <1>2 DEF IInv, TypeOK
<1> QED BY <1>2, <1>5, <1>6, <1>7, <1>8, <1>9, <1>10, WorldKeeps

(* A process that ends: by itself or by a command ...                      *)
LEMMA EndsKeeps ==
  ASSUME IInv, NEW p \in Pids, Living(p), p # Self, Ends(p),
         UNCHANGED <<started, acts, files, tracker, holder, cur>>,
         step' = step \/ (step = "condemned" /\ step' = "answered"),
         kills' \subseteq kills \cup {[by |-> cur, hit |-> real[p]]}
  PROVE  IInv'
<1>1. PICK e \in EventType : /\ e = Event("exit", p, real[p]) /\ e.kind = "exit" /\ e.pid = p
                             /\ e.id = real[p].id
  BY EventTyped, Typed
<1>2. real' = [real EXCEPT ![p] = NoProcess] /\ Queued(e)
  BY <1>1 DEF Ends
<1>3. real[p].id \in 1 .. started /\ real[p].id # 1 /\ started \in 0 .. MaxProcesses
  BY DEF IInv, IdsInv, TypeOK
<1>4. Stamped(e) /\ e.kind # "file"
  BY <1>1, <1>3 DEF Stamped
<1>5. step' = "received" <=> step = "received"
  OBVIOUS
<1>6. /\ queue' \in Seq(EventType)
      /\ missed \subseteq missed' /\ missed' \subseteq missed \cup {e.id}
      /\ \A i \in DOMAIN queue' : queue'[i] = e \/ (i \in DOMAIN queue /\ queue'[i] = queue[i])
      /\ CaughtInv' /\ QueueFits' /\ LivingFit' /\ AlertsFit'
  BY <1>1, <1>2, <1>5, NothingTyped, SendKeeps
<1>7. [by |-> cur, hit |-> real[p]] \in [by : EventType, hit : [id : Ids \ {1}, image : Images]]
  <2>1. real[p] \in Process /\ cur \in EventType
    BY Typed
  <2>2. real[p].id \in Ids \ {1}
    BY <1>3 DEF Ids
  <2>3. real[p] \in [id : Ids \ {1}, image : Images]
    BY <2>1, <2>2 DEF Process
  <2> QED BY <2>1, <2>3
<1>8. ~Living(p)'
  BY <1>2, Typed DEF Living
<1>9. acts' \in 0 .. MaxActs /\ started' \in 0 .. MaxProcesses
  BY DEF IInv, TypeOK
<1> QED BY <1>2, <1>4, <1>6, <1>7, <1>8, <1>9, NothingTyped, WorldKeeps

(* ... or by the automatic response.                                       *)
LEMMA KillKeeps == ASSUME IInv, Kill PROVE IInv'
<1>1. /\ step = "condemned" /\ step' = "answered"
      /\ UNCHANGED <<started, acts, files, tracker, holder, cur>>
      /\ cur.pid \in Pids /\ cur.pid # Self
  BY Typed DEF Kill, At, IInv, IdsInv
<1>2. CASE Living(cur.pid)
  <2>1. Ends(cur.pid) /\ kills' = kills \cup {[by |-> cur, hit |-> real[cur.pid]]}
    BY <1>2 DEF Kill
  <2> QED BY <1>1, <1>2, <2>1, EndsKeeps
<1>3. CASE ~Living(cur.pid)
  <2>1. UNCHANGED <<real, queue, missed, kills>>
    BY <1>3 DEF Kill
  <2>2. Belief' = Belief /\ Owner' = Owner
    BY <1>1 DEF Belief, Owner, CreationAtHand
  <2>3. \A p \in Pids : Owner'[p] \in {0, Owner[p]}
    BY <2>2
  <2>4. CaughtInv' /\ QueueFits' /\ LivingFit'
    BY <2>1, <2>2, <2>3, Quiet
  <2>5. TypeOK'
    BY <1>1, <2>1 DEF IInv, TypeOK
  <2>6. IdsInv'
    BY <1>1, <2>1 DEF IInv, IdsInv, Living
  <2>7. AtHandFits' /\ AlertsFit'
    BY <1>1, <2>1 DEF IInv, OwnInv, AtHandFits, AlertsFit, CreationAtHand
  <2> QED BY <2>4, <2>5, <2>6, <2>7 DEF IInv, OwnInv
<1> QED BY <1>2, <1>3

LEMMA ActKeeps == ASSUME IInv, NEW p \in Pids, NEW kind \in {"handle", "thread"}, Act(p, kind)
                  PROVE IInv'
<1>1. /\ Living(p) /\ acts < MaxActs /\ acts' = acts + 1
      /\ UNCHANGED <<real, started, files, tracker, holder, step, cur, kills>>
      /\ acts \in 0 .. MaxActs /\ MaxActs \in Nat /\ started \in 0 .. MaxProcesses
      /\ real[p].id \in 1 .. started /\ (p # Self => real[p].id # 1) /\ real[Self].id = 1
  BY DEF Act, agent, IInv, TypeOK, IdsInv
<1>2. PICK r \in Process : r = real[p] /\ real' = [real EXCEPT ![p] = r]
  BY <1>1, Typed
<1>3. PICK e \in EventType : /\ e = Event(kind, p, real[p]) /\ e.kind = kind /\ e.pid = p
                             /\ e.id = real[p].id
  BY <1>2, EventTyped
<1>4. Queued(e) /\ Stamped(e) /\ e.kind # "file"
  BY <1>1, <1>3 DEF Act, Stamped
<1>5. /\ queue' \in Seq(EventType)
      /\ missed \subseteq missed' /\ missed' \subseteq missed \cup {e.id}
      /\ \A i \in DOMAIN queue' : queue'[i] = e \/ (i \in DOMAIN queue /\ queue'[i] = queue[i])
      /\ CaughtInv' /\ QueueFits' /\ LivingFit' /\ AlertsFit'
  <2>1. /\ e.kind \in {"handle", "thread"} /\ Living(p) /\ e.id = real[p].id /\ r = real[p]
        /\ e.pid = p
    BY <1>1, <1>2, <1>3
  <2>2. (step' = "received" <=> step = "received") /\ UNCHANGED <<tracker, cur>>
    BY <1>1
  <2>3. Queued(e) /\ real' = [real EXCEPT ![p] = r]
    BY <1>2, <1>4
  <2> QED BY <2>1, <2>2, <2>3, SendKeeps
<1>6. acts' \in 0 .. MaxActs /\ started' \in 0 .. MaxProcesses
  BY <1>1
<1> QED BY <1>1, <1>2, <1>4, <1>5, <1>6, WorldKeeps

LEMMA OpenHiveKeeps == ASSUME IInv, NEW p \in Pids, OpenHive(p) PROVE IInv'
<1>1. /\ Living(p) /\ acts < MaxActs /\ acts' = acts + 1
      /\ UNCHANGED <<real, started, queue, missed, tracker, holder, step, cur, kills>>
      /\ acts \in 0 .. MaxActs /\ MaxActs \in Nat /\ real[p].id \in 1 .. started
      /\ started \in 0 .. MaxProcesses
  BY DEF OpenHive, agent, IInv, TypeOK, IdsInv
<1>2. PICK e \in EventType : e = Event("file", p, real[p]) /\ e.kind = "file" /\ e.id = real[p].id
  BY EventTyped, Typed
<1>3. files' = Append(files, e) /\ Stamped(e)
  BY <1>1, <1>2 DEF OpenHive, Stamped
<1>4. /\ files' \in Seq(EventType)
      /\ \A i \in DOMAIN files' : files'[i] = e \/ (i \in DOMAIN files /\ files'[i] = files[i])
  <2>1. /\ Len(files) \in Nat /\ DOMAIN files = 1 .. Len(files)
        /\ DOMAIN files' = 1 .. Len(files) + 1 /\ files' \in Seq(EventType)
        /\ \A i \in 1 .. Len(files) : files'[i] = files[i]
        /\ files'[Len(files) + 1] = e
    BY <1>3, Typed, Appended
  <2>2. \A i \in DOMAIN files' : i \in DOMAIN files \/ i = Len(files) + 1
    BY <2>1
  <2> QED BY <2>1, <2>2
<1>5. Belief' = Belief /\ Owner' = Owner
  BY <1>1 DEF Belief, Owner, CreationAtHand
<1>6. CaughtInv' /\ QueueFits' /\ LivingFit'
  <2>1. \A q \in Pids : Owner'[q] \in {0, Owner[q]}
    BY <1>5
  <2> QED BY <1>1, <1>5, <2>1, Quiet
<1>7. TypeOK'
  BY <1>1, <1>4 DEF IInv, TypeOK
<1>8. IdsInv'
  <2>1. \A i \in DOMAIN files' : Stamped(files'[i]) /\ files'[i].kind = "file"
    BY <1>2, <1>3, <1>4 DEF IInv, IdsInv
  <2> QED BY <1>1, <2>1 DEF IInv, IdsInv, Living
<1>9. AtHandFits' /\ AlertsFit'
  BY <1>1 DEF IInv, OwnInv, AtHandFits, AlertsFit, CreationAtHand
<1> QED BY <1>6, <1>7, <1>8, <1>9 DEF IInv, OwnInv

(* The oldest event of the driver's stream comes to hand: what it will do  *)
(* to the tracker is known, and what is behind it has moved up.            *)
LEMMA ReceiveDriverKeeps == ASSUME IInv, ReceiveDriver PROVE IInv'
<1> DEFINE h == Head(queue)
<1>1. /\ step = "idle" /\ step' = "received" /\ queue # <<>>
      /\ holder' = "driver" /\ cur' = h /\ queue' = Tail(queue)
      /\ UNCHANGED <<real, started, acts, files, missed, tracker, kills>>
  BY DEF ReceiveDriver, At, world
<1>2. /\ queue \in Seq(EventType) /\ queue' \in Seq(EventType)
      /\ Len(queue) = Len(queue') + 1 /\ Len(queue') \in Nat
      /\ DOMAIN queue' = 1 .. Len(queue') /\ DOMAIN queue = 1 .. Len(queue') + 1
      /\ \A i \in 1 .. Len(queue') : queue'[i] = queue[i + 1]
      /\ h = queue[1] /\ h \in EventType
  BY <1>1, Typed, Shifted
<1> HIDE DEF h
<1>3. 1 \in DOMAIN queue /\ \A i \in DOMAIN queue' : i + 1 \in DOMAIN queue
  BY <1>2
<1>4. h.pid \in Pids /\ Stamped(h) /\ h.kind # "file" /\ h # NoEvent
  <2>1. h.pid \in Pids
    BY <1>2 DEF EventType
  <2>2. Stamped(h) /\ h.kind # "file"
    BY <1>2, <1>3 DEF IInv, IdsInv
  <2> QED BY <2>1, <2>2 DEF Stamped, NoEvent
<1>5. \A p \in Pids : /\ Belief'[p] = IF Life(h, p) THEN Says(h) ELSE Belief[p]
                      /\ Owner[p] = tracker[p].id
                      /\ Owner'[p] = IF Creates(queue, p, 1) THEN queue[1].id ELSE Owner[p]
  BY <1>1, <1>2 DEF Belief, Owner, CreationAtHand, Creates
<1>6. CaughtInv'
  <2>1. ASSUME NEW p \in Pids PROVE Caught(queue', p, Belief'[p], real[p].id, missed)
    <3>1. Caught(queue, p, Belief[p], real[p].id, missed)
      BY DEF IInv, CaughtInv
    <3>2. Caught(queue', p, IF Life(h, p) THEN Says(h) ELSE Belief[p], real[p].id, missed)
      BY <1>1, <1>2, <3>1, CaughtShifted DEF h
    <3> QED BY <1>5, <3>2
  <2> QED BY <1>1, <2>1 DEF CaughtInv
<1>7. ASSUME NEW p \in Pids, NEW b, NEW n \in 0 .. Len(queue'),
             Own(queue, n + 1, p, Owner[p], b, missed)
      PROVE  Own(queue', n, p, Owner'[p], b, missed)
  <2>1. Own(queue', n, p, IF Creates(queue, p, 1) THEN queue[1].id ELSE Owner[p], b, missed)
    BY <1>1, <1>2, <1>7, OwnShifted
  <2> QED BY <1>5, <2>1
<1>8. QueueFits'
  <2> SUFFICES ASSUME NEW n \in 1 .. Len(queue'), queue'[n].kind # "create"
               PROVE  Own(queue', n - 1, queue'[n].pid, Owner'[queue'[n].pid], queue'[n].id, missed)
    BY <1>1 DEF QueueFits
  <2>1. /\ n + 1 \in 1 .. Len(queue) /\ queue'[n] = queue[n + 1] /\ (n + 1) - 1 = (n - 1) + 1
        /\ n - 1 \in 0 .. Len(queue')
    BY <1>2
  <2>2. PICK p \in Pids : p = queue[n + 1].pid
    BY <2>1, Typed
  <2>3. Own(queue, (n - 1) + 1, p, Owner[p], queue[n + 1].id, missed)
    BY <2>1, <2>2 DEF IInv, OwnInv, QueueFits
  <2> QED BY <1>7, <2>1, <2>2, <2>3
<1>9. LivingFit'
  <2> SUFFICES ASSUME NEW p \in Pids, Living(p)
               PROVE  Own(queue', Len(queue'), p, Owner'[p], real[p].id, missed)
    BY <1>1 DEF LivingFit, Living
  <2>1. Own(queue, Len(queue') + 1, p, Owner[p], real[p].id, missed)
    BY <1>2 DEF IInv, OwnInv, LivingFit
  <2>2. Len(queue') \in 0 .. Len(queue')
    BY <1>2
  <2> QED BY <1>7, <2>1, <2>2
<1>10. AtHandFits'
  <2> SUFFICES ASSUME h.kind # "create" PROVE Fits(tracker[h.pid].id, h.id, missed)
    BY <1>1 DEF AtHandFits, CreationAtHand
  <2>1. 1 \in 1 .. Len(queue) /\ 1 - 1 = 0
    BY <1>2
  <2>2. Own(queue, 0, h.pid, Owner[h.pid], h.id, missed)
    BY <1>2, <2>1 DEF IInv, OwnInv, QueueFits
  <2>3. Fits(Owner[h.pid], h.id, missed)
    BY <2>2 DEF Own
  <2> QED BY <1>4, <1>5, <2>3
<1>11. AlertsFit'
  BY <1>1 DEF IInv, OwnInv, AlertsFit
<1>12. TypeOK'
  BY <1>1, <1>2, <1>4 DEF IInv, TypeOK
<1>13. IdsInv'
  <2>1. \A i \in DOMAIN queue' : Stamped(queue'[i]) /\ queue'[i].kind # "file"
    BY <1>2, <1>3 DEF IInv, IdsInv
  <2> QED BY <1>1, <1>4, <2>1 DEF IInv, IdsInv, Living
<1> QED BY <1>6, <1>8, <1>9, <1>10, <1>11, <1>12, <1>13 DEF IInv, OwnInv

(* The oldest of the minifilter's stream; it says nothing of a life.       *)
LEMMA ReceiveFileKeeps == ASSUME IInv, ReceiveFile PROVE IInv'
<1> DEFINE h == Head(files)
<1>1. /\ step = "idle" /\ step' = "received" /\ files # <<>>
      /\ holder' = "filter" /\ cur' = h /\ files' = Tail(files)
      /\ UNCHANGED <<real, started, acts, queue, missed, tracker, kills>>
  BY DEF ReceiveFile, At, world
<1>2. /\ files' \in Seq(EventType) /\ Len(files') \in Nat
      /\ DOMAIN files' = 1 .. Len(files') /\ DOMAIN files = 1 .. Len(files') + 1
      /\ \A i \in 1 .. Len(files') : files'[i] = files[i + 1]
      /\ h = files[1] /\ h \in EventType
  BY <1>1, Typed, Shifted
<1> HIDE DEF h
<1>3. 1 \in DOMAIN files /\ \A i \in DOMAIN files' : i + 1 \in DOMAIN files
  BY <1>2
<1>4. Stamped(h) /\ h.kind = "file" /\ h # NoEvent
  BY <1>2, <1>3 DEF IInv, IdsInv, Stamped, NoEvent
<1>5. Belief' = Belief /\ Owner' = Owner
  BY <1>1, <1>4 DEF Belief, Owner, CreationAtHand, Life
<1>6. CaughtInv' /\ QueueFits' /\ LivingFit'
  <2>1. \A q \in Pids : Owner'[q] \in {0, Owner[q]}
    BY <1>5
  <2> QED BY <1>1, <1>5, <2>1, Quiet
<1>7. TypeOK'
  BY <1>1, <1>2, <1>4 DEF IInv, TypeOK
<1>8. IdsInv'
  <2>1. \A i \in DOMAIN files' : Stamped(files'[i]) /\ files'[i].kind = "file"
    BY <1>2, <1>3 DEF IInv, IdsInv
  <2> QED BY <1>1, <1>4, <2>1 DEF IInv, IdsInv, Living
<1>9. AtHandFits' /\ AlertsFit'
  BY <1>1 DEF IInv, OwnInv, AtHandFits, AlertsFit
<1> QED BY <1>6, <1>7, <1>8, <1>9 DEF IInv, OwnInv

(* The tracker takes note of the event; a node it evicts was of a process  *)
(* that has ended.                                                         *)
LEMMA TrackKeeps == ASSUME IInv, Track PROVE IInv'
<1>1. /\ step = "received" /\ step' = "tracked"
      /\ UNCHANGED <<real, started, acts, queue, files, missed, holder, cur, kills>>
  BY DEF Track, At, world
<1>2. /\ tracker \in [Pids -> Node] /\ cur \in EventType /\ cur.pid \in Pids
      /\ cur.image \in Images /\ cur.id \in 0 .. MaxProcesses /\ Stamped(cur)
  <2>1. tracker \in [Pids -> Node] /\ cur \in EventType /\ cur.pid \in Pids
    BY Typed
  <2>2. holder # "nobody"
    BY <1>1 DEF IInv, TypeOK
  <2> QED BY <2>1, <2>2 DEF EventType, IInv, IdsInv
<1>3. /\ Evicted \in [Pids -> Node]
      /\ \A p \in Pids : Evicted[p] = tracker[p] \/ (~tracker[p].alive /\ Evicted[p] = NoNode)
  BY <1>2, NothingTyped DEF Evicted, EvictDead
<1>4. NoNode.id = 0 /\ ~NoNode.alive /\ NoNode.alerts = {}
  BY DEF NoNode
<1>5. /\ tracker' \in [Pids -> Node]
      /\ \A p \in Pids : p # cur.pid =>
           tracker'[p] = tracker[p] \/ (~tracker[p].alive /\ tracker'[p] = NoNode)
      /\ cur.kind = "create" => /\ tracker'[cur.pid].id = cur.id /\ tracker'[cur.pid].alive
                                /\ tracker'[cur.pid].alerts = {}
      /\ cur.kind = "exit" => /\ ~tracker'[cur.pid].alive
                              /\ tracker'[cur.pid].id = tracker[cur.pid].id
                              /\ tracker'[cur.pid].alerts = tracker[cur.pid].alerts
                              /\ tracker[cur.pid] = NoNode => tracker'[cur.pid] = NoNode
      /\ cur.kind \notin {"create", "exit"} => tracker' = tracker
  <2>1. CASE cur.kind = "create"
    <3>1. PICK n \in Node : n = [id |-> cur.id, image |-> cur.image, alive |-> TRUE, alerts |-> {}]
      BY <1>2 DEF Node
    <3>2. tracker' = [Evicted EXCEPT ![cur.pid] = n]
      BY <2>1, <3>1 DEF Track, OnProcessCreate
    <3> QED BY <1>2, <1>3, <2>1, <3>1, <3>2
  <2>2. CASE cur.kind = "exit"
    <3>1. CASE tracker[cur.pid] = NoNode
      <4>1. tracker' = tracker
        BY <2>2, <3>1 DEF Track, OnProcessTerminate
      <4> QED BY <1>2, <1>4, <2>2, <3>1, <4>1
    <3>2. CASE tracker[cur.pid] # NoNode
      <4>1. tracker' = [tracker EXCEPT ![cur.pid].alive = FALSE]
        BY <2>2, <3>2 DEF Track, OnProcessTerminate
      <4>2. tracker[cur.pid] \in Node
        BY <1>2
      <4>3. PICK n \in Node : n = [tracker[cur.pid] EXCEPT !.alive = FALSE]
        BY <4>2 DEF Node
      <4>4. /\ tracker' = [tracker EXCEPT ![cur.pid] = n] /\ n.id = tracker[cur.pid].id
            /\ n.alerts = tracker[cur.pid].alerts /\ ~n.alive
        BY <4>1, <4>2, <4>3 DEF Node
      <4> QED BY <1>2, <2>2, <3>2, <4>3, <4>4
    <3> QED BY <3>1, <3>2
  <2>3. CASE cur.kind \notin {"create", "exit"}
    BY <1>2, <2>3 DEF Track
  <2> QED BY <2>1, <2>2, <2>3
<1>6. \A p \in Pids : Belief'[p] = Belief[p] /\ Owner'[p] \in {0, Owner[p]}
  <2> SUFFICES ASSUME NEW p \in Pids PROVE Belief'[p] = Belief[p] /\ Owner'[p] \in {0, Owner[p]}
    OBVIOUS
  <2>1. /\ Belief'[p] = IF tracker'[p].alive THEN tracker'[p].id ELSE 0
        /\ Owner'[p] = tracker'[p].id
    BY <1>1 DEF Belief, Owner, CreationAtHand
  <2>2. /\ Belief[p] = IF Life(cur, p) THEN Says(cur)
                       ELSE IF tracker[p].alive THEN tracker[p].id ELSE 0
        /\ Owner[p] = IF cur.kind = "create" /\ cur.pid = p THEN cur.id ELSE tracker[p].id
    BY <1>1 DEF Belief, Owner, CreationAtHand
  <2>3. CASE p # cur.pid
    BY <1>4, <1>5, <2>1, <2>2, <2>3 DEF Life
  <2>4. CASE p = cur.pid
    BY <1>5, <2>1, <2>2, <2>4 DEF Life, Says
  <2> QED BY <2>3, <2>4
<1>7. CaughtInv' /\ QueueFits' /\ LivingFit'
  BY <1>1, <1>6, Quiet
<1>8. TypeOK'
  BY <1>1, <1>5 DEF IInv, TypeOK
<1>9. IdsInv'
  <2>1. \A p \in Pids : tracker'[p] = NoNode \/ tracker'[p].id # 0
    BY <1>2, <1>5 DEF IInv, IdsInv, Stamped
  <2> QED BY <1>1, <2>1 DEF IInv, IdsInv, Living
<1>10. AtHandFits'
  <2> SUFFICES ASSUME holder = "driver" PROVE Fits(tracker'[cur.pid].id, cur.id, missed)
    BY <1>1 DEF AtHandFits
  <2>1. CASE cur.kind = "create"
    BY <1>5, <2>1 DEF Fits
  <2>2. CASE cur.kind # "create"
    <3>1. tracker'[cur.pid].id = tracker[cur.pid].id
      BY <1>5, <2>2
    <3> QED BY <2>2, <3>1 DEF IInv, OwnInv, AtHandFits, CreationAtHand
  <2> QED BY <2>1, <2>2
<1>11. AlertsFit'
  <2> SUFFICES ASSUME NEW p \in Pids, NEW a \in tracker'[p].alerts
               PROVE  a.kind = "file" \/ Fits(tracker'[p].id, a.id, missed)
    BY <1>1 DEF AlertsFit
  <2>1. tracker'[p].alerts = tracker[p].alerts /\ tracker'[p].id = tracker[p].id
    BY <1>4, <1>5
  <2> QED BY <2>1 DEF IInv, OwnInv, AlertsFit
<1> QED BY <1>7, <1>8, <1>9, <1>10, <1>11 DEF IInv, OwnInv

(* The verdict; a process it condemns is not the agent.                    *)
LEMMA AnalyzeKeeps == ASSUME IInv, Analyze PROVE IInv'
<1>1. /\ step = "tracked" /\ UNCHANGED <<real, started, acts, queue, files, missed, tracker, kills>>
      /\ \/ /\ step' = "answered" /\ UNCHANGED <<holder, cur>>
         \/ /\ step' = "condemned" /\ UNCHANGED <<holder, cur>> /\ cur.pid # Self
         \/ Released
  BY DEF Analyze, world, Safe
<1>2. step' # "received"
  BY <1>1 DEF Released
<1>3. Belief' = Belief /\ Owner' = Owner
  BY <1>1, <1>2 DEF Belief, Owner, CreationAtHand
<1>4. CaughtInv' /\ QueueFits' /\ LivingFit'
  <2>1. \A q \in Pids : Owner'[q] \in {0, Owner[q]}
    BY <1>3
  <2> QED BY <1>1, <1>3, <2>1, Quiet
<1>5. TypeOK'
  <2>1. /\ step' \in {"idle", "received", "tracked", "condemned", "answered"}
        /\ (step' = "idle") = (holder' = "nobody") /\ (cur' = NoEvent) = (holder' = "nobody")
        /\ cur' \in EventType /\ holder' \in {"nobody", "driver", "filter"}
    BY <1>1, NothingTyped DEF IInv, TypeOK, Released
  <2> QED BY <1>1, <2>1 DEF IInv, TypeOK
<1>6. IdsInv'
  <2>1. /\ holder' # "nobody" => Stamped(cur') /\ (holder' = "filter" <=> cur'.kind = "file")
        /\ step' = "condemned" => cur'.pid # Self
    BY <1>1 DEF IInv, IdsInv, Released
  <2> QED BY <1>1, <2>1 DEF IInv, IdsInv, Living
<1>7. AtHandFits' /\ AlertsFit'
  BY <1>1 DEF IInv, OwnInv, AtHandFits, AlertsFit, CreationAtHand, Released
<1> QED BY <1>4, <1>5, <1>6, <1>7 DEF IInv, OwnInv

(* The alert goes to the node that the event found.                        *)
LEMMA AlertKeeps == ASSUME IInv, Alert PROVE IInv'
<1>1. /\ step = "answered" /\ step' = "idle" /\ holder' = "nobody" /\ cur' = NoEvent
      /\ UNCHANGED <<real, started, acts, queue, files, missed, kills>>
  BY DEF Alert, Released, world
<1>2. /\ tracker \in [Pids -> Node] /\ cur \in EventType /\ cur.pid \in Pids
      /\ holder \in {"driver", "filter"} /\ (holder = "filter" => cur.kind = "file")
  <2>1. holder \in {"nobody", "driver", "filter"} /\ holder # "nobody"
    BY <1>1 DEF IInv, TypeOK
  <2> QED BY <2>1, Typed DEF IInv, IdsInv
<1>3. /\ tracker' \in [Pids -> Node]
      /\ \A p \in Pids : /\ tracker'[p].id = tracker[p].id /\ tracker'[p].alive = tracker[p].alive
                         /\ tracker'[p].alerts \subseteq
                              tracker[p].alerts \cup (IF p = cur.pid THEN {cur} ELSE {})
                         /\ tracker[p] = NoNode => tracker'[p] = NoNode
  <2>1. CASE tracker[cur.pid] = NoNode
    <3>1. tracker' = tracker
      BY <2>1 DEF Alert
    <3> QED BY <1>2, <3>1
  <2>2. CASE tracker[cur.pid] # NoNode
    <3>1. tracker' = [tracker EXCEPT ![cur.pid].alerts = @ \cup {cur}]
      BY <2>2 DEF Alert
    <3>2. tracker[cur.pid] \in Node
      BY <1>2
    <3>3. tracker[cur.pid].alerts \cup {cur} \in SUBSET EventType
      BY <1>2, <3>2 DEF Node
    <3>4. PICK n \in Node : n =
          [tracker[cur.pid] EXCEPT !.alerts = tracker[cur.pid].alerts \cup {cur}]
      BY <3>2, <3>3 DEF Node
    <3>5. /\ tracker' = [tracker EXCEPT ![cur.pid] = n] /\ n.id = tracker[cur.pid].id
          /\ n.alive = tracker[cur.pid].alive /\ n.alerts = tracker[cur.pid].alerts \cup {cur}
      BY <3>1, <3>2, <3>4 DEF Node
    <3> QED BY <1>2, <2>2, <3>4, <3>5
  <2> QED BY <2>1, <2>2
<1>4. Belief' = Belief /\ Owner' = Owner
  BY <1>1, <1>3 DEF Belief, Owner, CreationAtHand
<1>5. CaughtInv' /\ QueueFits' /\ LivingFit'
  <2>1. \A q \in Pids : Owner'[q] \in {0, Owner[q]}
    BY <1>4
  <2> QED BY <1>1, <1>4, <2>1, Quiet
<1>6. TypeOK'
  BY <1>1, <1>3, NothingTyped DEF IInv, TypeOK
<1>7. IdsInv'
  <2>1. \A p \in Pids : tracker'[p] = NoNode \/ tracker'[p].id # 0
    BY <1>3 DEF IInv, IdsInv
  <2> QED BY <1>1, <2>1 DEF IInv, IdsInv, Living
<1>8. AtHandFits'
  BY <1>1 DEF AtHandFits
<1>9. AlertsFit'
  <2> SUFFICES ASSUME NEW p \in Pids, NEW a \in tracker'[p].alerts
               PROVE  a.kind = "file" \/ Fits(tracker[p].id, a.id, missed)
    BY <1>1, <1>3 DEF AlertsFit
  <2>1. CASE a \in tracker[p].alerts
    BY <2>1 DEF IInv, OwnInv, AlertsFit
  <2>2. CASE a \notin tracker[p].alerts
    <3>1. p = cur.pid /\ a = cur
      BY <1>3, <2>2
    <3> QED BY <1>1, <1>2, <3>1 DEF IInv, OwnInv, AtHandFits, CreationAtHand
  <2> QED BY <2>1, <2>2
<1> QED BY <1>5, <1>6, <1>7, <1>8, <1>9 DEF IInv, OwnInv

-----------------------------------------------------------------------------
LEMMA OldestFew == /\ Cardinality(Old) \in Nat /\ MaxProcesses \in Nat
                   /\ Oldest \subseteq Ids /\ 1 + Cardinality(Old) \in 1 .. MaxProcesses
                   /\ \A i \in Oldest : i \in 2 .. 1 + Cardinality(Old) /\ i \in 0 .. MaxProcesses
<1>1. Cardinality(Old) \in Nat
  BY FS_Subset, FS_CardinalityType
<1> QED BY <1>1 DEF Oldest, Ids

(* Who runs at first: the agent, and those the tracker missed.             *)
LEMMA FirstProcesses ==
  ASSUME Init
  PROVE  /\ real \in [Pids -> Process] /\ real[Self] = [id |-> 1, image |-> "tool"]
         /\ \A p \in Pids \ {Self} : real[p] = NoProcess \/ real[p].id \in Oldest
<1>1. PICK id \in [Old -> Oldest], image \in [Old -> Images] :
        real = [p \in Pids |-> CASE p = Self -> [id |-> 1, image |-> "tool"]
                                 [] p \in Old -> [id |-> id[p], image |-> image[p]]
                                 [] OTHER -> NoProcess]
  BY DEF Init
<1>2. Self \in Pids /\ Self \notin Old
  OBVIOUS
<1>3. real[Self] = [id |-> 1, image |-> "tool"]
  BY <1>1, <1>2
<1>4. [id |-> 1, image |-> "tool"] \in Process
  BY OldestFew DEF Process, Images
<1>5. ASSUME NEW p \in Pids \ {Self}
      PROVE  real[p] \in Process /\ (real[p] = NoProcess \/ real[p].id \in Oldest)
  <2>1. CASE p \in Old
    <3>1. real[p] = [id |-> id[p], image |-> image[p]]
      BY <1>1, <2>1
    <3>2. id[p] \in Oldest /\ image[p] \in Images
      BY <1>1, <2>1
    <3>3. id[p] \in 0 .. MaxProcesses
      BY <3>2, OldestFew
    <3> QED BY <3>1, <3>2, <3>3 DEF Process
  <2>2. CASE p \notin Old
    <3>1. real[p] = NoProcess
      BY <1>1, <2>2
    <3> QED BY <3>1, NothingTyped
  <2> QED BY <2>1, <2>2
<1>6. \A p \in Pids : real[p] \in Process
  BY <1>3, <1>4, <1>5
<1>7. real \in [Pids -> Process]
  BY <1>1, <1>6
<1> QED BY <1>3, <1>5, <1>7

LEMMA InitIInv == Init => IInv
<1> SUFFICES ASSUME Init PROVE IInv
  OBVIOUS
<1>1. /\ started = 1 + Cardinality(Old) /\ acts = 0 /\ files = <<>> /\ missed = Oldest
      /\ tracker = [p \in Pids |-> NoNode] /\ holder = "nobody" /\ step = "idle"
      /\ cur = NoEvent /\ kills = {}
  BY DEF Init
<1>2. /\ real \in [Pids -> Process] /\ real[Self] = [id |-> 1, image |-> "tool"]
      /\ \A p \in Pids \ {Self} : real[p] = NoProcess \/ real[p].id \in Oldest
      /\ Self \in Pids
  BY FirstProcesses
<1>3. PICK e \in EventType : /\ e = Event("create", Self, real[Self]) /\ e.kind = "create"
                             /\ e.pid = Self /\ e.id = 1
  <2>1. real[Self] \in Process /\ real[Self].id = 1
    BY <1>2
  <2> QED BY <1>2, <2>1, EventTyped
<1>4. queue = <<e>>
  BY <1>3 DEF Init
<1>5. queue \in Seq(EventType) /\ Len(queue) = 1 /\ DOMAIN queue = 1 .. 1 /\ queue[1] = e
  BY <1>4
<1>6. \A i \in DOMAIN queue : i = 1 /\ queue[i] = e
  BY <1>5
<1>7. \A p \in Pids : tracker[p] = NoNode
  BY <1>1
<1>8. NoNode.id = 0 /\ NoNode.alerts = {} /\ NoNode.alive = FALSE /\ NoProcess.id = 0
  BY DEF NoNode, NoProcess
<1>9. TypeOK
  <2>1. real \in [Pids -> [id : 0 .. MaxProcesses, image : Images]]
    BY <1>2 DEF Process
  <2>2. started \in 0 .. MaxProcesses /\ acts \in 0 .. MaxActs /\ missed \subseteq Ids
    BY <1>1, OldestFew
  <2>3. tracker \in [Pids -> Node] /\ cur \in EventType /\ files \in Seq(EventType)
    BY <1>1, NothingTyped
  <2>4. kills \subseteq [by : EventType, hit : [id : Ids \ {1}, image : Images]]
    BY <1>1
  <2>5. /\ holder \in {"nobody", "driver", "filter"}
        /\ step \in {"idle", "received", "tracked", "condemned", "answered"}
        /\ (step = "idle") = (holder = "nobody") /\ (cur = NoEvent) = (holder = "nobody")
    BY <1>1
  <2> QED BY <1>5, <2>1, <2>2, <2>3, <2>4, <2>5 DEF TypeOK
<1>10. IdsInv
  <2>1. started # 0 /\ real[Self].id = 1
    BY <1>1, <1>2, OldestFew
  <2>2. ASSUME NEW p \in Pids, Living(p)
        PROVE  real[p].id \in 1 .. started /\ (p # Self => real[p].id # 1)
    <3>1. CASE p = Self
      BY <1>1, <1>2, <3>1, OldestFew
    <3>2. CASE p # Self
      <4>1. real[p].id \in 2 .. 1 + Cardinality(Old)
        BY <1>2, <2>2, <3>2, OldestFew DEF Living
      <4> QED BY <1>1, <3>2, <4>1, OldestFew
    <3> QED BY <3>1, <3>2
  <2>3. \A i \in DOMAIN queue : Stamped(queue[i]) /\ queue[i].kind # "file"
    BY <1>3, <1>6 DEF Stamped
  <2>4. \A i \in DOMAIN files : Stamped(files[i]) /\ files[i].kind = "file"
    <3>1. DOMAIN files = {}
      BY <1>1
    <3> QED BY <3>1
  <2>5. /\ holder # "nobody" => Stamped(cur) /\ (holder = "filter" <=> cur.kind = "file")
        /\ step = "condemned" => cur.pid # Self
        /\ \A p \in Pids : tracker[p] = NoNode \/ tracker[p].id # 0
    BY <1>1, <1>7
  <2> QED BY <2>1, <2>2, <2>3, <2>4, <2>5 DEF IdsInv
<1>11. ASSUME NEW p \in Pids
       PROVE  /\ Caught(queue, p, Belief[p], real[p].id, missed)
              /\ Living(p) => Own(queue, Len(queue), p, Owner[p], real[p].id, missed)
  <2>1. Belief[p] = 0 /\ Owner[p] = 0
    BY <1>1, <1>7, <1>8 DEF Belief, Owner, CreationAtHand
  <2>2. CASE p = Self
    <3>1. real[p].id = 1
      BY <1>2, <2>2
    <3>2. Life(e, p) /\ Says(e) = 1
      BY <1>3, <2>2 DEF Life, Says
    <3>3. 1 \in DOMAIN queue /\ \A j \in DOMAIN queue : ~(1 < j)
      BY <1>5
    <3>4. LastLife(queue, p, 1)
      BY <1>5, <3>2, <3>3 DEF LastLife
    <3>5. Caught(queue, p, Belief[p], real[p].id, missed)
      BY <1>6, <3>1, <3>2, <3>3, <3>4 DEF Caught, Agrees
    <3>6. Own(queue, Len(queue), p, Owner[p], real[p].id, missed)
      <4>1. \A i \in 1 .. Len(queue) : queue[i].id = 1
        BY <1>3, <1>5, <1>6
      <4> QED BY <2>1, <3>1, <4>1 DEF Own, Fits
    <3> QED BY <3>5, <3>6
  <2>3. CASE p # Self
    <3>1. real[p].id = 0 \/ real[p].id \in missed
      BY <1>1, <1>2, <1>8, <2>3
    <3>2. \A i \in DOMAIN queue : ~Life(queue[i], p)
      BY <1>3, <1>6, <2>3 DEF Life
    <3>3. Caught(queue, p, Belief[p], real[p].id, missed)
      BY <2>1, <3>1, <3>2 DEF Caught, Agrees, LastLife
    <3>4. \A i \in 1 .. Len(queue) : ~Creates(queue, p, i)
      BY <1>3, <1>5, <1>6, <2>3 DEF Creates
    <3> QED BY <2>1, <3>3, <3>4 DEF Own, Fits
  <2> QED BY <2>2, <2>3
<1>12. QueueFits
  BY <1>3, <1>5, <1>6 DEF QueueFits
<1>13. AtHandFits /\ AlertsFit
  BY <1>1, <1>7, <1>8 DEF AtHandFits, AlertsFit
<1> QED BY <1>9, <1>10, <1>11, <1>12, <1>13 DEF IInv, CaughtInv, OwnInv, LivingFit

LEMMA NextKeepsIInv == IInv /\ [Next]_vars => IInv'
<1> SUFFICES ASSUME IInv, [Next]_vars PROVE IInv'
  OBVIOUS
<1>1. ASSUME NEW p \in Pids, Exit(p) \/ CommandKill(p) PROVE IInv'
  <2>1. /\ Living(p) /\ p # Self /\ Ends(p)
        /\ UNCHANGED <<started, acts, files, tracker, holder, step, cur, kills>>
    BY <1>1 DEF Exit, CommandKill, agent
  <2> QED BY <2>1, EndsKeeps
<1>2. CASE System
  BY <1>1, <1>2, CreateKeeps, OpenHiveKeeps, ActKeeps DEF System
<1>3. CASE Dispatch
  BY <1>3, TrackKeeps, AnalyzeKeeps, KillKeeps, AlertKeeps DEF Dispatch
<1>4. CASE UNCHANGED vars
  <2>1. UNCHANGED <<real, started, acts, queue, files, missed, tracker, holder, step, cur, kills>>
    BY <1>4 DEF vars, world, agent
  <2>2. Belief' = Belief /\ Owner' = Owner
    BY <2>1 DEF Belief, Owner, CreationAtHand
  <2>3. TypeOK' /\ IdsInv'
    BY <2>1 DEF IInv, TypeOK, IdsInv, Living
  <2>4. CaughtInv' /\ QueueFits' /\ LivingFit'
    <3>1. \A p \in Pids : Owner'[p] \in {0, Owner[p]}
      BY <2>2
    <3> QED BY <2>1, <2>2, <3>1, Quiet
  <2>5. AtHandFits' /\ AlertsFit'
    BY <2>1 DEF IInv, OwnInv, AtHandFits, AlertsFit, CreationAtHand
  <2> QED BY <2>3, <2>4, <2>5 DEF IInv, OwnInv
<1> QED BY <1>2, <1>3, <1>4, ReceiveDriverKeeps, ReceiveFileKeeps DEF Next

(* The streams, the tracker and the alerts stay consistent with the        *)
(* system's processes at every step of the processes, of the two streams,  *)
(* of the rules and of the response.                                       *)
THEOREM Inductive == Spec => []IInv
  BY InitIInv, NextKeepsIInv, PTL DEF Spec

(* Every variable has its type, the callback mutex is held exactly while   *)
(* an event is dispatched, and no kill has ever hit the agent itself, for  *)
(* any ids, any numbers of processes and acts and any capacities.          *)
THEOREM TypeCorrect == Spec => []TypeOK
<1>1. IInv => TypeOK
  BY DEF IInv
<1> QED BY <1>1, Inductive, PTL

(* OnKernelEvent keeps the process map up to date: once the events under   *)
(* way are handled, the map agrees with the system about every process no  *)
(* event of which was lost, however ids are reused and dead nodes evicted. *)
THEOREM TrackerAgrees == Spec => []TrackerCatchesUp
<1>1. ASSUME IInv, NEW p \in Pids, Believed(p) # real[p].id
      PROVE  {Believed(p), real[p].id} \cap missed # {}
  <2> DEFINE id == real[p].id
  <2>1. Caught(queue, p, Belief[p], id, missed)
    BY <1>1 DEF IInv, CaughtInv
  <2>2. Agrees(Believed(p), id, missed)
    <3>1. CASE \E i \in DOMAIN queue : Life(queue[i], p)
      <4>1. \E i \in DOMAIN queue : LastLife(queue, p, i)
        BY <2>1, <3>1 DEF Caught
      <4>2. PICK i \in DOMAIN queue : /\ i = CHOOSE j \in DOMAIN queue : LastLife(queue, p, j)
                                      /\ LastLife(queue, p, i)
        BY <4>1
      <4>3. Believed(p) = Says(queue[i])
        BY <3>1, <4>2 DEF Believed
      <4> QED BY <2>1, <4>2, <4>3 DEF Caught
    <3>2. CASE ~\E i \in DOMAIN queue : Life(queue[i], p)
      <4>1. Believed(p) = Belief[p]
        BY <3>2 DEF Believed, Belief
      <4> QED BY <2>1, <3>2, <4>1 DEF Caught
    <3> QED BY <3>1, <3>2
  <2> QED BY <1>1, <2>2 DEF Agrees
<1>2. IInv => TrackerCatchesUp
  BY <1>1 DEF TrackerCatchesUp
<1> QED BY <1>2, Inductive, PTL

-----------------------------------------------------------------------------
(* The kills.  Ids are given out in order, each with one image, which all  *)
(* that speak of the id agree upon; and a process that is condemned for an *)
(* act of the driver's stream has been judged by its own image.            *)

Face(x) == [id |-> x.id, image |-> x.image]

Events == Range(queue) \cup Range(files) \cup {cur}

Faces == {Face(e) : e \in Events} \cup {Face(tracker[p]) : p \in Pids}
           \cup {real[p] : p \in Pids} \cup {NoProcess}

FacesInv == \A a, b \in Faces : a.id <= started /\ (a.id = b.id => a.image = b.image)

AgeInv == \A e \in Events : Living(e.pid) => e.id <= real[e.pid].id

CondemnedInv == step = "condemned" /\ cur.kind # "file" /\ cur.image = "critical"
                  => cur.id \in missed

KillInv == FacesInv /\ AgeInv /\ CondemnedInv /\ KillsAreOwn

LEMMA RangeIs == ASSUME NEW S, NEW s \in Seq(S)
                 PROVE  Range(s) = {s[i] : i \in DOMAIN s} /\ Range(s) \subseteq S
  BY ElementOfSeq, LenProperties DEF Range

LEMMA FacesTyped ==
  ASSUME IInv
  PROVE  Events \subseteq EventType /\ Faces \subseteq Process /\ \A a \in Faces : a.id \in Nat
<1>1. Events \subseteq EventType
  BY Typed, RangeIs DEF Events
<1>2. \A e \in EventType : Face(e) \in Process
  BY DEF Face, EventType, Process
<1>3. \A n \in Node : Face(n) \in Process
  BY DEF Face, Node, Process
<1>4. \A p \in Pids : real[p] \in Process /\ tracker[p] \in Node
  BY Typed
<1>5. Faces \subseteq Process
  BY <1>1, <1>2, <1>3, <1>4, NothingTyped DEF Faces
<1>6. \A x \in Process : x.id \in Nat
  BY DEF Process
<1> QED BY <1>1, <1>5, <1>6

(* A step that brings no new face, and no event of a process that is older *)
(* than the one that has its id.                                           *)
LEMMA NoNewFace ==
  ASSUME FacesInv, Faces' \subseteq Faces, started' = started PROVE FacesInv'
  BY DEF FacesInv

(* The agent's own steps: they work on what they have.                     *)
LEMMA AgentKeepsKills ==
  ASSUME IInv, KillInv, UNCHANGED <<real, started, missed, kills>>,
         Events' \subseteq Events \cup {NoEvent},
         \A p \in Pids : Face(tracker[p])' \in Faces
  PROVE  FacesInv' /\ AgeInv' /\ KillsAreOwn'
<1>1. Face(NoEvent) = NoProcess /\ NoEvent.id = 0
  BY DEF Face, NoEvent, NoProcess
<1>2. Faces' \subseteq Faces
  <2>1. \A e \in Events' : Face(e) \in Faces
    BY <1>1 DEF Faces
  <2>2. \A p \in Pids : real'[p] \in Faces
    BY DEF Faces
  <2>3. NoProcess \in Faces
    BY DEF Faces
  <2>4. Faces' = {Face(e) : e \in Events'} \cup {Face(tracker'[p]) : p \in Pids}
                   \cup {real'[p] : p \in Pids} \cup {NoProcess}
    BY DEF Faces
  <2>5. \A p \in Pids : Face(tracker'[p]) \in Faces
    BY DEF Face
  <2> QED BY <2>1, <2>2, <2>3, <2>4, <2>5
<1>3. FacesInv'
  BY <1>2, NoNewFace DEF KillInv
<1>4. AgeInv'
  <2> SUFFICES ASSUME NEW e \in Events', real[e.pid] # NoProcess PROVE e.id <= real[e.pid].id
    BY DEF AgeInv, Living
  <2>1. CASE e \in Events
    BY <2>1 DEF KillInv, AgeInv, Living
  <2>2. CASE e = NoEvent
    <3>1. e.pid = Self /\ Self \in Pids
      BY <2>2, Typed DEF NoEvent
    <3>2. real[Self] \in Faces
      BY <3>1 DEF Faces
    <3>3. real[Self].id \in Nat
      BY <3>2, FacesTyped
    <3> QED BY <1>1, <2>2, <3>1, <3>3
  <2> QED BY <2>1, <2>2
<1>5. KillsAreOwn'
  BY DEF KillInv, KillsAreOwn
<1> QED BY <1>3, <1>4, <1>5

(* A process begins, ends or acts, and an event of it comes, or is lost.   *)
LEMMA WorldKeepsKills ==
  ASSUME IInv, KillInv, NEW p \in Pids, NEW r \in Process, NEW e,
         real' = [real EXCEPT ![p] = r], UNCHANGED <<tracker, cur>>,
         Events' \subseteq Events \cup {e}, e.pid = p, missed \subseteq missed',
         \/ /\ started' = started + 1 /\ ~Living(p) /\ r.id = started + 1 /\ Face(e) = r
         \/ /\ started' = started /\ Face(e) = real[p] /\ r \in {real[p], NoProcess}
  PROVE  FacesInv' /\ AgeInv'
<1>1. \A q \in Pids : real'[q] = IF q = p THEN r ELSE real[q]
  BY Typed
<1>2. started \in Nat /\ started' \in Nat /\ e.id = Face(e).id
  BY DEF IInv, TypeOK, Face
<1>3. Faces' \subseteq Faces \cup {r, Face(e), NoProcess}
  <2>1. \A x \in Events' : Face(x) \in Faces \cup {r, Face(e), NoProcess}
    BY DEF Faces
  <2>2. \A q \in Pids : /\ Face(tracker[q]) \in Faces
                        /\ real'[q] \in Faces \cup {r, Face(e), NoProcess}
    BY <1>1 DEF Faces
  <2> QED BY <2>1, <2>2 DEF Faces, Face
<1>4. \A q \in Pids : real[q] \in Faces
  BY DEF Faces
<1>5. NoProcess \in Faces /\ Faces \subseteq Process /\ \A a \in Faces : a.id \in Nat
  BY FacesTyped DEF Faces
<1>6. \A x \in Events : Face(x) \in Faces /\ x.id = Face(x).id /\ x.id <= started /\ x.pid \in Pids
  <2>1. \A x \in Events : Face(x) \in Faces /\ x.id = Face(x).id
    BY DEF Faces, Face
  <2>2. \A x \in EventType : x.pid \in Pids
    BY DEF EventType
  <2> QED BY <2>1, <2>2, FacesTyped DEF KillInv, FacesInv
<1>7. \A x \in Events : x.id \in Nat
  BY <1>5, <1>6
<1>8. CASE started' = started + 1 /\ ~Living(p) /\ r.id = started + 1 /\ Face(e) = r
  <2>1. \A a \in Faces : a.id < started + 1
    BY <1>2, <1>5 DEF KillInv, FacesInv
  <2>2. Faces' \subseteq Faces \cup {r}
    BY <1>3, <1>5, <1>8
  <2>3. FacesInv'
    <3> SUFFICES ASSUME NEW a \in Faces', NEW b \in Faces'
                 PROVE  a.id <= started' /\ (a.id = b.id => a.image = b.image)
      BY DEF FacesInv
    <3>1. \A c \in Faces : c.id <= started' /\ c.id # r.id
      BY <1>2, <1>5, <1>8, <2>1
    <3>2. r.id <= started'
      BY <1>2, <1>8
    <3>3. a.id <= started'
      BY <2>2, <3>1, <3>2
    <3>4. a.id = b.id => a.image = b.image
      BY <2>2, <3>1 DEF KillInv, FacesInv
    <3> QED BY <3>3, <3>4
  <2>4. AgeInv'
    <3> SUFFICES ASSUME NEW x \in Events', Living(x.pid)' PROVE x.id <= real'[x.pid].id
      BY DEF AgeInv, Living
    <3>1. CASE x = e
      <4>1. real'[x.pid] = r /\ x.id = r.id
        BY <1>1, <1>2, <1>8, <3>1
      <4> QED BY <1>2, <1>8, <4>1
    <3>2. CASE x \in Events /\ x.pid = p
      <4>1. real'[x.pid] = r /\ x.id <= started /\ x.id \in Nat
        BY <1>1, <1>6, <1>7, <3>2
      <4> QED BY <1>2, <1>8, <4>1
    <3>3. CASE x \in Events /\ x.pid # p
      <4>1. real'[x.pid] = real[x.pid]
        BY <1>1, <1>6, <3>3
      <4> QED BY <3>3, <4>1 DEF KillInv, AgeInv, Living
    <3> QED BY <3>1, <3>2, <3>3
  <2> QED BY <2>3, <2>4
<1>9. CASE started' = started /\ Face(e) = real[p] /\ r \in {real[p], NoProcess}
  <2>1. Faces' \subseteq Faces
    BY <1>3, <1>4, <1>5, <1>9
  <2>2. FacesInv'
    BY <1>9, <2>1, NoNewFace DEF KillInv
  <2>3. AgeInv'
    <3> SUFFICES ASSUME NEW x \in Events', Living(x.pid)' PROVE x.id <= real'[x.pid].id
      BY DEF AgeInv, Living
    <3>1. x.pid \in Pids /\ real'[x.pid] # NoProcess
      BY <1>6 DEF Living
    <3>2. real'[x.pid] = real[x.pid]
      BY <1>1, <1>9, <3>1
    <3>3. CASE x = e
      <4>1. x.id = real[p].id /\ real[p].id \in Nat
        BY <1>2, <1>4, <1>5, <1>9, <3>3
      <4> QED BY <3>2, <3>3, <4>1
    <3>4. CASE x \in Events
      BY <3>1, <3>2, <3>4 DEF KillInv, AgeInv, Living
    <3> QED BY <3>3, <3>4
  <2> QED BY <2>2, <2>3
<1> QED BY <1>8, <1>9

(* What Queued may do to the events.                                       *)
LEMMA QueuedEvents ==
  ASSUME IInv, NEW e \in EventType, Queued(e), UNCHANGED <<files, cur>>
  PROVE  Events' \subseteq Events \cup {e} /\ missed \subseteq missed'
<1>1. CASE queue' = Append(queue, e) /\ missed' = missed
  <2>1. /\ queue' \in Seq(EventType) /\ Len(queue) \in Nat
        /\ DOMAIN queue = 1 .. Len(queue) /\ DOMAIN queue' = 1 .. Len(queue) + 1
        /\ \A i \in 1 .. Len(queue) : queue'[i] = queue[i]
        /\ queue'[Len(queue) + 1] = e
    BY <1>1, Typed, Appended
  <2>2. \A i \in DOMAIN queue' : i \in DOMAIN queue \/ i = Len(queue) + 1
    BY <2>1
  <2>3. \A i \in DOMAIN queue' : queue'[i] = e \/ queue'[i] \in Range(queue)
    BY <2>1, <2>2 DEF Range
  <2>4. Range(queue') \subseteq Range(queue) \cup {e}
    BY <2>1, <2>3, RangeIs
  <2> QED BY <1>1, <2>4 DEF Events
<1>2. CASE queue' = queue /\ missed' = missed \cup {e.id}
  BY <1>2 DEF Events
<1> QED BY <1>1, <1>2 DEF Queued, PutLast

LEMMA CreateKeepsKills ==
  ASSUME IInv, KillInv, NEW p \in Pids, Create(p) PROVE KillInv'
<1>1. PICK image \in Images :
        /\ real' = [real EXCEPT ![p] = [id |-> started + 1, image |-> image]]
        /\ Queued(Event("create", p, [id |-> started + 1, image |-> image]))
  BY DEF Create
<1>2. /\ ~Living(p) /\ started' = started + 1 /\ started + 1 \in 0 .. MaxProcesses
      /\ UNCHANGED <<files, tracker, step, cur, kills>>
  BY DEF Create, agent, IInv, TypeOK
<1>3. PICK r \in Process : r = [id |-> started + 1, image |-> image]
  BY <1>1, <1>2 DEF Process
<1>4. PICK e \in EventType : e = Event("create", p, r)
  BY EventTyped
<1>5. Face(e) = r /\ e.pid = p
  BY <1>3, <1>4 DEF Face, Event
<1>6. Queued(e)
  BY <1>1, <1>3, <1>4
<1>7. Events' \subseteq Events \cup {e} /\ missed \subseteq missed'
  BY <1>2, <1>6, QueuedEvents
<1>8. real' = [real EXCEPT ![p] = r] /\ r.id = started + 1
  BY <1>1, <1>3
<1>9. FacesInv' /\ AgeInv'
  BY <1>2, <1>5, <1>7, <1>8, WorldKeepsKills
<1> QED BY <1>2, <1>7, <1>9 DEF KillInv, CondemnedInv, KillsAreOwn

LEMMA EndsKeepsFaces ==
  ASSUME IInv, KillInv, NEW p \in Pids, Ends(p), UNCHANGED <<started, files, tracker, cur>>
  PROVE  FacesInv' /\ AgeInv' /\ missed \subseteq missed'
<1>1. PICK e \in EventType : e = Event("exit", p, real[p])
  BY EventTyped, Typed
<1>2. real' = [real EXCEPT ![p] = NoProcess] /\ Queued(e)
  BY <1>1 DEF Ends
<1>3. real[p] \in Process /\ real[p] = [id |-> real[p].id, image |-> real[p].image]
  BY Typed DEF Process
<1>4. Face(e) = real[p] /\ e.pid = p
  BY <1>1, <1>3 DEF Face, Event
<1>5. Events' \subseteq Events \cup {e} /\ missed \subseteq missed'
  BY <1>2, QueuedEvents
<1> QED BY <1>2, <1>4, <1>5, NothingTyped, WorldKeepsKills

(* The kill: who is hit has the id of who acted, now.                      *)
LEMMA KillKeepsKills == ASSUME IInv, KillInv, Kill PROVE KillInv'
<1>1. /\ step = "condemned" /\ step' = "answered"
      /\ UNCHANGED <<started, files, tracker, cur>> /\ cur.pid \in Pids
  BY Typed DEF Kill, At
<1>2. CondemnedInv'
  BY <1>1 DEF CondemnedInv
<1>3. CASE Living(cur.pid)
  <2>1. Ends(cur.pid) /\ kills' = kills \cup {[by |-> cur, hit |-> real[cur.pid]]}
    BY <1>3 DEF Kill
  <2>2. FacesInv' /\ AgeInv' /\ missed \subseteq missed'
    BY <1>1, <2>1, EndsKeepsFaces
  <2>3. PICK r : r = real[cur.pid]
    OBVIOUS
  <2>4. cur.id <= r.id
    BY <1>3, <2>3 DEF KillInv, AgeInv, Events
  <2>5. cur.id = r.id => cur.image = r.image
    <3>1. r \in Faces /\ Face(cur) \in Faces
      BY <1>1, <2>3 DEF Faces, Events
    <3>2. Face(cur).id = cur.id /\ Face(cur).image = cur.image
      BY DEF Face
    <3> QED BY <3>1, <3>2 DEF KillInv, FacesInv
  <2>6. (cur.kind # "file" /\ r.image = "critical" /\ cur.id = r.id) => cur.id \in missed'
    BY <1>1, <2>2, <2>5 DEF KillInv, CondemnedInv
  <2>7. KillsAreOwn'
    <3> SUFFICES ASSUME NEW k \in kills'
                 PROVE  /\ k.by.id <= k.hit.id
                        /\ (k.by.kind # "file" /\ k.hit.image = "critical" /\ k.by.id = k.hit.id)
                             => k.by.id \in missed'
      BY DEF KillsAreOwn
    <3>1. CASE k \in kills
      BY <2>2, <3>1 DEF KillInv, KillsAreOwn
    <3>2. CASE k = [by |-> cur, hit |-> r]
      BY <2>4, <2>6, <3>2
    <3> QED BY <2>1, <2>3, <3>1, <3>2
  <2> QED BY <1>2, <2>2, <2>7 DEF KillInv
<1>4. CASE ~Living(cur.pid)
  <2>1. UNCHANGED <<real, started, queue, files, missed, tracker, cur, kills>>
    BY <1>1, <1>4 DEF Kill
  <2> QED BY <1>2, <2>1 DEF KillInv, FacesInv, AgeInv, KillsAreOwn, Faces, Events, Living
<1> QED BY <1>3, <1>4

LEMMA ActKeepsKills ==
  ASSUME IInv, KillInv, NEW p \in Pids, NEW kind \in {"handle", "thread"}, Act(p, kind)
  PROVE  KillInv'
<1>1. UNCHANGED <<real, started, files, tracker, step, cur, kills>>
  BY DEF Act, agent
<1>2. PICK r \in Process : /\ r = real[p] /\ real' = [real EXCEPT ![p] = r]
                           /\ r = [id |-> r.id, image |-> r.image]
  BY <1>1, Typed DEF Process
<1>3. PICK e \in EventType : e = Event(kind, p, r)
  BY EventTyped
<1>4. Face(e) = r /\ e.pid = p /\ Queued(e)
  BY <1>2, <1>3 DEF Face, Event, Act
<1>5. Events' \subseteq Events \cup {e} /\ missed \subseteq missed'
  BY <1>1, <1>4, QueuedEvents
<1>6. FacesInv' /\ AgeInv'
  BY <1>1, <1>2, <1>4, <1>5, WorldKeepsKills
<1> QED BY <1>1, <1>5, <1>6 DEF KillInv, CondemnedInv, KillsAreOwn

LEMMA OpenHiveKeepsKills == ASSUME IInv, KillInv, NEW p \in Pids, OpenHive(p) PROVE KillInv'
<1>1. UNCHANGED <<real, started, queue, missed, tracker, step, cur, kills>>
  BY DEF OpenHive, agent
<1>2. PICK r \in Process : /\ r = real[p] /\ real' = [real EXCEPT ![p] = r]
                           /\ r = [id |-> r.id, image |-> r.image]
  BY <1>1, Typed DEF Process
<1>3. PICK e \in EventType : e = Event("file", p, r)
  BY EventTyped
<1>4. Face(e) = r /\ e.pid = p /\ files' = Append(files, e)
  BY <1>2, <1>3 DEF Face, Event, OpenHive
<1>5. Events' \subseteq Events \cup {e}
  <2>1. /\ files' \in Seq(EventType) /\ Len(files) \in Nat
        /\ DOMAIN files = 1 .. Len(files) /\ DOMAIN files' = 1 .. Len(files) + 1
        /\ \A i \in 1 .. Len(files) : files'[i] = files[i]
        /\ files'[Len(files) + 1] = e
    BY <1>4, Typed, Appended
  <2>2. \A i \in DOMAIN files' : i \in DOMAIN files \/ i = Len(files) + 1
    BY <2>1
  <2>3. \A i \in DOMAIN files' : files'[i] = e \/ files'[i] \in Range(files)
    BY <2>1, <2>2 DEF Range
  <2>4. Range(files') \subseteq Range(files) \cup {e}
    BY <2>1, <2>3, RangeIs
  <2> QED BY <1>1, <2>4 DEF Events
<1>6. FacesInv' /\ AgeInv'
  BY <1>1, <1>2, <1>4, <1>5, WorldKeepsKills
<1> QED BY <1>1, <1>6 DEF KillInv, CondemnedInv, KillsAreOwn

LEMMA ReceiveKeepsKills == ASSUME IInv, KillInv, ReceiveDriver \/ ReceiveFile PROVE KillInv'
<1>1. step' = "received" /\ UNCHANGED <<real, started, missed, tracker, kills>>
  BY DEF ReceiveDriver, ReceiveFile, At, world
<1>2. ASSUME NEW s \in Seq(EventType), s # <<>>
      PROVE  Range(Tail(s)) \subseteq Range(s) /\ Head(s) \in Range(s)
  <2>1. /\ Tail(s) \in Seq(EventType) /\ Len(Tail(s)) \in Nat
        /\ DOMAIN Tail(s) = 1 .. Len(Tail(s)) /\ DOMAIN s = 1 .. Len(Tail(s)) + 1
        /\ \A i \in 1 .. Len(Tail(s)) : Tail(s)[i] = s[i + 1]
        /\ Head(s) = s[1]
    BY <1>2, Shifted
  <2>2. 1 \in DOMAIN s /\ \A i \in DOMAIN Tail(s) : i + 1 \in DOMAIN s
    BY <2>1
  <2>3. Head(s) \in Range(s)
    BY <2>1, <2>2 DEF Range
  <2>4. \A i \in DOMAIN Tail(s) : Tail(s)[i] \in Range(s)
    BY <2>1, <2>2 DEF Range
  <2>5. Range(Tail(s)) = {Tail(s)[i] : i \in DOMAIN Tail(s)}
    BY DEF Range
  <2>6. Range(Tail(s)) \subseteq Range(s)
    BY <2>4, <2>5, Zenon
  <2> QED BY <2>3, <2>6
<1>3. Events' \subseteq Events
  <2>1. CASE ReceiveDriver
    <3>1. queue # <<>> /\ cur' = Head(queue) /\ queue' = Tail(queue) /\ files' = files
      BY <2>1 DEF ReceiveDriver
    <3> QED BY <1>2, <3>1, Typed DEF Events
  <2>2. CASE ReceiveFile
    <3>1. files # <<>> /\ cur' = Head(files) /\ files' = Tail(files) /\ queue' = queue
      BY <2>2 DEF ReceiveFile
    <3> QED BY <1>2, <3>1, Typed DEF Events
  <2> QED BY <2>1, <2>2
<1>4. \A p \in Pids : Face(tracker[p])' \in Faces
  BY <1>1 DEF Faces, Face
<1>5. FacesInv' /\ AgeInv' /\ KillsAreOwn'
  BY <1>1, <1>3, <1>4, AgentKeepsKills
<1> QED BY <1>1, <1>5 DEF KillInv, CondemnedInv

(* The tracker has no face but those it had and that of the event.         *)
LEMMA TrackKeepsKills == ASSUME IInv, KillInv, Track PROVE KillInv'
<1>1. step' = "tracked" /\ UNCHANGED <<real, started, queue, files, missed, cur, kills>>
  BY DEF Track, At, world
<1>2. /\ tracker \in [Pids -> Node] /\ cur.pid \in Pids
      /\ \A p \in Pids : Evicted[p] \in {tracker[p], NoNode}
      /\ Evicted \in [Pids -> Node]
  BY Typed, NothingTyped DEF Evicted, EvictDead
<1>3. \A p \in Pids : Face(tracker'[p]) \in {Face(tracker[p]), Face(NoNode), Face(cur)}
  <2>1. CASE cur.kind = "create"
    <3>1. tracker' = [Evicted EXCEPT ![cur.pid] =
                        [id |-> cur.id, image |-> cur.image, alive |-> TRUE, alerts |-> {}]]
      BY <2>1 DEF Track, OnProcessCreate
    <3> QED BY <1>2, <3>1 DEF Face
  <2>2. CASE cur.kind = "exit" /\ tracker[cur.pid] # NoNode
    <3>1. tracker' = [tracker EXCEPT ![cur.pid].alive = FALSE]
      BY <2>2 DEF Track, OnProcessTerminate
    <3>2. /\ tracker'[cur.pid] = [tracker[cur.pid] EXCEPT !.alive = FALSE]
          /\ \A p \in Pids : p # cur.pid => tracker'[p] = tracker[p]
      BY <1>2, <3>1
    <3>3. tracker[cur.pid] \in Node
      BY <1>2
    <3>4. /\ tracker'[cur.pid].id = tracker[cur.pid].id
          /\ tracker'[cur.pid].image = tracker[cur.pid].image
      BY <3>2, <3>3 DEF Node
    <3> QED BY <3>2, <3>4 DEF Face
  <2>3. CASE cur.kind # "create" /\ ~(cur.kind = "exit" /\ tracker[cur.pid] # NoNode)
    <3>1. tracker' = tracker
      BY <2>3 DEF Track, OnProcessTerminate
    <3> QED BY <3>1
  <2> QED BY <2>1, <2>2, <2>3
<1>4. Face(NoNode) = NoProcess
  BY DEF Face, NoNode, NoProcess
<1>5. \A p \in Pids : Face(tracker'[p]) \in Faces
  BY <1>3, <1>4 DEF Faces, Events
<1>6. \A p \in Pids : Face(tracker[p])' \in Faces
  BY <1>5 DEF Face
<1>7. FacesInv' /\ AgeInv' /\ KillsAreOwn'
  BY <1>1, <1>6, AgentKeepsKills DEF Events
<1> QED BY <1>1, <1>7 DEF KillInv, CondemnedInv

(* Who is condemned was tracked as no critical process; the node is that   *)
(* of the process that acted.                                              *)
LEMMA AnalyzeKeepsKills == ASSUME IInv, KillInv, Analyze PROVE KillInv'
<1>1. /\ step = "tracked" /\ UNCHANGED <<real, started, queue, files, missed, tracker, kills>>
      /\ cur' \in {cur, NoEvent}
      /\ step' = "condemned" => Safe(cur.pid) /\ cur' = cur
  BY DEF Analyze, world, Released
<1>2. \A p \in Pids : Face(tracker[p])' \in Faces
  BY <1>1 DEF Faces, Face
<1>3. FacesInv' /\ AgeInv' /\ KillsAreOwn'
  BY <1>1, <1>2, AgentKeepsKills DEF Events
<1>4. CondemnedInv'
  <2> SUFFICES ASSUME Safe(cur.pid), cur.kind # "file", cur.image = "critical"
               PROVE  cur.id \in missed
    BY <1>1 DEF CondemnedInv
  <2>1. cur.pid \in Pids /\ holder # "nobody" /\ holder \in {"nobody", "driver", "filter"}
    BY <1>1, Typed DEF IInv, TypeOK
  <2>2. holder = "driver"
    BY <2>1 DEF IInv, IdsInv
  <2>3. Fits(tracker[cur.pid].id, cur.id, missed)
    BY <1>1, <2>2 DEF IInv, OwnInv, AtHandFits, CreationAtHand
  <2>4. tracker[cur.pid].alive /\ tracker[cur.pid].image # "critical"
    BY DEF Safe
  <2>5. tracker[cur.pid].id # 0
    BY <2>1, <2>4 DEF IInv, IdsInv, NoNode
  <2>6. tracker[cur.pid].id # cur.id
    <3>1. Face(cur) \in Faces /\ Face(tracker[cur.pid]) \in Faces
      BY <2>1 DEF Faces, Events
    <3>2. /\ Face(cur).id = cur.id /\ Face(cur).image = cur.image
          /\ Face(tracker[cur.pid]).id = tracker[cur.pid].id
          /\ Face(tracker[cur.pid]).image = tracker[cur.pid].image
      BY DEF Face
    <3> QED BY <2>4, <3>1, <3>2 DEF KillInv, FacesInv
  <2> QED BY <2>3, <2>5, <2>6 DEF Fits
<1> QED BY <1>3, <1>4 DEF KillInv

LEMMA AlertKeepsKills == ASSUME IInv, KillInv, Alert PROVE KillInv'
<1>1. /\ step' = "idle" /\ cur' = NoEvent
      /\ UNCHANGED <<real, started, queue, files, missed, kills>>
  BY DEF Alert, Released, world
<1>2. \A p \in Pids : tracker'[p].id = tracker[p].id /\ tracker'[p].image = tracker[p].image
  <2>1. CASE tracker[cur.pid] = NoNode
    BY <2>1 DEF Alert
  <2>2. CASE tracker[cur.pid] # NoNode
    <3>1. tracker' = [tracker EXCEPT ![cur.pid].alerts = @ \cup {cur}]
      BY <2>2 DEF Alert
    <3>2. /\ tracker'[cur.pid] =
               [tracker[cur.pid] EXCEPT !.alerts = tracker[cur.pid].alerts \cup {cur}]
          /\ \A p \in Pids : p # cur.pid => tracker'[p] = tracker[p]
      BY <3>1, Typed
    <3>3. tracker[cur.pid] \in Node
      BY Typed
    <3>4. /\ tracker'[cur.pid].id = tracker[cur.pid].id
          /\ tracker'[cur.pid].image = tracker[cur.pid].image
      BY <3>2, <3>3 DEF Node
    <3> QED BY <3>2, <3>4
  <2> QED BY <2>1, <2>2
<1>3. \A p \in Pids : Face(tracker[p])' \in Faces
  <2>1. \A p \in Pids : Face(tracker[p])' = Face(tracker[p])
    BY <1>2 DEF Face
  <2> QED BY <2>1 DEF Faces
<1>4. FacesInv' /\ AgeInv' /\ KillsAreOwn'
  BY <1>1, <1>3, AgentKeepsKills DEF Events
<1> QED BY <1>1, <1>4 DEF KillInv, CondemnedInv

LEMMA InitKillInv == Init => KillInv
<1> SUFFICES ASSUME Init PROVE KillInv
  OBVIOUS
<1>1. /\ started = 1 + Cardinality(Old) /\ files = <<>> /\ step = "idle" /\ cur = NoEvent
      /\ queue = <<Event("create", Self, real[Self])>> /\ tracker = [p \in Pids |-> NoNode]
      /\ kills = {}
  BY DEF Init
<1>2. PICK id \in [Old -> Oldest], image \in [Old -> Images] :
        /\ IsInjective(id)
        /\ real = [p \in Pids |-> CASE p = Self -> [id |-> 1, image |-> "tool"]
                                    [] p \in Old -> [id |-> id[p], image |-> image[p]]
                                    [] OTHER -> NoProcess]
  BY DEF Init
<1>3. /\ real \in [Pids -> Process] /\ real[Self] = [id |-> 1, image |-> "tool"]
      /\ \A p \in Pids \ {Self} : real[p] = NoProcess \/ real[p].id \in Oldest
      /\ Self \in Pids /\ Self \notin Old
  BY FirstProcesses
<1>4. /\ Face(Event("create", Self, real[Self])) = real[Self]
      /\ Event("create", Self, real[Self]).pid = Self
  BY <1>3 DEF Face, Event
<1>5. Range(queue) = {Event("create", Self, real[Self])} /\ Range(files) = {}
  BY <1>1 DEF Range
<1>6. Face(NoNode) = NoProcess /\ Face(NoEvent) = NoProcess /\ NoProcess.id = 0
  BY DEF Face, NoNode, NoEvent, NoProcess
<1>7. Faces \subseteq {real[p] : p \in Pids} \cup {NoProcess}
  BY <1>1, <1>3, <1>4, <1>5, <1>6 DEF Faces, Events
<1>8. \A p, q \in Pids : real[p].id = real[q].id => real[p].image = real[q].image
  <2> SUFFICES ASSUME NEW p \in Pids, NEW q \in Pids, real[p].id = real[q].id, p # q
               PROVE  real[p].image = real[q].image
    OBVIOUS
  <2>1. \A o \in Pids : \/ o = Self /\ real[o].id = 1
                        \/ o \in Old /\ real[o].id = id[o] /\ id[o] \in Oldest
                        \/ real[o] = NoProcess
    BY <1>2, <1>3
  <2>2. \A i \in Oldest : i # 0 /\ i # 1
    BY OldestFew
  <2>3. p \in Old /\ q \in Old => id[p] # id[q]
    BY <1>2 DEF IsInjective
  <2> QED BY <1>6, <2>1, <2>2, <2>3
<1>9. \A p \in Pids : real[p].id <= started
  <2>1. \A i \in Oldest : i <= started
    BY <1>1, OldestFew
  <2>2. 0 <= started /\ 1 <= started
    BY <1>1, OldestFew
  <2>3. \A p \in Pids : real[p].id \in {0, 1} \cup Oldest
    BY <1>3, <1>6
  <2> QED BY <2>1, <2>2, <2>3
<1>10. FacesInv
  <2>1. 0 <= started /\ NoProcess.image = "tool"
    BY <1>1, OldestFew DEF NoProcess
  <2>2. \A p \in Pids : real[p].id = 0 => real[p].image = "tool"
    <3>1. \A i \in Oldest : i # 0
      BY OldestFew
    <3> QED BY <1>3, <2>1, <3>1
  <2> QED BY <1>6, <1>7, <1>8, <1>9, <2>1, <2>2 DEF FacesInv
<1>11. AgeInv
  <2>1. \A e \in Events : e = Event("create", Self, real[Self]) \/ e = NoEvent
    BY <1>1, <1>5 DEF Events
  <2>2. Event("create", Self, real[Self]).id = 1 /\ NoEvent.id = 0 /\ NoEvent.pid = Self
    BY <1>3 DEF Event, NoEvent
  <2>3. \A e \in Events : e.pid = Self /\ e.id \in {0, 1}
    BY <1>4, <2>1, <2>2
  <2> QED BY <1>3, <2>3 DEF AgeInv
<1> QED BY <1>1, <1>10, <1>11 DEF KillInv, CondemnedInv, KillsAreOwn

LEMMA NextKeepsKillInv == IInv /\ KillInv /\ [Next]_vars => KillInv'
<1> SUFFICES ASSUME IInv, KillInv, [Next]_vars PROVE KillInv'
  OBVIOUS
<1>1. ASSUME NEW p \in Pids, Exit(p) \/ CommandKill(p) PROVE KillInv'
  <2>1. Ends(p) /\ UNCHANGED <<started, files, tracker, step, cur, kills>>
    BY <1>1 DEF Exit, CommandKill, agent
  <2>2. FacesInv' /\ AgeInv' /\ missed \subseteq missed'
    BY <2>1, EndsKeepsFaces
  <2> QED BY <2>1, <2>2 DEF KillInv, CondemnedInv, KillsAreOwn
<1>2. CASE System
  BY <1>1, <1>2, CreateKeepsKills, OpenHiveKeepsKills, ActKeepsKills DEF System
<1>3. CASE Dispatch
  BY <1>3, TrackKeepsKills, AnalyzeKeepsKills, KillKeepsKills, AlertKeepsKills DEF Dispatch
<1>4. CASE UNCHANGED vars
  <2>1. UNCHANGED <<real, started, queue, files, missed, tracker, step, cur, kills>>
    BY <1>4 DEF vars, world, agent
  <2> QED BY <2>1 DEF KillInv, FacesInv, AgeInv, CondemnedInv, KillsAreOwn, Faces, Events, Living
<1> QED BY <1>2, <1>3, <1>4, ReceiveKeepsKills DEF Next

LEMMA KillInvariance == Spec => [](IInv /\ KillInv)
  BY InitIInv, InitKillInv, NextKeepsIInv, NextKeepsKillInv, PTL DEF Spec

(* AddProcessAlert attaches an alert from the driver's stream to the node  *)
(* of the process that acted, never to an earlier or a later owner of its  *)
(* id, unless an event of that process was lost; and the kill of           *)
(* OnBehaviorDetection hits who acted or got the id later, and a critical  *)
(* process only as one that got it later, unless the act is a file's or    *)
(* an event of the process was lost.                                       *)
THEOREM ActsAttributed == Spec => []ActsAreAttributed
<1>1. ASSUME IInv, NEW p \in Pids, NEW a \in tracker[p].alerts,
             a.kind # "file", a.id # tracker[p].id
      PROVE  a.id \in missed
  <2>1. Fits(tracker[p].id, a.id, missed)
    BY <1>1 DEF IInv, OwnInv, AlertsFit
  <2>2. tracker[p] # NoNode
    BY <1>1 DEF NoNode
  <2>3. tracker[p].id # 0
    BY <1>1, <2>2 DEF IInv, IdsInv
  <2> QED BY <1>1, <2>1, <2>3 DEF Fits
<1>2. IInv => AlertsAreOwn
  BY <1>1 DEF AlertsAreOwn
<1>3. IInv /\ KillInv => ActsAreAttributed
  BY <1>2 DEF KillInv, ActsAreAttributed
<1> QED BY <1>3, KillInvariance, PTL

=============================================================================

------------------------ MODULE TelemetryShipperProofs ------------------------
(***************************************************************************)
(* Proofs about TelemetryShipper: no event is lost or counted twice on its *)
(* way to the backend, for any sizes, threads and failures of the backend, *)
(* unless the shutdown's clear() overlaps a ShipEvent.                     *)
(***************************************************************************)
EXTENDS TelemetryShipper, FiniteSetTheorems, SequenceTheorems, TLAPS

Sorted(s) == \A i, j \in DOMAIN s : i < j => s[i] < s[j]

(* The events on their way, and those whose way has ended.                 *)
Waiting == Range(batch) \cup Range(buffer)
Done == acked \cup gone \cup discarded

Ordered == /\ Sorted(batch) /\ Sorted(buffer)
           /\ \A e \in Range(batch), f \in Range(buffer) : e < f

(* EveryEventOnce, with what keeps the counters: no event is on its way    *)
(* whose way has ended.                                                    *)
Once ==
  /\ Ordered /\ acked \subseteq stored
  /\ Waiting \cup Done = 1 .. buffered /\ Waiting \cap Done = {}
  /\ Len(buffer) + Len(batch) + shipped + dropped + Cardinality(discarded) = buffered
  /\ shipped = Cardinality(acked) /\ dropped = Cardinality(gone)

(* A batch was part of a buffer; the buffer is cleared once, at the end.   *)
IInv ==
  /\ TypeOK
  /\ Len(batch) <= MaxBuffer
  /\ stop # "cleared" => ~raced /\ discarded = {}
  /\ loop = "confirmed" => Range(batch) \subseteq stored
  /\ raced \/ Once

-----------------------------------------------------------------------------
LEMMA InRange == ASSUME NEW s \in Seq(Nat) PROVE Range(s) = {s[i] : i \in 1 .. Len(s)}
  BY DEF Range

LEMMA RangeNat == ASSUME NEW s \in Seq(Nat) PROVE Range(s) \subseteq Nat
  BY DEF Range

(* A sorted sequence has as many elements as places.                       *)
LEMMA Counted ==
  ASSUME NEW s \in Seq(Nat), Sorted(s)
  PROVE  IsFiniteSet(Range(s)) /\ Cardinality(Range(s)) = Len(s)
<1>1. s \in [1 .. Len(s) -> Range(s)] /\ Len(s) \in Nat
  BY DEF Range
<1>2. \A i, j \in 1 .. Len(s) : s[i] = s[j] => i = j
  <2> SUFFICES ASSUME NEW i \in 1 .. Len(s), NEW j \in 1 .. Len(s), s[i] = s[j], i # j PROVE FALSE
    OBVIOUS
  <2>1. s[i] \in Nat /\ s[j] \in Nat /\ (i < j \/ j < i)
    OBVIOUS
  <2>2. s[i] < s[j] \/ s[j] < s[i]
    BY <2>1 DEF Sorted
  <2> QED BY <2>1, <2>2
<1>3. s \in Bijection(1 .. Len(s), Range(s))
  BY <1>1, <1>2 DEF Bijection, Injection, Surjection, IsInjective, Range
<1>4. ExistsBijection(1 .. Len(s), Range(s))
  BY <1>3 DEF ExistsBijection
<1> QED BY <1>1, <1>4, FS_CountingElements, FS_NatBijection

LEMMA FinitePart ==
  ASSUME NEW n \in Nat, NEW S, S \subseteq 1 .. n
  PROVE  IsFiniteSet(S) /\ Cardinality(S) \in Nat
<1>1. IsFiniteSet(1 .. n)
  BY FS_Interval
<1>2. IsFiniteSet(S)
  BY <1>1, FS_Subset
<1> QED BY <1>2, FS_CardinalityType

(* The first n places, and the others.                                     *)
LEMMA Parted ==
  ASSUME NEW s \in Seq(Nat), NEW n \in 0 .. Len(s)
  PROVE  LET a == SubSeq(s, 1, n)
             b == SubSeq(s, n + 1, Len(s))
         IN /\ a \in Seq(Nat) /\ Len(a) = n
            /\ b \in Seq(Nat) /\ Len(b) = Len(s) - n
            /\ \A i \in 1 .. n : a[i] = s[i]
            /\ \A i \in 1 .. Len(s) - n : b[i] = s[n + i]
            /\ Range(s) = Range(a) \cup Range(b)
            /\ Sorted(s) => /\ Sorted(a) /\ Sorted(b)
                            /\ \A e \in Range(a), f \in Range(b) : e < f
<1> DEFINE a == SubSeq(s, 1, n)
           b == SubSeq(s, n + 1, Len(s))
<1>1. /\ a \in Seq(Nat) /\ Len(a) = n
      /\ \A i \in 1 .. n : a[i] = s[i]
  BY SubSeqProperties
<1>2. /\ b \in Seq(Nat) /\ Len(b) = Len(s) - n
      /\ \A i \in 1 .. Len(s) - n : b[i] = s[n + i]
  <2>1. n + 1 \in 1 .. Len(s) + 1 /\ Len(s) \in n .. Len(s)
    OBVIOUS
  <2> QED BY <2>1, SubSeqProperties
<1> HIDE DEF a, b
<1>3. Range(s) = Range(a) \cup Range(b)
  <2>1. ASSUME NEW i \in 1 .. Len(s) PROVE s[i] \in Range(a) \cup Range(b)
    <3>1. CASE i <= n
      <4>1. a[i] = s[i] /\ a[i] \in Range(a)
        BY <1>1, <3>1, InRange
      <4> QED BY <4>1
    <3>2. CASE ~(i <= n)
      <4>1. i - n \in 1 .. Len(s) - n /\ n + (i - n) = i
        BY <3>2
      <4>2. b[i - n] = s[i] /\ b[i - n] \in Range(b)
        BY <1>2, <4>1, InRange
      <4> QED BY <4>2
    <3> QED BY <3>1, <3>2
  <2>2. ASSUME NEW i \in 1 .. n PROVE a[i] \in Range(s)
    <3>1. i \in 1 .. Len(s) /\ a[i] = s[i]
      BY <1>1
    <3> QED BY <3>1, InRange
  <2>3. ASSUME NEW i \in 1 .. Len(s) - n PROVE b[i] \in Range(s)
    <3>1. n + i \in 1 .. Len(s)
      OBVIOUS
    <3> QED BY <1>2, <3>1, InRange
  <2>4. /\ Range(s) = {s[i] : i \in 1 .. Len(s)} /\ Range(a) = {a[i] : i \in 1 .. n}
        /\ Range(b) = {b[i] : i \in 1 .. Len(s) - n}
    BY <1>1, <1>2, InRange
  <2>5. Range(s) \subseteq Range(a) \cup Range(b)
    BY <2>1, <2>4
  <2>6. Range(a) \subseteq Range(s) /\ Range(b) \subseteq Range(s)
    BY <2>2, <2>3, <2>4
  <2> QED BY <2>5, <2>6
<1>4. ASSUME Sorted(s) PROVE Sorted(a) /\ Sorted(b)
  <2>1. Sorted(a)
    BY <1>1, <1>4 DEF Sorted
  <2>2. ASSUME NEW i \in 1 .. Len(s) - n, NEW j \in 1 .. Len(s) - n, i < j PROVE b[i] < b[j]
    <3>1. n + i \in 1 .. Len(s) /\ n + j \in 1 .. Len(s) /\ n + i < n + j
      BY <2>2
    <3>2. s[n + i] < s[n + j]
      BY <1>4, <3>1 DEF Sorted
    <3> QED BY <1>2, <3>2
  <2>3. DOMAIN b = 1 .. Len(s) - n
    BY <1>2
  <2> QED BY <2>1, <2>2, <2>3 DEF Sorted
<1>5. ASSUME Sorted(s), NEW e \in Range(a), NEW f \in Range(b) PROVE e < f
  <2>1. PICK i \in 1 .. n : e = a[i]
    BY <1>1, InRange
  <2>2. PICK j \in 1 .. Len(s) - n : f = b[j]
    BY <1>2, InRange
  <2>3. i \in DOMAIN s /\ n + j \in DOMAIN s /\ i < n + j
    OBVIOUS
  <2> QED BY <1>1, <1>2, <1>5, <2>1, <2>2, <2>3 DEF Sorted
<1> QED BY <1>1, <1>2, <1>3, <1>4, <1>5 DEF a, b

(* Two sequences, one after the other.                                     *)
LEMMA Joined ==
  ASSUME NEW a \in Seq(Nat), NEW b \in Seq(Nat)
  PROVE  /\ a \o b \in Seq(Nat) /\ Len(a \o b) = Len(a) + Len(b)
         /\ Range(a \o b) = Range(a) \cup Range(b)
         /\ \A i \in 1 .. Len(a) : (a \o b)[i] = a[i]
         /\ Sorted(a \o b) <=> /\ Sorted(a) /\ Sorted(b)
                               /\ \A e \in Range(a), f \in Range(b) : e < f
<1> DEFINE s == a \o b
<1>1. /\ s \in Seq(Nat) /\ Len(s) = Len(a) + Len(b)
      /\ \A i \in 1 .. Len(a) : s[i] = a[i]
      /\ \A i \in 1 .. Len(b) : s[Len(a) + i] = b[i]
  OBVIOUS
<1> HIDE DEF s
<1>2. SubSeq(s, 1, Len(a)) = a
  <2>1. Len(a) \in 0 .. Len(s)
    BY <1>1
  <2>2. Len(SubSeq(s, 1, Len(a))) = Len(a) /\ \A i \in 1 .. Len(a) : SubSeq(s, 1, Len(a))[i] = a[i]
    BY <1>1, <2>1, Parted
  <2> QED BY <1>1, <2>1, <2>2, Parted, SeqEqual
<1>3. SubSeq(s, Len(a) + 1, Len(s)) = b
  <2>1. Len(a) \in 0 .. Len(s) /\ Len(s) - Len(a) = Len(b)
    BY <1>1
  <2> DEFINE t == SubSeq(s, Len(a) + 1, Len(s))
  <2>2. t \in Seq(Nat) /\ Len(t) = Len(b) /\ \A i \in 1 .. Len(b) : t[i] = b[i]
    BY <1>1, <2>1, Parted
  <2> QED BY <2>2, SeqEqual
<1>4. Len(a) \in 0 .. Len(s)
  BY <1>1
<1>5. Range(s) = Range(a) \cup Range(b)
  BY <1>1, <1>2, <1>3, <1>4, Parted
<1>6. Sorted(s) => /\ Sorted(a) /\ Sorted(b)
                   /\ \A e \in Range(a), f \in Range(b) : e < f
  <2> DEFINE u == SubSeq(s, 1, Len(a))
             v == SubSeq(s, Len(a) + 1, Len(s))
  <2>1. Sorted(s) => /\ Sorted(u) /\ Sorted(v)
                     /\ \A e \in Range(u), f \in Range(v) : e < f
    BY <1>1, <1>4, Parted
  <2>2. u = a /\ v = b
    BY <1>2, <1>3
  <2> QED BY <2>1, <2>2
<1>7. ASSUME Sorted(a), Sorted(b), \A e \in Range(a), f \in Range(b) : e < f,
             NEW i \in DOMAIN s, NEW j \in DOMAIN s, i < j
      PROVE  s[i] < s[j]
  <2>1. /\ Len(a) \in Nat /\ Len(b) \in Nat
        /\ i \in 1 .. Len(a) + Len(b) /\ j \in 1 .. Len(a) + Len(b)
    BY <1>1
  <2>2. CASE j <= Len(a)
    <3>1. i \in 1 .. Len(a) /\ j \in 1 .. Len(a)
      BY <1>7, <2>1, <2>2
    <3>2. s[i] = a[i] /\ s[j] = a[j]
      BY <1>1, <3>1
    <3> QED BY <1>7, <3>1, <3>2 DEF Sorted
  <2>3. CASE i <= Len(a) /\ Len(a) < j
    <3>1. i \in 1 .. Len(a) /\ j - Len(a) \in 1 .. Len(b) /\ Len(a) + (j - Len(a)) = j
      BY <2>1, <2>3
    <3>2. s[i] = a[i] /\ s[j] = b[j - Len(a)]
      BY <1>1, <3>1
    <3>3. s[i] \in Range(a) /\ s[j] \in Range(b)
      BY <3>1, <3>2, InRange
    <3> QED BY <1>7, <3>3
  <2>4. CASE Len(a) < i
    <3>1. /\ i - Len(a) \in 1 .. Len(b) /\ Len(a) + (i - Len(a)) = i
          /\ j - Len(a) \in 1 .. Len(b) /\ Len(a) + (j - Len(a)) = j
          /\ i - Len(a) < j - Len(a)
      BY <1>7, <2>1, <2>4
    <3>2. s[i] = b[i - Len(a)] /\ s[j] = b[j - Len(a)]
      BY <1>1, <3>1
    <3> QED BY <1>7, <3>1, <3>2 DEF Sorted
  <2> QED BY <1>7, <2>1, <2>2, <2>3, <2>4
<1>8. Sorted(a) /\ Sorted(b) /\ (\A e \in Range(a), f \in Range(b) : e < f) => Sorted(s)
  BY <1>7 DEF Sorted
<1> QED BY <1>1, <1>5, <1>6, <1>8 DEF s

-----------------------------------------------------------------------------
LEMMA InitIInv == Init => IInv
<1> SUFFICES ASSUME Init PROVE IInv
  OBVIOUS
<1> USE ConfigAssumption DEF Init
<1>1. TypeOK
  <2>1. running \in BOOLEAN /\ raced \in BOOLEAN
    OBVIOUS
  <2>2. buffer \in Seq(Nat) /\ batch \in Seq(Nat) /\ Len(buffer) = 0 /\ Len(batch) = 0
    OBVIOUS
  <2> QED BY <2>1, <2>2 DEF TypeOK
<1>2. Range(batch) = {} /\ Range(buffer) = {}
  BY DEF Range
<1>3. Once
  BY <1>2, FS_EmptySet DEF Once, Ordered, Sorted, Waiting, Done
<1> QED BY <1>1, <1>3 DEF IInv

(* A step that leaves the events where they are.                           *)
LEMMA SameEvents ==
  ASSUME IInv, UNCHANGED <<buffer, batch, buffered, shipped, dropped, acked, gone, discarded>>,
         stored \subseteq stored', raced' = raced
  PROVE  (raced' \/ Once') /\ Len(batch') <= MaxBuffer
<1>1. Once => Once'
  BY DEF Once, Ordered, Waiting, Done, Sorted
<1> QED BY <1>1 DEF IInv

LEMMA CallKeepsIInv ==
  ASSUME IInv, NEW p \in Producers, Call(p) \/ Enter(p) PROVE IInv'
<1>1. UNCHANGED <<bufferVars, shipperVars, stopVars, flushEvent>>
  BY DEF Call, Enter
<1>2. pc' \in [Producers -> {"idle", "serializing", "inside"}]
  BY DEF Call, Enter, ProducerAt, IInv, TypeOK
<1>3. TypeOK'
  BY <1>1, <1>2 DEF IInv, TypeOK, bufferVars, shipperVars, stopVars
<1> QED BY <1>1, <1>3, SameEvents DEF IInv, bufferVars, shipperVars, stopVars

(* An event comes, and the oldest may make room for it.                    *)
LEMMA InsertKeepsIInv == ASSUME IInv, NEW p \in Producers, Insert(p) PROVE IInv'
<1> USE ConfigAssumption
<1> DEFINE n == buffered + 1
           rest == IF Full THEN Tail(buffer) ELSE buffer
<1>1. /\ buffer' = Append(rest, n) /\ buffered' = n
      /\ dropped' = IF Full THEN dropped + 1 ELSE dropped
      /\ gone' = IF Full THEN gone \cup {Head(buffer)} ELSE gone
      /\ UNCHANGED <<shipperVars, stopVars>>
  BY DEF Insert
<1>2. /\ buffer \in Seq(Nat) /\ Len(buffer) \in Nat /\ Len(buffer) <= MaxBuffer
      /\ buffered \in Nat /\ dropped \in Nat
      /\ n \in Nat /\ n = buffered + 1
  BY DEF IInv, TypeOK
<1>3. Full => /\ Len(buffer) = MaxBuffer /\ buffer # <<>>
  BY <1>2 DEF Full
<1>4. Full => /\ rest = SubSeq(buffer, 1 + 1, Len(buffer)) /\ Head(buffer) = buffer[1]
              /\ 1 \in 0 .. Len(buffer)
  BY <1>2, <1>3, HeadTailProperties
<1>5. /\ rest \in Seq(Nat) /\ Len(rest) < MaxBuffer
      /\ Len(rest) = IF Full THEN Len(buffer) - 1 ELSE Len(buffer)
  <2>1. CASE Full
    BY <1>2, <1>3, <2>1, HeadTailProperties
  <2>2. CASE ~Full
    BY <1>2, <2>2 DEF Full
  <2> QED BY <2>1, <2>2
<1> HIDE DEF rest, n
<1>6. /\ buffer' \in Seq(Nat) /\ Len(buffer') = Len(rest) + 1
      /\ buffer' = rest \o <<n>> /\ <<n>> \in Seq(Nat) /\ Range(<<n>>) = {n} /\ Sorted(<<n>>)
  <2>1. Range(<<n>>) = {n} /\ Sorted(<<n>>)
    BY DEF Range, Sorted
  <2>2. buffer' = rest \o <<n>> /\ <<n>> \in Seq(Nat)
    BY <1>1, <1>2, <1>5
  <2>3. buffer' \in Seq(Nat) /\ Len(buffer') = Len(rest) + 1
    BY <1>1, <1>2, <1>5
  <2> QED BY <2>1, <2>2, <2>3
<1>7. TypeOK' /\ Len(batch') <= MaxBuffer
  <2>1. pc' \in [Producers -> {"idle", "serializing", "inside"}]
    BY DEF Insert, ProducerAt, IInv, TypeOK
  <2>2. flushEvent' \in {"closed", "reset", "signalled"}
    BY DEF Insert, IInv, TypeOK
  <2>3. Len(buffer') <= MaxBuffer
    BY <1>2, <1>5, <1>6
  <2>4. gone' \subseteq Nat /\ dropped' \in Nat
    <3>1. CASE Full
      <4> DEFINE h == Head(buffer)
      <4>1. h \in Nat
        BY <1>2, <1>3, <3>1, HeadTailProperties
      <4>2. gone' = gone \cup {h} /\ dropped' = dropped + 1
        BY <1>1, <3>1
      <4>3. gone \subseteq Nat
        BY DEF IInv, TypeOK
      <4> HIDE DEF h
      <4>4. gone' \subseteq Nat
        BY <4>1, <4>2, <4>3
      <4> QED BY <1>2, <4>2, <4>4
    <3>2. CASE ~Full
      BY <1>1, <1>2, <3>2 DEF IInv, TypeOK
    <3> QED BY <3>1, <3>2
  <2> QED BY <1>1, <1>2, <1>6, <2>1, <2>2, <2>3, <2>4 DEF IInv, TypeOK, shipperVars, stopVars
<1>8. ASSUME Once PROVE Once'
  <2> DEFINE out == IF Full THEN {Head(buffer)} ELSE {}
  <2>1. Range(buffer) = Range(rest) \cup out /\ Range(rest) \cap out = {} /\ Sorted(rest)
    <3>1. CASE Full
      <4>1. Range(SubSeq(buffer, 1, 1)) = {buffer[1]}
        <5> DEFINE a == SubSeq(buffer, 1, 1)
        <5>1. a \in Seq(Nat) /\ Len(a) = 1 /\ a[1] = buffer[1]
          BY <1>2, <1>4, <3>1, Parted
        <5>2. DOMAIN a = {1}
          BY <5>1
        <5> QED BY <5>1, <5>2 DEF Range
      <4>2. /\ Range(buffer) = Range(SubSeq(buffer, 1, 1)) \cup Range(rest)
            /\ Sorted(rest) /\ \A e \in Range(SubSeq(buffer, 1, 1)), f \in Range(rest) : e < f
        <5> DEFINE a == SubSeq(buffer, 1, 1)
                   b == SubSeq(buffer, 1 + 1, Len(buffer))
        <5>1. Sorted(buffer)
          BY <1>8 DEF Once, Ordered
        <5>2. /\ Range(buffer) = Range(a) \cup Range(b)
              /\ Sorted(buffer) => /\ Sorted(a) /\ Sorted(b)
                                   /\ \A e \in Range(a), f \in Range(b) : e < f
          BY <1>2, <1>4, <3>1, Parted
        <5>3. b = rest
          BY <1>4, <3>1
        <5> QED BY <5>1, <5>2, <5>3
      <4>3. buffer[1] \in Nat
        BY <1>2, <1>3, <3>1
      <4> QED BY <1>4, <3>1, <4>1, <4>2, <4>3
    <3>2. CASE ~Full
      BY <1>8, <3>2 DEF rest, Once, Ordered
    <3> QED BY <3>1, <3>2
  <2>2. gone' = gone \cup out
    BY <1>1
  <2> HIDE DEF out
  <2>3. /\ Waiting \cup Done = 1 .. buffered /\ Waiting \cap Done = {}
        /\ Waiting = Range(batch) \cup Range(buffer)
    BY <1>8 DEF Once, Waiting
  <2>4. Range(buffer') = Range(rest) \cup {n}
    BY <1>5, <1>6, Joined
  <2>5. \A e \in Waiting \cup Done : e \in Nat /\ e < n
    BY <1>2, <2>3
  <2>6. Ordered'
    <3>1. Sorted(buffer')
      <4>1. \A e \in Range(rest), f \in Range(<<n>>) : e < f
        BY <1>6, <2>1, <2>3, <2>5
      <4> QED BY <1>5, <1>6, <2>1, <4>1, Joined
    <3>2. \A e \in Range(batch), f \in Range(buffer') : e < f
      BY <1>8, <2>1, <2>3, <2>4, <2>5 DEF Once, Ordered
    <3> QED BY <1>1, <1>8, <3>1, <3>2 DEF Once, Ordered, shipperVars, Sorted
  <2>7. Waiting' = Range(batch) \cup Range(rest) \cup {n} /\ Done' = Done \cup out
    BY <1>1, <2>2, <2>4 DEF Waiting, Done, shipperVars, stopVars
  <2>8. Waiting' \cup Done' = 1 .. buffered'
    <3>1. Waiting' \cup Done' = (1 .. buffered) \cup {n}
      BY <2>1, <2>3, <2>7
    <3>2. (1 .. buffered) \cup {n} = 1 .. n
      BY <1>2
    <3> QED BY <1>1, <3>1, <3>2
  <2>9. Range(batch) \cap Range(buffer) = {}
    <3>1. \A e \in Range(batch) : e \in Nat
      BY <2>3, <2>5
    <3> QED BY <1>8, <3>1 DEF Once, Ordered
  <2>10. Waiting' \cap Done' = {}
    BY <2>1, <2>3, <2>5, <2>7, <2>9
  <2>11. dropped' = Cardinality(gone')
    <3>1. IsFiniteSet(gone) /\ (Full => Head(buffer) \notin gone)
      <4>1. gone \subseteq 1 .. buffered
        BY <2>3 DEF Done
      <4>2. IsFiniteSet(gone)
        BY <1>2, <4>1, FinitePart
      <4>3. Full => Head(buffer) \in Waiting
        BY <2>1, <2>3 DEF out
      <4> QED BY <2>3, <4>2, <4>3 DEF Done
    <3>2. dropped = Cardinality(gone)
      BY <1>8 DEF Once
    <3> QED BY <1>1, <3>1, <3>2, FS_AddElement
  <2>12. Len(buffer') + Len(batch') + shipped' + dropped' + Cardinality(discarded') = buffered'
    <3>1. UNCHANGED <<batch, shipped, discarded>>
      BY <1>1 DEF shipperVars, stopVars
    <3>2. /\ Len(buffer) + Len(batch) + shipped + dropped + Cardinality(discarded) = buffered
      BY <1>8 DEF Once
    <3>3. Len(batch) \in Nat /\ shipped \in Nat /\ Cardinality(discarded) \in Nat
      <4>1. discarded \subseteq 1 .. buffered
        BY <2>3 DEF Done
      <4>2. Cardinality(discarded) \in Nat
        BY <1>2, <4>1, FinitePart
      <4> QED BY <4>2 DEF IInv, TypeOK
    <3>4. \/ Len(buffer') = Len(buffer) /\ dropped' = dropped + 1
          \/ Len(buffer') = Len(buffer) + 1 /\ dropped' = dropped
      <4>1. CASE Full
        BY <1>1, <1>2, <1>5, <1>6, <4>1
      <4>2. CASE ~Full
        BY <1>1, <1>2, <1>5, <1>6, <4>2
      <4> QED BY <4>1, <4>2
    <3>5. buffered' = buffered + 1
      BY <1>1, <1>2
    <3> QED BY <1>2, <3>1, <3>2, <3>3, <3>4, <3>5
  <2> QED BY <1>1, <1>8, <2>6, <2>8, <2>10, <2>11, <2>12 DEF Once, shipperVars
<1> QED BY <1>1, <1>7, <1>8 DEF IInv, shipperVars, stopVars

(* The shipper's steps, but for taking a batch, confirming it and putting  *)
(* it back.                                                                *)
LEMMA PostKeepsIInv ==
  ASSUME IInv, LoopTest \/ Wake \/ PostConfirmed \/ PostFailed PROVE IInv'
<1>1. UNCHANGED <<batch, shipped, acked, bufferVars, stopVars, pc>>
  BY DEF LoopTest, Wake, PostConfirmed, PostFailed
<1>2. stored \subseteq stored' /\ stored' \subseteq Nat
  <2>1. Range(batch) \subseteq Nat
    BY InRange DEF IInv, TypeOK
  <2> QED BY <2>1 DEF LoopTest, Wake, PostConfirmed, PostFailed, IInv, TypeOK
<1>3. /\ flushEvent' \in {"closed", "reset", "signalled"}
      /\ loop' \in {"top", "waiting", "awake", "draining", "posting", "confirmed",
                    "failed", "exited"}
      /\ loop' \in {"posting", "confirmed", "failed"}
           <=> loop \in {"posting", "confirmed", "failed"}
  BY DEF LoopTest, Wake, PostConfirmed, PostFailed, LoopAt, IInv, TypeOK
<1>4. TypeOK'
  BY <1>1, <1>2, <1>3 DEF IInv, TypeOK, bufferVars, stopVars
<1>5. loop' = "confirmed" => Range(batch') \subseteq stored'
  BY <1>1 DEF LoopTest, Wake, PostConfirmed, PostFailed, LoopAt, IInv
<1> QED BY <1>1, <1>2, <1>4, <1>5, SameEvents DEF IInv, bufferVars, stopVars

LEMMA TakeKeepsIInv == ASSUME IInv, TakeBatch PROVE IInv'
<1> USE ConfigAssumption
<1> DEFINE n == BatchCount
<1>1. /\ loop = "draining" /\ loop' = (IF n = 0 THEN "top" ELSE "posting")
      /\ batch' = SubSeq(buffer, 1, n) /\ buffer' = SubSeq(buffer, n + 1, Len(buffer))
      /\ UNCHANGED <<shipped, stored, acked, buffered, dropped, gone, stopVars, flushEvent, pc>>
  BY DEF TakeBatch, LoopAt
<1>2. buffer \in Seq(Nat) /\ Len(buffer) \in Nat /\ Len(buffer) <= MaxBuffer /\ batch = <<>>
  BY <1>1 DEF IInv, TypeOK
<1>3. n \in 0 .. Len(buffer) /\ n <= BatchSize
  BY <1>2 DEF BatchCount
<1> HIDE DEF n
<1>4. /\ batch' \in Seq(Nat) /\ Len(batch') = n
      /\ buffer' \in Seq(Nat) /\ Len(buffer') = Len(buffer) - n
      /\ Range(buffer) = Range(batch') \cup Range(buffer')
      /\ Sorted(buffer) => /\ Sorted(batch') /\ Sorted(buffer')
                           /\ \A e \in Range(batch'), f \in Range(buffer') : e < f
  <2> DEFINE a == SubSeq(buffer, 1, n)
             b == SubSeq(buffer, n + 1, Len(buffer))
  <2>1. /\ a \in Seq(Nat) /\ Len(a) = n /\ b \in Seq(Nat) /\ Len(b) = Len(buffer) - n
        /\ Range(buffer) = Range(a) \cup Range(b)
        /\ Sorted(buffer) => /\ Sorted(a) /\ Sorted(b)
                             /\ \A e \in Range(a), f \in Range(b) : e < f
    BY <1>2, <1>3, Parted
  <2>2. a = batch' /\ b = buffer'
    BY <1>1
  <2> QED BY <2>1, <2>2
<1>5. TypeOK' /\ Len(batch') <= MaxBuffer
  <2>1. batch' # <<>> <=> n # 0
    BY <1>3, <1>4, EmptySeq
  <2>2. batch' # <<>> <=> loop' \in {"posting", "confirmed", "failed"}
    BY <1>1, <2>1
  <2>3. Len(buffer') <= MaxBuffer /\ Len(batch') <= BatchSize /\ Len(batch') <= MaxBuffer
    BY <1>2, <1>3, <1>4
  <2> QED BY <1>1, <1>4, <2>2, <2>3 DEF IInv, TypeOK, stopVars
<1>6. ASSUME Once PROVE Once'
  <2>1. Range(batch) = {} /\ Len(batch) = 0
    BY <1>2 DEF Range
  <2>2. Ordered'
    BY <1>4, <1>6 DEF Once, Ordered, Sorted
  <2>3. Waiting' = Waiting /\ Done' = Done
    BY <1>1, <1>4, <2>1 DEF Waiting, Done, stopVars
  <2>4. Len(buffer') + Len(batch') = Len(buffer) + Len(batch)
    BY <1>2, <1>3, <1>4, <2>1
  <2>5. Len(buffer') + Len(batch') + shipped + dropped + Cardinality(discarded) = buffered
    BY <1>6, <2>4 DEF Once
  <2> QED BY <1>1, <1>6, <2>2, <2>3, <2>5 DEF Once, stopVars
<1> QED BY <1>1, <1>5, <1>6 DEF IInv, stopVars

LEMMA ConfirmKeepsIInv == ASSUME IInv, Confirm PROVE IInv'
<1>1. /\ loop = "confirmed" /\ loop' = "top" /\ shipped' = shipped + Len(batch)
      /\ acked' = acked \cup Range(batch) /\ batch' = <<>>
      /\ UNCHANGED <<stored, bufferVars, stopVars, flushEvent, pc>>
  BY DEF Confirm, LoopAt
<1>2. batch \in Seq(Nat) /\ Range(batch) \subseteq stored /\ stored \subseteq Nat /\ shipped \in Nat
  BY <1>1 DEF IInv, TypeOK
<1>3. Range(batch') = {} /\ Len(batch') = 0 /\ batch' \in Seq(Nat)
  BY <1>1 DEF Range
<1>4. TypeOK'
  <2>1. shipped' \in Nat
    BY <1>1, <1>2
  <2>2. acked' \subseteq Nat
    <3>1. acked \subseteq Nat
      BY DEF IInv, TypeOK
    <3> QED BY <1>1, <1>2, <3>1
  <2>3. Len(batch') <= BatchSize
    BY <1>3, ConfigAssumption
  <2> QED BY <1>1, <1>3, <2>1, <2>2, <2>3 DEF IInv, TypeOK, bufferVars, stopVars
<1>5. ASSUME Once PROVE Once'
  <2>1. Ordered'
    BY <1>1, <1>3, <1>5 DEF Once, Ordered, Sorted, bufferVars
  <2>2. /\ Waiting \cup Done = 1 .. buffered /\ Waiting \cap Done = {}
        /\ Waiting = Range(batch) \cup Range(buffer)
    BY <1>5 DEF Once, Waiting
  <2>3. Waiting' = Range(buffer) /\ Done' = Done \cup Range(batch)
    BY <1>1, <1>3 DEF Waiting, Done, bufferVars, stopVars
  <2>4. Range(batch) \cap Range(buffer) = {}
    <3>1. \A e \in Range(batch) : e \in Nat
      BY <1>2
    <3> QED BY <1>5, <3>1 DEF Once, Ordered
  <2>5. Waiting' \cup Done' = 1 .. buffered' /\ Waiting' \cap Done' = {}
    BY <1>1, <2>2, <2>3, <2>4 DEF bufferVars
  <2>6. buffered \in Nat
    BY DEF IInv, TypeOK
  <2>7. Cardinality(acked') = Cardinality(acked) + Len(batch)
    <3>1. IsFiniteSet(acked) /\ acked \cap Range(batch) = {} /\ Cardinality(acked) \in Nat
      BY <2>2, <2>6, FinitePart DEF Done
    <3>2. IsFiniteSet(Range(batch)) /\ Cardinality(Range(batch)) = Len(batch)
      BY <1>2, <1>5, Counted DEF Once, Ordered
    <3>3. Cardinality(acked \cap Range(batch)) = 0
      BY <3>1, FS_EmptySet
    <3>4. Cardinality(acked \cup Range(batch))
            = Cardinality(acked) + Cardinality(Range(batch)) - Cardinality(acked \cap Range(batch))
      BY <3>1, <3>2, FS_Union
    <3> QED BY <1>1, <1>2, <3>1, <3>2, <3>3, <3>4
  <2>8. shipped' = Cardinality(acked')
    BY <1>1, <1>5, <2>7 DEF Once
  <2>9. Len(buffer) + Len(batch') + shipped' + dropped + Cardinality(discarded) = buffered
    <3>1. Cardinality(discarded) \in Nat
      BY <2>2, <2>6, FinitePart DEF Done
    <3>2. Len(buffer) \in Nat /\ Len(batch) \in Nat /\ dropped \in Nat
      BY DEF IInv, TypeOK
    <3> QED BY <1>1, <1>2, <1>3, <1>5, <3>1, <3>2 DEF Once
  <2> QED BY <1>1, <1>2, <1>5, <2>1, <2>5, <2>8, <2>9 DEF Once, bufferVars, stopVars
<1>6. Len(batch') <= MaxBuffer
  BY <1>3, ConfigAssumption
<1> QED BY <1>1, <1>4, <1>5, <1>6 DEF IInv, stopVars

(* A failed batch goes back in front of what arrived meanwhile; the back   *)
(* of the buffer makes room for it.                                        *)
LEMMA RequeueKeepsIInv ==
  ASSUME IInv, Requeue
  PROVE  IInv' /\ Range(batch) \subseteq Range(buffer')
<1> USE ConfigAssumption
<1> DEFINE all == batch \o buffer
           n == Len(buffer')
           over == SubSeq(all, n + 1, Len(all))
<1>1. /\ loop = "failed" /\ loop' = "top" /\ buffer' = Fitting(all)
      /\ dropped' = dropped + Len(all) - Len(buffer')
      /\ gone' = gone \cup (Range(all) \ Range(buffer')) /\ batch' = <<>>
      /\ UNCHANGED <<buffered, shipped, stored, acked, stopVars, flushEvent, pc>>
  BY DEF Requeue, LoopAt, Rejoined
<1>2. /\ batch \in Seq(Nat) /\ buffer \in Seq(Nat) /\ Len(batch) \in Nat /\ Len(buffer) \in Nat
      /\ Len(batch) <= MaxBuffer /\ dropped \in Nat /\ buffered \in Nat
  BY DEF IInv, TypeOK
<1>3. /\ all \in Seq(Nat) /\ Len(all) = Len(batch) + Len(buffer)
      /\ Range(all) = Range(batch) \cup Range(buffer)
      /\ \A i \in 1 .. Len(batch) : all[i] = batch[i]
      /\ Sorted(all) <=> /\ Sorted(batch) /\ Sorted(buffer)
                        /\ \A e \in Range(batch), f \in Range(buffer) : e < f
  BY <1>2, Joined
<1> HIDE DEF all
<1>4. /\ buffer' = SubSeq(all, 1, n) /\ buffer' \in Seq(Nat) /\ n \in 0 .. Len(all)
      /\ n <= MaxBuffer /\ Len(batch) <= n
  <2>1. CASE Len(all) > MaxBuffer
    <3>1. buffer' = SubSeq(all, 1, MaxBuffer) /\ MaxBuffer \in 0 .. Len(all)
      BY <1>1, <1>3, <2>1 DEF Fitting
    <3>2. buffer' \in Seq(Nat) /\ Len(buffer') = MaxBuffer
      BY <1>3, <3>1, Parted
    <3> QED BY <1>2, <3>1, <3>2
  <2>2. CASE ~(Len(all) > MaxBuffer)
    <3>1. buffer' = all
      BY <1>1, <2>2 DEF Fitting
    <3>2. SubSeq(all, 1, Len(all)) = all
      <4> DEFINE a == SubSeq(all, 1, Len(all))
      <4>1. a \in Seq(Nat) /\ Len(a) = Len(all) /\ \A i \in 1 .. Len(all) : a[i] = all[i]
        BY <1>3, SubSeqProperties
      <4> QED BY <1>3, <4>1, SeqEqual
    <3>3. Len(all) <= MaxBuffer /\ Len(batch) <= Len(all) /\ Len(all) \in 0 .. Len(all)
      BY <1>2, <1>3, <2>2
    <3> QED BY <1>3, <3>1, <3>2, <3>3
  <2> QED BY <2>1, <2>2
<1> HIDE DEF n
<1>5. /\ over \in Seq(Nat) /\ Len(over) = Len(all) - n /\ Len(buffer') = n
      /\ Range(all) = Range(buffer') \cup Range(over)
      /\ \A i \in 1 .. n : buffer'[i] = all[i]
      /\ Sorted(all) => /\ Sorted(buffer') /\ Sorted(over)
                        /\ \A e \in Range(buffer'), f \in Range(over) : e < f
  <2> DEFINE a == SubSeq(all, 1, n)
  <2>1. /\ over \in Seq(Nat) /\ Len(over) = Len(all) - n /\ a \in Seq(Nat) /\ Len(a) = n
    BY <1>3, <1>4, Parted
  <2>2. Range(all) = Range(a) \cup Range(over)
    BY <1>3, <1>4, Parted
  <2>3. \A i \in 1 .. n : a[i] = all[i]
    BY <1>3, <1>4, Parted
  <2>4. Sorted(all) => /\ Sorted(a) /\ Sorted(over)
                       /\ \A e \in Range(a), f \in Range(over) : e < f
    BY <1>3, <1>4, Parted
  <2>5. a = buffer'
    BY <1>4
  <2> HIDE DEF a, over
  <2> QED BY <2>1, <2>2, <2>3, <2>4, <2>5
<1> HIDE DEF over
<1>6. Range(batch) \subseteq Range(buffer')
  <2>1. ASSUME NEW i \in 1 .. Len(batch) PROVE batch[i] \in Range(buffer')
    <3>1. i \in 1 .. n
      BY <1>2, <1>4
    <3>2. buffer'[i] \in Range(buffer')
      <4>1. buffer' \in Seq(Nat) /\ Len(buffer') = n
        BY <1>4, <1>5
      <4> QED BY <3>1, <4>1, InRange
    <3>3. buffer'[i] = all[i] /\ all[i] = batch[i]
      BY <1>3, <1>5, <3>1
    <3> QED BY <3>2, <3>3
  <2> QED BY <1>2, <2>1, InRange
<1>7. Range(batch') = {} /\ Len(batch') = 0 /\ batch' \in Seq(Nat)
  BY <1>1 DEF Range
<1>8. TypeOK'
  <2>1. dropped' \in Nat
    BY <1>1, <1>2, <1>3, <1>4, <1>5
  <2>2. gone' \subseteq Nat
    <3>1. gone \subseteq Nat /\ Range(all) \subseteq Nat
      BY <1>3, RangeNat DEF IInv, TypeOK
    <3> QED BY <1>1, <3>1
  <2>3. Len(batch') <= BatchSize /\ Len(buffer') <= MaxBuffer
    BY <1>4, <1>5, <1>7
  <2> QED BY <1>1, <1>4, <1>7, <2>1, <2>2, <2>3 DEF IInv, TypeOK, stopVars
<1>9. ASSUME Once PROVE Once'
  <2>1. Sorted(all)
    BY <1>3, <1>9 DEF Once, Ordered
  <2>2. Ordered'
    BY <1>5, <1>7, <2>1, <1>1 DEF Ordered, Sorted
  <2>3. Range(all) \ Range(buffer') = Range(over)
    <3>1. Range(buffer') \cap Range(over) = {}
      <4>1. \A e \in Range(over) : e \in Nat
        BY <1>5, RangeNat
      <4> QED BY <1>5, <2>1, <4>1
    <3> QED BY <1>5, <3>1
  <2>4. /\ Waiting \cup Done = 1 .. buffered /\ Waiting \cap Done = {} /\ Waiting = Range(all)
    BY <1>3, <1>9 DEF Once, Waiting
  <2>5. Waiting' = Range(buffer') /\ Done' = Done \cup Range(over)
    BY <1>1, <1>7, <2>3 DEF Waiting, Done, stopVars
  <2>6. Range(buffer') \cap Range(over) = {}
    BY <2>3
  <2>7. Waiting' \cup Done' = 1 .. buffered' /\ Waiting' \cap Done' = {}
    BY <1>1, <1>5, <2>4, <2>5, <2>6
  <2>8. Cardinality(gone') = Cardinality(gone) + (Len(all) - n) /\ Cardinality(gone) \in Nat
    <3>1. IsFiniteSet(gone) /\ gone \cap Range(over) = {} /\ Cardinality(gone) \in Nat
      <4>1. gone \subseteq 1 .. buffered /\ gone \cap Range(over) = {}
        BY <1>5, <2>4 DEF Done
      <4> QED BY <1>2, <4>1, FinitePart
    <3>2. IsFiniteSet(Range(over)) /\ Cardinality(Range(over)) = Len(over)
      BY <1>5, <2>1, Counted
    <3>3. Cardinality(gone \cap Range(over)) = 0
      BY <3>1, FS_EmptySet
    <3>4. Cardinality(gone \cup Range(over))
            = Cardinality(gone) + Cardinality(Range(over)) - Cardinality(gone \cap Range(over))
      BY <3>1, <3>2, FS_Union
    <3>5. gone' = gone \cup Range(over)
      BY <1>1, <2>3
    <3>6. Len(over) \in Nat /\ Len(over) = Len(all) - n
      BY <1>5
    <3> QED BY <3>1, <3>2, <3>3, <3>4, <3>5, <3>6
  <2>9. dropped' = Cardinality(gone')
    <3>1. /\ dropped = Cardinality(gone) /\ dropped' = dropped + Len(all) - n
          /\ n \in Nat /\ Len(all) \in Nat
      BY <1>1, <1>3, <1>4, <1>5, <1>9 DEF Once
    <3> QED BY <1>2, <2>8, <3>1
  <2>10. Len(buffer') + Len(batch') + shipped + dropped' + Cardinality(discarded) = buffered
    <3>1. Cardinality(discarded) \in Nat /\ shipped \in Nat
      <4>1. discarded \subseteq 1 .. buffered
        BY <2>4 DEF Done
      <4>2. Cardinality(discarded) \in Nat
        BY <1>2, <4>1, FinitePart
      <4> QED BY <4>2 DEF IInv, TypeOK
    <3>2. Len(buffer) + Len(batch) + shipped + dropped + Cardinality(discarded) = buffered
      BY <1>9 DEF Once
    <3>3. /\ Len(buffer') = n /\ n \in Nat /\ Len(batch') = 0
          /\ dropped' = dropped + (Len(batch) + Len(buffer)) - n
      BY <1>1, <1>3, <1>4, <1>5, <1>7
    <3> QED BY <1>2, <3>1, <3>2, <3>3
  <2> QED BY <1>1, <1>9, <2>2, <2>7, <2>9, <2>10 DEF Once, stopVars
<1>10. Len(batch') <= MaxBuffer
  BY <1>7
<1> QED BY <1>1, <1>6, <1>8, <1>9, <1>10 DEF IInv, stopVars

(* The shutdown; the buffer is cleared whole, unless another thread is at  *)
(* it.                                                                     *)
LEMMA StopKeepsIInv == ASSUME IInv, ClearRunning \/ StopStep PROVE IInv'
<1>1. CASE ClearRunning \/ SignalStop \/ JoinShipper
  <2>1. UNCHANGED <<bufferVars, shipperVars, discarded, raced, pc>> /\ stop # "cleared"
    BY <1>1 DEF ClearRunning, SignalStop, JoinShipper, StopAt
  <2>2. /\ running' \in BOOLEAN /\ flushEvent' \in {"closed", "reset", "signalled"}
        /\ stop' \in {"none", "stopping", "joining", "joined", "cleared"}
    BY <1>1 DEF ClearRunning, SignalStop, JoinShipper, StopAt, IInv, TypeOK
  <2>3. TypeOK'
    BY <2>1, <2>2 DEF IInv, TypeOK, bufferVars, shipperVars
  <2> QED BY <2>1, <2>3, SameEvents DEF IInv, bufferVars, shipperVars
<1>2. CASE ClearBuffer
  <2>1. /\ stop = "joined" /\ stop' = "cleared"
        /\ discarded' = discarded \cup (Range(buffer) \ Range(buffer'))
        /\ (raced' <=> ~MutexFree) /\ raced' \in BOOLEAN
        /\ UNCHANGED <<buffered, dropped, gone, shipperVars, running, flushEvent, pc>>
    BY <1>2 DEF ClearBuffer, StopAt
  <2>2. buffer \in Seq(Nat) /\ Len(buffer) \in Nat /\ Len(buffer) <= MaxBuffer /\ MaxBuffer \in Nat
    BY ConfigAssumption DEF IInv, TypeOK
  <2>3. buffer' \in Seq(Nat) /\ Len(buffer') <= MaxBuffer
    <3>1. CASE buffer' = <<>>
      BY <2>2, <3>1
    <3>2. CASE \E n \in 1 .. Len(buffer) + 1 : buffer' = SubSeq(buffer, n, Len(buffer))
      <4>1. PICK n \in 1 .. Len(buffer) + 1 : buffer' = SubSeq(buffer, n, Len(buffer))
        BY <3>2
      <4>2. n - 1 \in 0 .. Len(buffer) /\ (n - 1) + 1 = n
        BY <2>2
      <4>3. buffer' \in Seq(Nat) /\ Len(buffer') = Len(buffer) - (n - 1)
        BY <2>2, <4>1, <4>2, Parted
      <4> QED BY <2>2, <4>2, <4>3
    <3> QED BY <1>2, <3>1, <3>2 DEF ClearBuffer
  <2>4. TypeOK'
    <3>1. Range(buffer) \subseteq Nat
      BY <2>2, RangeNat
    <3>2. discarded' \subseteq Nat
      BY <2>1, <3>1 DEF IInv, TypeOK
    <3> QED BY <2>1, <2>3, <3>2 DEF IInv, TypeOK, shipperVars
  <2>5. ASSUME MutexFree, Once PROVE Once'
    <3>1. buffer' = <<>> /\ discarded = {}
      BY <1>2, <2>1, <2>5 DEF ClearBuffer, IInv
    <3>2. Range(buffer') = {} /\ Len(buffer') = 0
      BY <3>1 DEF Range
    <3>3. discarded' = Range(buffer)
      BY <2>1, <3>1, <3>2
    <3>4. Ordered'
      BY <2>1, <2>5, <3>1, <3>2 DEF Once, Ordered, Sorted, shipperVars
    <3>5. /\ Waiting \cup Done = 1 .. buffered /\ Waiting \cap Done = {}
          /\ Waiting = Range(batch) \cup Range(buffer)
      BY <2>5 DEF Once, Waiting
    <3>6. Waiting' = Range(batch) /\ Done' = Done \cup Range(buffer)
      BY <2>1, <3>1, <3>2, <3>3 DEF Waiting, Done, shipperVars
    <3>7. Range(batch) \cap Range(buffer) = {}
      <4>1. batch \in Seq(Nat)
        BY DEF IInv, TypeOK
      <4>2. \A e \in Range(batch) : e \in Nat
        BY <4>1, RangeNat
      <4> QED BY <2>5, <4>2 DEF Once, Ordered
    <3>8. Waiting' \cup Done' = 1 .. buffered' /\ Waiting' \cap Done' = {}
      BY <2>1, <3>5, <3>6, <3>7
    <3>9. Cardinality(discarded) = 0 /\ Cardinality(discarded') = Len(buffer)
      BY <2>2, <2>5, <3>1, <3>3, Counted, FS_EmptySet DEF Once, Ordered
    <3>10. Len(buffer') + Len(batch) + shipped + dropped + Cardinality(discarded') = buffered
      <4>1. Len(batch) \in Nat /\ shipped \in Nat /\ dropped \in Nat
        BY DEF IInv, TypeOK
      <4> QED BY <2>2, <2>5, <3>2, <3>9, <4>1 DEF Once
    <3> QED BY <2>1, <2>5, <3>4, <3>8, <3>10 DEF Once, shipperVars
  <2>6. raced' \/ Once'
    BY <2>1, <2>5 DEF IInv
  <2> QED BY <2>1, <2>4, <2>6 DEF IInv, shipperVars
<1> QED BY <1>1, <1>2 DEF StopStep

LEMMA NextKeepsIInv == IInv /\ [Next]_vars => IInv'
<1>1. ASSUME IInv, UNCHANGED vars PROVE IInv'
  <2>1. UNCHANGED <<bufferVars, shipperVars, stopVars, flushEvent, pc>>
    BY <1>1 DEF vars
  <2>2. TypeOK'
    BY <1>1, <2>1 DEF IInv, TypeOK, bufferVars, shipperVars, stopVars
  <2> QED BY <1>1, <2>1, <2>2, SameEvents DEF IInv, bufferVars, shipperVars, stopVars
<1> QED BY <1>1, CallKeepsIInv, InsertKeepsIInv, PostKeepsIInv, TakeKeepsIInv, ConfirmKeepsIInv,
           RequeueKeepsIInv, StopKeepsIInv DEF Next, ShipStep, ShipperStep

(* Buffer, batch, counters and the backend stay consistent at every step   *)
(* of any number of callers, of the shipper and of the shutdown.           *)
THEOREM Inductive == Spec => []IInv
  BY InitIInv, NextKeepsIInv, PTL DEF Spec

-----------------------------------------------------------------------------
(* Every variable has its type, and g_Buffer never exceeds MaxBufferSize.  *)
THEOREM TypeCorrect == Spec => []TypeOK
<1>1. IInv => TypeOK
  BY DEF IInv
<1> QED BY <1>1, Inductive, PTL

(* An event that ShipEvent took in is in the buffer, in the batch, at the  *)
(* backend, or counted as dropped, in one place only, none overtakes       *)
(* another, and the counters agree, unless the shutdown's clear() raced.   *)
THEOREM EventsAreKept == Spec => []EveryEventOnce
<1>1. ASSUME IInv, Once PROVE EveryEventOnce
  <2>1. ArrivalOrder
    <3>1. batch \in Seq(Nat) /\ buffer \in Seq(Nat)
      BY <1>1 DEF IInv, TypeOK
    <3>2. Sorted(batch \o buffer)
      BY <1>1, <3>1, Joined DEF Once, Ordered
    <3> QED BY <3>2 DEF ArrivalOrder, Sorted
  <2>2. Range(buffer) \cup Range(batch) \cup acked \cup gone \cup discarded = 1 .. buffered
    <3>1. Range(buffer) \cup Range(batch) \cup acked \cup gone \cup discarded = Waiting \cup Done
      BY DEF Waiting, Done
    <3> QED BY <1>1, <3>1 DEF Once
  <2> QED BY <1>1, <2>1, <2>2 DEF Once, EveryEventOnce
<1>2. IInv => EveryEventOnce
  BY <1>1 DEF IInv, EveryEventOnce
<1> QED BY <1>2, Inductive, PTL

(* ShipperLoop puts a failed batch back whole, also when the buffer filled *)
(* up during the POST.                                                     *)
THEOREM BatchesStayWhole == Spec => RetryIsWhole
<1>1. IInv /\ [Next]_vars => [Requeue => Range(batch) \subseteq Range(buffer')]_vars
  BY RequeueKeepsIInv
<1> QED BY <1>1, Inductive, PTL DEF Spec, RetryIsWhole

=============================================================================

-------------------------- MODULE TimeSync_proofs --------------------------
(***************************************************************************)
(* Proofs about TimeSync, for all topics, stamps, specs and streams: the   *)
(* queues stay bounded, and the bundles returned are within max_slop, one  *)
(* entry per topic, and never repeat an entry.                             *)
(***************************************************************************)
EXTENDS TimeSync, OrderLemmas, FiniteSetTheorems, SequenceTheorems

(* A queue with at most one entry per stamp, finite and within the limit.  *)
Queue(q) ==
    /\ q \subseteq Entries
    /\ IsFiniteSet(q)
    /\ \A e, f \in q : e.stamp = f.stamp => e = f
    /\ Cardinality(q) <= spec.max_queue_size \/ Cardinality(q) <= 1

LEMMA SubQueue ==
    ASSUME NEW q, Queue(q), NEW r \in SUBSET q, spec.max_queue_size \in Nat
    PROVE  Queue(r)
<1>1. /\ IsFiniteSet(r) /\ Cardinality(r) <= Cardinality(q)
      /\ Cardinality(r) \in Nat /\ Cardinality(q) \in Nat
  BY FS_Subset, FS_CardinalityType DEF Queue
<1>2. QED
  BY <1>1 DEF Queue

(* Popping the most stale entry makes room for one more.                   *)
LEMMA PopMostStaleMakesRoom ==
    ASSUME NEW q, Queue(q), q # {}
    PROVE  /\ PopMostStale(q) \subseteq q
           /\ IsFiniteSet(PopMostStale(q))
           /\ Cardinality(PopMostStale(q)) < Cardinality(q)
<1> DEFINE S == {e.stamp : e \in q}
<1>1. S \in SUBSET Nat /\ S # {}
  BY TimeSyncAssumption DEF Queue, Entries
<1>2. PICK m \in S : \A n \in S : m <= n
  BY <1>1, LeastElement
<1>3. PICK e \in q : e.stamp = m
  OBVIOUS
<1>4. e \notin PopMostStale(q)
  <2> SUFFICES ASSUME NEW f \in q, f.stamp < e.stamp PROVE FALSE
    BY DEF PopMostStale
  <2>1. f.stamp \in Nat /\ e.stamp \in Nat
    BY <1>1
  <2>2. e.stamp <= f.stamp
    BY <1>2, <1>3
  <2>3. QED
    BY <2>1, <2>2
<1>5. PopMostStale(q) \in SUBSET (q \ {e})
  BY <1>4 DEF PopMostStale
<1>6. /\ IsFiniteSet(q \ {e}) /\ Cardinality(q \ {e}) = Cardinality(q) - 1
      /\ Cardinality(q) \in Nat
  BY FS_RemoveElement, FS_CardinalityType DEF Queue
<1>7. /\ IsFiniteSet(PopMostStale(q))
      /\ Cardinality(PopMostStale(q)) <= Cardinality(q \ {e})
      /\ Cardinality(PopMostStale(q)) \in Nat
  BY <1>5, <1>6, FS_Subset, FS_CardinalityType
<1>8. QED
  BY <1>5, <1>6, <1>7

(* Enqueue keeps the limit and the one-entry-per-stamp discipline.         *)
LEMMA EnqueueKeepsQueue ==
    ASSUME NEW q, Queue(q), NEW e \in Entries, spec.max_queue_size \in Nat
    PROVE  Queue(Enqueue(q, e)) /\ Enqueue(q, e) \subseteq q \cup {e}
<1> DEFINE full == Cardinality(q) >= spec.max_queue_size
           room == IF full THEN PopMostStale(q) ELSE q
<1>1. Cardinality(q) \in Nat
  BY FS_CardinalityType DEF Queue
<1>2. /\ room \in SUBSET q
      /\ IsFiniteSet(room)
      /\ Cardinality(room) < spec.max_queue_size \/ Cardinality(room) <= 0
  <2>1. CASE ~full
    BY <1>1, <2>1 DEF Queue
  <2>2. CASE full /\ q = {}
    BY <2>2, FS_EmptySet DEF PopMostStale
  <2>3. CASE full /\ q # {}
    <3>1. /\ room \subseteq q /\ IsFiniteSet(room)
          /\ Cardinality(room) < Cardinality(q)
      BY <2>3, PopMostStaleMakesRoom
    <3>2. Cardinality(room) \in Nat
      BY <3>1, FS_CardinalityType
    <3>3. QED
      BY <1>1, <3>1, <3>2 DEF Queue
  <2>4. QED
    BY <2>1, <2>2, <2>3
<1>3. Queue(room)
  BY <1>2, SubQueue
<1>4. Enqueue(q, e) = Push(room, e)
  BY DEF Enqueue
<1> HIDE DEF room
<1>5. CASE \E f \in room : f.stamp = e.stamp
  BY <1>2, <1>3, <1>4, <1>5 DEF Push
<1>6. CASE ~\E f \in room : f.stamp = e.stamp
  <2>1. Push(room, e) = room \cup {e}
    BY <1>6 DEF Push
  <2>2. /\ IsFiniteSet(room \cup {e})
        /\ Cardinality(room \cup {e}) <= Cardinality(room) + 1
        /\ Cardinality(room) \in Nat
        /\ Cardinality(room \cup {e}) \in Nat
    <3>1. Cardinality(room) \in Nat
      BY <1>2, FS_CardinalityType
    <3>2. QED
      BY <1>2, <3>1, FS_AddElement, FS_CardinalityType
  <2>3. Cardinality(room \cup {e}) <= spec.max_queue_size
          \/ Cardinality(room \cup {e}) <= 1
    BY <1>2, <2>2
  <2>4. \A f, g \in room \cup {e} : f.stamp = g.stamp => f = g
    BY <1>3, <1>6 DEF Queue
  <2>5. QED
    BY <1>2, <1>3, <1>4, <2>1, <2>2, <2>3, <2>4 DEF Queue
<1>7. QED
  BY <1>5, <1>6
-----------------------------------------------------------------------------
(* The inductive invariant.  Beyond the types, the queue limit and the     *)
(* soundness of bundles it says that queues are finite and that every      *)
(* entry handed to the caller was read before, so an arriving entry is     *)
(* new to both.                                                            *)
IInv ==
    /\ TypeOK /\ QueuesBounded /\ BundlesSound
    /\ \A t \in DOMAIN topic_to_q : IsFiniteSet(topic_to_q[t])
    /\ \A e \in delivered : e.id <= reads

LEMMA SpecTyped ==
    ASSUME TypeOK
    PROVE  /\ spec.topics \in Seq(Topics)
           /\ spec.max_slop \in Nat
           /\ spec.max_queue_size \in Nat
BY TimeSyncAssumption DEF TypeOK

LEMMA QueuesAreQueues ==
    ASSUME IInv
    PROVE  \A t \in DOMAIN topic_to_q : Queue(topic_to_q[t])
BY DEF IInv, TypeOK, QueuesBounded, Queue

LEMMA InitIInv == Init => IInv
<1> SUFFICES ASSUME Init PROVE IInv
  OBVIOUS
<1>1. spec \in Specs /\ topic_to_q = [t \in RangeOf(spec.topics) |-> {}]
  BY DEF Init
<1>2. \A t \in DOMAIN topic_to_q : topic_to_q[t] = {}
  BY <1>1
<1>3. IsFiniteSet({}) /\ Cardinality({}) = 0
  BY FS_EmptySet
<1>4. TypeOK
  BY <1>1, <1>2, TimeSyncAssumption DEF Init, TypeOK, NoBundle, OutOfOrder
<1>5. QueuesBounded
  BY <1>2, <1>3 DEF QueuesBounded
<1>6. BundlesSound
  BY <1>2 DEF Init, BundlesSound, NoBundle
<1>7. QED
  BY <1>2, <1>3, <1>4, <1>5, <1>6 DEF Init, IInv

(* A step that leaves queues, reads and bundles alone keeps the invariant. *)
LEMMA StutterIInv ==
    ASSUME IInv,
           UNCHANGED <<spec, topic_to_q, reads, delivered, watermark>>,
           pc' \in {"idle", "try", "read"},
           result' = result \/ result' = NoBundle
    PROVE  IInv'
<1>1. TypeOK'
  BY DEF IInv, TypeOK
<1>2. QueuesBounded'
  BY DEF IInv, QueuesBounded
<1>3. BundlesSound'
  BY DEF IInv, BundlesSound, WithinSlop
<1>4. QED
  BY <1>1, <1>2, <1>3 DEF IInv

(* Removing entries from the queues, and handing some of those removed to  *)
(* the caller, keeps what concerns the queues.                             *)
LEMMA PopKeepsQueues ==
    ASSUME IInv, NEW popped, Pop(popped), spec' = spec, reads' = reads
    PROVE  /\ topic_to_q' \in [RangeOf(spec.topics) -> SUBSET Entries]
           /\ \A t \in DOMAIN topic_to_q' :
                /\ Queue(topic_to_q'[t])
                /\ topic_to_q'[t] = topic_to_q[t] \ popped
<1>1. topic_to_q \in [RangeOf(spec.topics) -> SUBSET Entries]
  BY DEF IInv, TypeOK
<1>2. topic_to_q' = [t \in DOMAIN topic_to_q |-> topic_to_q[t] \ popped]
  BY DEF Pop
<1>3. spec.max_queue_size \in Nat
  BY SpecTyped DEF IInv
<1>4. ASSUME NEW t \in DOMAIN topic_to_q
      PROVE  Queue(topic_to_q[t] \ popped)
  BY <1>3, <1>4, QueuesAreQueues, SubQueue
<1>5. QED
  BY <1>1, <1>2, <1>4

(* What the queues owe to the rest of the invariant, from their being      *)
(* queues.                                                                 *)
LEMMA QueuesPrimed ==
    ASSUME \A t \in DOMAIN topic_to_q' : Queue(topic_to_q'[t]), spec' = spec
    PROVE  /\ QueuesBounded'
           /\ \A t \in DOMAIN topic_to_q' :
                /\ IsFiniteSet(topic_to_q'[t])
                /\ \A e, f \in topic_to_q'[t] : e.stamp = f.stamp => e = f
BY DEF Queue, QueuesBounded

LEMMA TryGetNextIInv == IInv /\ TryGetNext => IInv'
<1> SUFFICES ASSUME IInv, TryGetNext PROVE IInv'
  OBVIOUS
<1>1. PICK b \in Bundles : /\ FoundBundle(b)
                           /\ \A i \in DOMAIN b : ~MissingAt(b, i)
                           /\ Pop(RangeOf(b))
                           /\ result' = b
                           /\ delivered' = delivered \cup RangeOf(b)
  BY DEF TryGetNext
<1>2. /\ pc' = "idle" /\ spec' = spec /\ reads' = reads /\ watermark' = watermark
  BY DEF TryGetNext
<1>3. /\ topic_to_q' \in [RangeOf(spec.topics) -> SUBSET Entries]
      /\ \A t \in DOMAIN topic_to_q' :
            /\ Queue(topic_to_q'[t])
            /\ topic_to_q'[t] = topic_to_q[t] \ RangeOf(b)
  BY <1>1, <1>2, PopKeepsQueues
<1>4. topic_to_q \in [RangeOf(spec.topics) -> SUBSET Entries]
  BY DEF IInv, TypeOK
<1>5. /\ b \in [DOMAIN spec.topics -> UNION RangeOf(topic_to_q)]
      /\ \A i \in DOMAIN spec.topics : b[i] \in topic_to_q[spec.topics[i]]
  BY DEF Bundles
<1>6. \A i \in DOMAIN spec.topics :
        spec.topics[i] \in DOMAIN topic_to_q
  BY <1>4 DEF RangeOf
<1>7. \A i \in DOMAIN spec.topics :
        b[i] \in Entries /\ b[i].topic = spec.topics[i] /\ b[i].id <= reads
  BY <1>4, <1>5, <1>6 DEF IInv, TypeOK
<1>8. b \in [DOMAIN spec.topics -> Entries] /\ RangeOf(b) \subseteq Entries
  BY <1>5, <1>7 DEF RangeOf
<1>9. TypeOK'
  <2>1. \A t \in DOMAIN topic_to_q' : \A e \in topic_to_q'[t] :
          e.topic = t /\ e.id <= reads
    BY <1>3, <1>4 DEF IInv, TypeOK
  <2>2. \A t \in DOMAIN topic_to_q' : \A e, f \in topic_to_q'[t] :
          e.stamp = f.stamp => e = f
    BY <1>2, <1>3, QueuesPrimed
  <2>3. QED
    BY <1>1, <1>2, <1>3, <1>8, <2>1, <2>2 DEF IInv, TypeOK
<1>10. BundlesSound'
  <2>1. WithinSlop(b)
    BY <1>1 DEF FoundBundle
  <2>2. WithinSlop(result)'
    BY <1>1, <1>2, <2>1 DEF WithinSlop
  <2>3. \A t \in DOMAIN topic_to_q' : topic_to_q'[t] \cap delivered' = {}
    BY <1>1, <1>3, <1>4 DEF IInv, BundlesSound
  <2>4. ASSUME NEW i \in DOMAIN spec.topics, NEW j \in DOMAIN spec.topics, b[i] = b[j]
        PROVE  i = j
    <3>1. spec.topics[i] = spec.topics[j] /\ i \in DOMAIN b /\ j \in DOMAIN b
      BY <1>5, <1>7, <2>4
    <3>2. ~(j < i) /\ ~(i < j)
      BY <1>1, <2>4, <3>1 DEF MissingAt
    <3>3. i \in Nat /\ j \in Nat
      BY SpecTyped DEF IInv
    <3>4. QED
      BY <3>2, <3>3
  <2>5. QED
    BY <1>1, <1>2, <1>7, <2>2, <2>3, <2>4 DEF BundlesSound
<1>11. \A e \in delivered' : e.id <= reads'
  BY <1>1, <1>2, <1>5, <1>7 DEF IInv, RangeOf
<1>12. QED
  BY <1>2, <1>3, <1>9, <1>10, <1>11, QueuesPrimed DEF IInv

LEMMA TryGetNextMissingIInv == IInv /\ TryGetNextMissing => IInv'
<1> SUFFICES ASSUME IInv, TryGetNextMissing PROVE IInv'
  OBVIOUS
<1>1. PICK popped : Pop(popped)
  BY DEF TryGetNextMissing
<1>2. /\ pc' = "read"
      /\ UNCHANGED <<spec, result, reads, delivered, watermark>>
  BY DEF TryGetNextMissing
<1>3. /\ topic_to_q' \in [RangeOf(spec.topics) -> SUBSET Entries]
      /\ \A t \in DOMAIN topic_to_q' :
            /\ Queue(topic_to_q'[t])
            /\ topic_to_q'[t] = topic_to_q[t] \ popped
  BY <1>1, <1>2, PopKeepsQueues
<1>4. topic_to_q \in [RangeOf(spec.topics) -> SUBSET Entries]
  BY DEF IInv, TypeOK
<1>5. TypeOK'
  <2>1. \A t \in DOMAIN topic_to_q' : \A e \in topic_to_q'[t] :
          e.topic = t /\ e.id <= reads
    BY <1>3, <1>4 DEF IInv, TypeOK
  <2>2. \A t \in DOMAIN topic_to_q' : \A e, f \in topic_to_q'[t] :
          e.stamp = f.stamp => e = f
    BY <1>2, <1>3, QueuesPrimed
  <2>3. QED
    BY <1>2, <1>3, <2>1, <2>2 DEF IInv, TypeOK
<1>6. BundlesSound'
  <2>1. \A t \in DOMAIN topic_to_q' : topic_to_q'[t] \cap delivered' = {}
    BY <1>2, <1>3, <1>4 DEF IInv, BundlesSound
  <2>2. QED
    BY <1>2, <2>1 DEF IInv, BundlesSound, WithinSlop
<1>7. QED
  BY <1>2, <1>3, <1>5, <1>6, QueuesPrimed DEF IInv

LEMMA ReadEntryIInv ==
    ASSUME IInv, NEW topic \in Topics, NEW stamp \in Stamps,
           ReadEntry(topic, stamp)
    PROVE  IInv'
<1> DEFINE e == [topic |-> topic, stamp |-> stamp, id |-> reads + 1]
<1>1. /\ reads \in 0 .. MaxReads /\ reads < MaxReads /\ reads' = reads + 1
      /\ pc' = "try" /\ spec' = spec /\ result' = result /\ delivered' = delivered
      /\ watermark' \in Stamps \cup {0, OutOfOrder}
  BY DEF ReadEntry, IInv, TypeOK
<1>2. e \in Entries
  BY <1>1, TimeSyncAssumption DEF Entries
<1>3. topic_to_q' = [t \in DOMAIN topic_to_q |->
                        IF t = topic THEN Enqueue(topic_to_q[t], e)
                                     ELSE topic_to_q[t]]
  BY DEF ReadEntry
<1>4. topic_to_q \in [RangeOf(spec.topics) -> SUBSET Entries]
  BY DEF IInv, TypeOK
<1> HIDE DEF e
<1>5. \A t \in DOMAIN topic_to_q :
        /\ Queue(topic_to_q'[t])
        /\ topic_to_q'[t] \subseteq topic_to_q[t] \cup {e}
        /\ t # topic => topic_to_q'[t] = topic_to_q[t]
  <2> SUFFICES ASSUME NEW t \in DOMAIN topic_to_q
               PROVE  /\ Queue(topic_to_q'[t])
                      /\ topic_to_q'[t] \subseteq topic_to_q[t] \cup {e}
                      /\ t # topic => topic_to_q'[t] = topic_to_q[t]
    OBVIOUS
  <2>1. Queue(topic_to_q[t]) /\ spec.max_queue_size \in Nat
    BY QueuesAreQueues, SpecTyped DEF IInv
  <2>2. CASE t = topic
    BY <1>2, <1>3, <2>1, <2>2, EnqueueKeepsQueue
  <2>3. CASE t # topic
    BY <1>3, <2>1, <2>3
  <2>4. QED
    BY <2>2, <2>3
<1>6. DOMAIN topic_to_q' = DOMAIN topic_to_q
  BY <1>3
<1>7. /\ e.topic = topic /\ e.id = reads + 1
  BY DEF e
<1>8. TypeOK'
  <2>1. topic_to_q' \in [RangeOf(spec.topics) -> SUBSET Entries]
    BY <1>3, <1>4, <1>5, <1>6 DEF Queue
  <2>2. \A t \in DOMAIN topic_to_q' : \A f \in topic_to_q'[t] :
          f.topic = t /\ f.id <= reads'
    <3> SUFFICES ASSUME NEW t \in DOMAIN topic_to_q, NEW f \in topic_to_q'[t]
                 PROVE  f.topic = t /\ f.id <= reads'
      BY <1>6
    <3>1. CASE f \in topic_to_q[t]
      <4>1. f.topic = t /\ f.id <= reads
        BY <3>1 DEF IInv, TypeOK
      <4>2. f.id \in Nat
        BY <1>4, <3>1 DEF Entries
      <4>3. QED
        BY <1>1, <4>1, <4>2
    <3>2. CASE f \notin topic_to_q[t]
      BY <1>1, <1>5, <1>7, <3>2
    <3>3. QED
      BY <3>1, <3>2
  <2>3. \A t \in DOMAIN topic_to_q' : \A f, g \in topic_to_q'[t] :
          f.stamp = g.stamp => f = g
    BY <1>5, <1>6 DEF Queue
  <2>4. QED
    BY <1>1, <2>1, <2>2, <2>3, TimeSyncAssumption DEF IInv, TypeOK
<1>9. e \notin delivered
  BY <1>1, <1>7 DEF IInv
<1>10. BundlesSound'
  <2>1. \A t \in DOMAIN topic_to_q' : topic_to_q'[t] \cap delivered' = {}
    BY <1>1, <1>5, <1>6, <1>9 DEF IInv, BundlesSound
  <2>2. QED
    BY <1>1, <2>1 DEF IInv, BundlesSound, WithinSlop
<1>11. \A f \in delivered' : f.id <= reads'
  <2>1. \A f \in delivered : f.id \in Nat /\ f.id <= reads
    BY DEF IInv, TypeOK, Entries
  <2>2. QED
    BY <1>1, <2>1
<1>12. QED
  BY <1>1, <1>5, <1>6, <1>8, <1>10, <1>11, QueuesPrimed DEF IInv

LEMMA ReadUnstampedIInv == IInv /\ ReadUnstamped => IInv'
<1> SUFFICES ASSUME IInv, ReadUnstamped PROVE IInv'
  OBVIOUS
<1>1. /\ reads \in 0 .. MaxReads /\ reads < MaxReads /\ reads' = reads + 1
      /\ pc' = "try"
      /\ UNCHANGED <<spec, topic_to_q, result, delivered, watermark>>
  BY DEF ReadUnstamped, IInv, TypeOK
<1>2. \A t \in DOMAIN topic_to_q : \A e \in topic_to_q[t] :
        e.id \in Nat /\ e.id <= reads
  BY DEF IInv, TypeOK, Entries
<1>3. \A e \in delivered : e.id \in Nat /\ e.id <= reads
  BY DEF IInv, TypeOK, Entries
<1>4. /\ \A t \in DOMAIN topic_to_q : \A e \in topic_to_q[t] : e.id <= reads'
      /\ \A e \in delivered : e.id <= reads'
      /\ reads' \in 0 .. MaxReads
  BY <1>1, <1>2, <1>3, TimeSyncAssumption
<1>5. TypeOK'
  BY <1>1, <1>4 DEF IInv, TypeOK
<1>6. QueuesBounded' /\ BundlesSound'
  BY <1>1 DEF IInv, QueuesBounded, BundlesSound, WithinSlop
<1>7. QED
  BY <1>1, <1>4, <1>5, <1>6 DEF IInv

LEMMA NextIInv == IInv /\ [Next]_vars => IInv'
<1> SUFFICES ASSUME IInv, [Next]_vars PROVE IInv'
  OBVIOUS
<1>1. CASE UNCHANGED vars
  BY <1>1, StutterIInv DEF vars, IInv, TypeOK
<1>2. CASE Call
  BY <1>2, StutterIInv DEF Call
<1>3. CASE TryGetNextFails
  BY <1>3, StutterIInv DEF TryGetNextFails
<1>4. CASE ReadFails
  BY <1>4, StutterIInv DEF ReadFails
<1>5. QED
  BY <1>1, <1>2, <1>3, <1>4, TryGetNextIInv, TryGetNextMissingIInv,
     ReadEntryIInv, ReadUnstampedIInv DEF Next, GetNextStep

(* The queues hold entries of their topics, no two of one stamp, of which  *)
(* each was read (MaxSlopTimeSync::Impl).                                  *)
THEOREM TypeCorrect == Spec => []TypeOK
<1>1. IInv => TypeOK
  BY DEF IInv
<1>2. QED
  BY <1>1, InitIInv, NextIInv, PTL DEF Spec

(* No queue of the synchronizer outgrows its limit.                        *)
THEOREM QueuesStayBounded == Spec => []QueuesBounded
<1>1. IInv => QueuesBounded
  BY DEF IInv
<1>2. QED
  BY <1>1, InitIInv, NextIInv, PTL DEF Spec

(* Bundles are within max_slop, one entry per topic, and never repeat one. *)
THEOREM BundlesAreSound == Spec => []BundlesSound
<1>1. IInv => BundlesSound
  BY DEF IInv
<1>2. QED
  BY <1>1, InitIInv, NextIInv, PTL DEF Spec

-----------------------------------------------------------------------------
(* No bundle is left in the queues.                                        *)
NoneLeft == spec.topics # <<>> => \A b \in Bundles : ~WithinSlop(b)

LEMMA BundleFacts ==
    ASSUME IInv, NEW b \in Bundles
    PROVE  /\ DOMAIN b = DOMAIN spec.topics
           /\ \A i \in DOMAIN spec.topics :
                /\ spec.topics[i] \in DOMAIN topic_to_q
                /\ b[i] \in topic_to_q[spec.topics[i]]
                /\ b[i].stamp \in Nat
<1>1. topic_to_q \in [RangeOf(spec.topics) -> SUBSET Entries]
  BY DEF IInv, TypeOK
<1>2. \A i \in DOMAIN spec.topics : spec.topics[i] \in DOMAIN topic_to_q
  BY <1>1 DEF RangeOf
<1>3. \A e \in Entries : e.stamp \in Nat
  BY TimeSyncAssumption DEF Entries
<1>4. \A t \in DOMAIN topic_to_q : topic_to_q[t] \subseteq Entries
  BY <1>1
<1>5. \A i \in DOMAIN spec.topics : b[i] \in topic_to_q[spec.topics[i]]
  BY DEF Bundles
<1>6. QED
  BY <1>2, <1>3, <1>4, <1>5 DEF Bundles

(* To be a bundle of the queues: one entry of each topic.                  *)
LEMMA IsBundle ==
    ASSUME IInv, NEW b, b = [i \in DOMAIN spec.topics |-> b[i]],
           \A i \in DOMAIN spec.topics : b[i] \in topic_to_q[spec.topics[i]]
    PROVE  b \in Bundles
<1>1. topic_to_q \in [RangeOf(spec.topics) -> SUBSET Entries]
  BY DEF IInv, TypeOK
<1>2. \A i \in DOMAIN spec.topics : topic_to_q[spec.topics[i]] \in RangeOf(topic_to_q)
  BY <1>1 DEF RangeOf
<1>3. \A i \in DOMAIN spec.topics : b[i] \in UNION RangeOf(topic_to_q)
  BY <1>2
<1>4. b \in [DOMAIN spec.topics -> UNION RangeOf(topic_to_q)]
  BY <1>3
<1>5. QED
  BY <1>4 DEF Bundles

(* Queues that shrink have no new bundles.                                 *)
LEMMA FewerBundles ==
    ASSUME IInv, IInv', spec' = spec,
           \A t \in DOMAIN topic_to_q' : topic_to_q'[t] \subseteq topic_to_q[t]
    PROVE  Bundles' \subseteq Bundles
<1> SUFFICES ASSUME NEW b \in Bundles' PROVE b \in Bundles
  OBVIOUS
<1>1. topic_to_q' \in [RangeOf(spec.topics) -> SUBSET Entries]
  BY DEF IInv, TypeOK
<1>2. /\ b = [i \in DOMAIN spec.topics |-> b[i]]
      /\ \A i \in DOMAIN spec.topics : b[i] \in topic_to_q'[spec.topics[i]]
  BY DEF Bundles
<1>3. \A i \in DOMAIN spec.topics : spec.topics[i] \in DOMAIN topic_to_q'
  BY <1>1 DEF RangeOf
<1>4. QED
  BY <1>2, <1>3, IsBundle

LEMMA DistinctNeverMissing ==
    ASSUME IInv, TopicsDistinct, NEW b \in Bundles, NEW i \in DOMAIN b
    PROVE  ~MissingAt(b, i)
<1>1. spec.topics \in Seq(Topics) /\ DOMAIN b = DOMAIN spec.topics
  BY SpecTyped, BundleFacts DEF IInv
<1>2. DOMAIN spec.topics \subseteq Nat
  BY <1>1
<1>3. QED
  BY <1>1, <1>2 DEF MissingAt, TopicsDistinct

LEMMA NotMissing == IInv /\ TopicsDistinct => ~TryGetNextMissing
BY DistinctNeverMissing DEF TryGetNextMissing

LEMMA ResultIsABundle == IInv /\ TryGetNext => result' # NoBundle
<1> SUFFICES ASSUME IInv, TryGetNext PROVE result' # NoBundle
  OBVIOUS
<1>1. result' \in Bundles /\ spec.topics # <<>>
  BY DEF TryGetNext
<1>2. DOMAIN result' = DOMAIN spec.topics
  BY <1>1, BundleFacts
<1>3. spec.topics \in Seq(Topics)
  BY SpecTyped DEF IInv
<1>4. DOMAIN spec.topics = 1 .. Len(spec.topics) /\ Len(spec.topics) > 0
  BY <1>1, <1>3, EmptySeq, LenProperties
<1>5. 1 \in DOMAIN spec.topics
  BY <1>3, <1>4, LenProperties
<1>6. 1 \notin DOMAIN NoBundle
  BY DEF NoBundle
<1>7. QED
  BY <1>2, <1>5, <1>6

(* Where GetNext reads on or has given up, no bundle is in the queues.     *)
GaveUp == pc = "read" \/ (pc = "idle" /\ result = NoBundle /\ reads > 0)

WithheldInv == TopicsDistinct /\ GaveUp => NoneLeft

LEMMA StepKeepsWithheld == IInv /\ WithheldInv /\ [Next]_vars => WithheldInv'
<1> SUFFICES ASSUME IInv, WithheldInv, [Next]_vars, TopicsDistinct, GaveUp'
             PROVE  NoneLeft'
  <2>1. [Next]_vars => spec' = spec
    BY DEF Next, GetNextStep, Call, TryGetNextFails, TryGetNext, TryGetNextMissing,
           ReadEntry, ReadUnstamped, ReadFails, vars
  <2>2. QED
    BY <2>1 DEF WithheldInv, TopicsDistinct
<1>1. CASE TryGetNextFails
  <2>1. NoneLeft /\ UNCHANGED <<spec, topic_to_q>>
    BY <1>1 DEF TryGetNextFails, NoneLeft
  <2>2. QED
    BY <2>1 DEF NoneLeft, Bundles, WithinSlop
<1>2. CASE TryGetNext
  <2>1. pc' = "idle" /\ result' # NoBundle
    BY <1>2, ResultIsABundle DEF TryGetNext
  <2>2. QED
    BY <2>1 DEF GaveUp
<1>3. CASE TryGetNextMissing
  BY <1>3, NotMissing
<1>4. CASE Call \/ ReadUnstamped \/ \E t \in Topics, s \in Stamps : ReadEntry(t, s)
  <2>1. pc' = "try"
    BY <1>4 DEF Call, ReadUnstamped, ReadEntry
  <2>2. QED
    BY <2>1 DEF GaveUp
<1>5. CASE ReadFails
  <2>1. NoneLeft /\ UNCHANGED <<spec, topic_to_q>>
    BY <1>5 DEF ReadFails, WithheldInv, GaveUp
  <2>2. QED
    BY <2>1 DEF NoneLeft, Bundles, WithinSlop
<1>6. CASE UNCHANGED vars
  <2>1. NoneLeft /\ UNCHANGED <<spec, topic_to_q>>
    BY <1>6 DEF vars, WithheldInv, GaveUp
  <2>2. QED
    BY <2>1 DEF NoneLeft, Bundles, WithinSlop
<1>7. QED
  BY <1>1, <1>2, <1>3, <1>4, <1>5, <1>6 DEF Next, GetNextStep

(* GetNext gives up only when the queues hold no bundle within max_slop.   *)
THEOREM NothingIsWithheld == Spec => []NoBundleWithheld
<1>1. Init => WithheldInv
  BY DEF Init, WithheldInv, GaveUp
<1>2. WithheldInv => NoBundleWithheld
  BY DEF WithheldInv, GaveUp, NoneLeft, NoBundleWithheld
<1>3. QED
  BY InitIInv, NextIInv, StepKeepsWithheld, <1>1, <1>2, PTL DEF Spec

-----------------------------------------------------------------------------
(* What the most stale entry is.                                           *)
LEMMA EvictedIsStalest ==
    ASSUME NEW q, Queue(q), NEW e \in Entries, NEW f \in q \ Enqueue(q, e)
    PROVE  /\ Cardinality(q) >= spec.max_queue_size
           /\ \A g \in q : f.stamp <= g.stamp
<1>1. Cardinality(q) >= spec.max_queue_size /\ f \notin PopMostStale(q)
  BY DEF Enqueue, Push
<1>2. \A g \in q : ~(g.stamp < f.stamp)
  BY <1>1 DEF PopMostStale
<1>3. \A g \in q : g.stamp \in Nat
  BY TimeSyncAssumption DEF Queue, Entries
<1>4. QED
  BY <1>1, <1>2, <1>3

(* What a step may take from a queue.                                      *)
LossOK ==
    \A t \in DOMAIN topic_to_q :
        \A e \in topic_to_q[t] \ topic_to_q'[t] :
            \/ e \in delivered'
            \/ /\ reads' # reads
               /\ Cardinality(topic_to_q[t]) >= spec.max_queue_size
               /\ \A f \in topic_to_q[t] : e.stamp <= f.stamp

LEMMA StepLosesNothingElse == IInv /\ TopicsDistinct /\ [Next]_vars => LossOK
<1> SUFFICES ASSUME IInv, TopicsDistinct, [Next]_vars PROVE LossOK
  OBVIOUS
<1>1. CASE TryGetNext
  BY <1>1 DEF TryGetNext, Pop, LossOK
<1>2. CASE TryGetNextMissing
  BY <1>2, NotMissing
<1>3. ASSUME NEW topic \in Topics, NEW stamp \in Stamps, ReadEntry(topic, stamp)
      PROVE  LossOK
  <2> DEFINE e == [topic |-> topic, stamp |-> stamp, id |-> reads + 1]
  <2>1. reads \in Nat /\ reads < MaxReads /\ reads' = reads + 1
    BY <1>3 DEF ReadEntry, IInv, TypeOK
  <2>2. e \in Entries
    BY <2>1, TimeSyncAssumption DEF Entries
  <2>3. topic_to_q' = [t \in DOMAIN topic_to_q |->
                          IF t = topic THEN Enqueue(topic_to_q[t], e)
                                       ELSE topic_to_q[t]]
    BY <1>3 DEF ReadEntry
  <2> HIDE DEF e
  <2>4. ASSUME NEW t \in DOMAIN topic_to_q, NEW f \in topic_to_q[t] \ topic_to_q'[t]
        PROVE  /\ Cardinality(topic_to_q[t]) >= spec.max_queue_size
               /\ \A g \in topic_to_q[t] : f.stamp <= g.stamp
    <3>1. f \in topic_to_q[t] \ Enqueue(topic_to_q[t], e)
      BY <2>3, <2>4
    <3>2. QED
      BY <2>2, <3>1, QueuesAreQueues, EvictedIsStalest
  <2>5. QED
    BY <2>1, <2>4 DEF LossOK
<1>4. CASE Call \/ TryGetNextFails \/ ReadUnstamped \/ ReadFails \/ UNCHANGED vars
  BY <1>4 DEF Call, TryGetNextFails, ReadUnstamped, ReadFails, vars, LossOK
<1>5. QED
  BY <1>1, <1>2, <1>3, <1>4 DEF Next, GetNextStep

(* An entry leaves its queue only in a returned bundle, or as the most     *)
(* stale one of a full queue when another entry of its topic arrives.      *)
THEOREM LossIsJustified == Spec => LossJustified
<1>1. IInv /\ [Next]_vars =>
        [TopicsDistinct =>
            \A t \in DOMAIN topic_to_q :
                /\ \A e \in topic_to_q[t] \ topic_to_q'[t] :
                    \/ e \in delivered'
                    \/ /\ reads' # reads
                       /\ Cardinality(topic_to_q[t]) >= spec.max_queue_size
                       /\ \A f \in topic_to_q[t] : e.stamp <= f.stamp]_vars
  BY StepLosesNothingElse DEF LossOK
<1>2. QED
  BY InitIInv, NextIInv, <1>1, PTL DEF Spec, LossJustified

-----------------------------------------------------------------------------
(* While stamps come in order: none queued is later than the last one      *)
(* read, and only a bundle that has the last one can be within max_slop,   *)
(* and only until GetNext has tried it.                                    *)
InOrderInv ==
    watermark # OutOfOrder =>
        /\ \A t \in DOMAIN topic_to_q : \A e \in topic_to_q[t] : e.stamp <= watermark
        /\ TopicsDistinct /\ spec.topics # <<>> =>
             \A b \in Bundles : WithinSlop(b) =>
                pc = "try" /\ \E k \in DOMAIN b : b[k].stamp = watermark

(* The bundle found cannot be raised to a fresher entry of one topic: the  *)
(* raised bundle would be emitted later, and so overwrite it.              *)
LEMMA FoundIsLast ==
    ASSUME IInv, NEW b \in Bundles, FoundBundle(b),
           NEW i \in DOMAIN spec.topics, NEW f \in topic_to_q[spec.topics[i]],
           f.stamp > b[i].stamp,
           \A j \in DOMAIN spec.topics : /\ f.stamp - b[j].stamp <= spec.max_slop
                                         /\ b[j].stamp - f.stamp <= spec.max_slop
    PROVE  FALSE
<1> DEFINE c == [j \in DOMAIN spec.topics |-> IF j = i THEN f ELSE b[j]]
<1>1. /\ DOMAIN b = DOMAIN spec.topics
      /\ \A j \in DOMAIN spec.topics :
            b[j] \in topic_to_q[spec.topics[j]] /\ b[j].stamp \in Nat
  BY BundleFacts
<1>2. c \in Bundles
  <2>1. \A j \in DOMAIN spec.topics : c[j] \in topic_to_q[spec.topics[j]]
    BY <1>1
  <2>2. c = [j \in DOMAIN spec.topics |-> c[j]]
    OBVIOUS
  <2>3. QED
    BY <2>1, <2>2, IsBundle
<1>3. \A j \in DOMAIN spec.topics : c[j].stamp \in Nat
  BY <1>2, BundleFacts
<1>4. WithinSlop(c)
  <2>1. \A j, k \in DOMAIN spec.topics : b[j].stamp - b[k].stamp <= spec.max_slop
    BY <1>1 DEF FoundBundle, WithinSlop
  <2>2. f.stamp \in Nat /\ spec.max_slop \in Nat
    BY <1>3, SpecTyped DEF IInv
  <2>3. ASSUME NEW j \in DOMAIN spec.topics, NEW k \in DOMAIN spec.topics
        PROVE  c[j].stamp - c[k].stamp <= spec.max_slop
    BY <2>1, <2>2
  <2>4. QED
    BY <2>3 DEF WithinSlop
<1>5. c # b
  BY <1>1
<1>6. Precedes(StampsOf(c), StampsOf(b))
  BY <1>2, <1>4, <1>5 DEF FoundBundle
<1>7. PICK p \in DOMAIN spec.topics : c[p].stamp < b[p].stamp
  BY <1>1, <1>6 DEF Precedes, StampsOf
<1>8. f.stamp \in Nat
  BY <1>3
<1>9. CASE p = i
  BY <1>1, <1>7, <1>8, <1>9
<1>10. CASE p # i
  BY <1>1, <1>7, <1>10
<1>11. QED
  BY <1>9, <1>10

(* A bundle is returned only when no topic is listed twice: of two fellow  *)
(* entries of one queue the staler one would be raised to the fresher.     *)
LEMMA ReturnedTopicsDistinct == IInv /\ TryGetNext => TopicsDistinct
<1> SUFFICES ASSUME IInv, TryGetNext,
                    NEW i \in DOMAIN spec.topics, NEW j \in DOMAIN spec.topics,
                    spec.topics[i] = spec.topics[j], i # j
             PROVE  FALSE
  BY DEF TopicsDistinct
<1>1. PICK b \in Bundles : /\ FoundBundle(b)
                           /\ \A k \in DOMAIN b : ~MissingAt(b, k)
  BY DEF TryGetNext
<1>2. /\ DOMAIN b = DOMAIN spec.topics
      /\ \A k \in DOMAIN spec.topics :
            /\ spec.topics[k] \in DOMAIN topic_to_q
            /\ b[k] \in topic_to_q[spec.topics[k]]
            /\ b[k].stamp \in Nat
  BY BundleFacts
<1>3. b[i] # b[j]
  <2>1. i \in Nat /\ j \in Nat
    BY SpecTyped DEF IInv
  <2>2. i < j \/ j < i
    BY <2>1
  <2>3. QED
    BY <1>1, <1>2, <2>2 DEF MissingAt
<1>4. b[i].stamp # b[j].stamp
  BY <1>2, <1>3 DEF IInv, TypeOK
<1>5. \A k, l \in DOMAIN spec.topics : b[k].stamp - b[l].stamp <= spec.max_slop
  BY <1>1, <1>2 DEF FoundBundle, WithinSlop
<1>6. CASE b[j].stamp > b[i].stamp
  BY <1>1, <1>2, <1>5, <1>6, FoundIsLast
<1>7. CASE b[i].stamp > b[j].stamp
  BY <1>1, <1>2, <1>5, <1>7, FoundIsLast
<1>8. QED
  BY <1>2, <1>4, <1>6, <1>7

(* In order, the bundle found is of the freshest entry of every queue.     *)
LEMMA FoundIsFreshest ==
    ASSUME IInv, InOrderInv, watermark # OutOfOrder, TopicsDistinct,
           spec.topics # <<>>, NEW b \in Bundles, FoundBundle(b),
           NEW i \in DOMAIN spec.topics, NEW f \in topic_to_q[spec.topics[i]]
    PROVE  f.stamp <= b[i].stamp
<1>1. /\ DOMAIN b = DOMAIN spec.topics
      /\ \A j \in DOMAIN spec.topics :
            /\ spec.topics[j] \in DOMAIN topic_to_q
            /\ b[j].stamp \in Nat
  BY BundleFacts
<1>2. WithinSlop(b)
  BY DEF FoundBundle
<1>3. PICK k \in DOMAIN b : b[k].stamp = watermark
  BY <1>2 DEF InOrderInv
<1>4. f.stamp \in Nat /\ f.stamp <= watermark
  <2>1. f \in Entries
    BY <1>1 DEF IInv, TypeOK
  <2>2. QED
    BY <1>1, <2>1, TimeSyncAssumption DEF Entries, InOrderInv
<1>5. SUFFICES ASSUME f.stamp > b[i].stamp PROVE FALSE
  BY <1>1, <1>4
<1>6. \A j, l \in DOMAIN spec.topics : b[j].stamp - b[l].stamp <= spec.max_slop
  BY <1>1, <1>2 DEF WithinSlop
<1>7. spec.max_slop \in Nat
  BY SpecTyped DEF IInv
<1>8. ASSUME NEW j \in DOMAIN spec.topics
      PROVE  /\ f.stamp - b[j].stamp <= spec.max_slop
             /\ b[j].stamp - f.stamp <= spec.max_slop
  <2>1. /\ b[k].stamp - b[j].stamp <= spec.max_slop
        /\ b[j].stamp - b[i].stamp <= spec.max_slop
    BY <1>1, <1>3, <1>6
  <2>2. QED
    BY <1>1, <1>3, <1>4, <1>5, <1>7, <2>1
<1>9. QED
  BY <1>5, <1>8, FoundIsLast

-----------------------------------------------------------------------------
(* A step that reads no entry, and leaves the queues or shrinks them, when *)
(* no bundle is left that GetNext has not tried.                           *)
LEMMA ShrinkKeepsInOrder ==
    ASSUME IInv, IInv', InOrderInv, spec' = spec, watermark' = watermark,
           \A t \in DOMAIN topic_to_q' : topic_to_q'[t] \subseteq topic_to_q[t],
           (pc' = "try" /\ pc = "try") \/ (TopicsDistinct => NoneLeft')
    PROVE  InOrderInv'
<1> SUFFICES ASSUME watermark # OutOfOrder PROVE InOrderInv'
  BY DEF InOrderInv
<1>1. DOMAIN topic_to_q' = DOMAIN topic_to_q
  BY DEF IInv, TypeOK
<1>2. \A t \in DOMAIN topic_to_q' : \A e \in topic_to_q'[t] : e.stamp <= watermark'
  BY <1>1 DEF InOrderInv
<1>3. ASSUME TopicsDistinct, spec.topics # <<>>, NEW b \in Bundles', WithinSlop(b)'
      PROVE  pc' = "try" /\ \E k \in DOMAIN b : b[k].stamp = watermark'
  <2>1. b \in Bundles
    BY FewerBundles
  <2>2. WithinSlop(b)
    BY <1>3 DEF WithinSlop
  <2>3. ~NoneLeft'
    BY <1>3 DEF NoneLeft
  <2>4. QED
    BY <1>3, <2>1, <2>2, <2>3 DEF InOrderInv
<1>4. QED
  BY <1>2, <1>3 DEF InOrderInv, TopicsDistinct

LEMMA UnchangedNoneLeft ==
    ASSUME NoneLeft, UNCHANGED <<spec, topic_to_q>>
    PROVE  NoneLeft'
BY DEF NoneLeft, Bundles, WithinSlop

(* What pops the bundle found pops the last of them.                       *)
LEMMA PopLeavesNone ==
    ASSUME IInv, IInv', InOrderInv, TryGetNext, watermark # OutOfOrder
    PROVE  NoneLeft'
<1> SUFFICES ASSUME NEW c \in Bundles', WithinSlop(c)' PROVE FALSE
  BY DEF NoneLeft
<1>1. PICK b \in Bundles : FoundBundle(b) /\ Pop(RangeOf(b))
  BY DEF TryGetNext
<1>2. spec' = spec /\ spec.topics # <<>> /\ TopicsDistinct
  BY ReturnedTopicsDistinct DEF TryGetNext
<1>3. /\ DOMAIN topic_to_q' = DOMAIN topic_to_q
      /\ \A t \in DOMAIN topic_to_q' : topic_to_q'[t] = topic_to_q[t] \ RangeOf(b)
  BY <1>1 DEF Pop
<1>4. c \in Bundles /\ WithinSlop(c)
  BY <1>2, <1>3, FewerBundles DEF WithinSlop
<1>5. PICK k \in DOMAIN c : c[k].stamp = watermark
  BY <1>2, <1>4 DEF InOrderInv
<1>6. /\ DOMAIN b = DOMAIN spec.topics /\ DOMAIN c = DOMAIN spec.topics
      /\ spec.topics[k] \in DOMAIN topic_to_q
      /\ c[k] \in topic_to_q[spec.topics[k]] /\ c[k].stamp \in Nat
      /\ b[k] \in topic_to_q[spec.topics[k]] /\ b[k].stamp \in Nat
  BY <1>4, <1>5, BundleFacts
<1>7. c[k].stamp <= b[k].stamp /\ b[k].stamp <= watermark
  BY <1>1, <1>2, <1>6, FoundIsFreshest DEF InOrderInv
<1>8. c[k] = b[k]
  BY <1>5, <1>6, <1>7 DEF IInv, TypeOK
<1>9. c[k] \notin topic_to_q'[spec.topics[k]]
  BY <1>3, <1>6, <1>8 DEF RangeOf
<1>10. c[k] \in topic_to_q'[spec.topics[k]]
  BY <1>2, <1>6 DEF Bundles
<1>11. QED
  BY <1>9, <1>10

(* An arrival in order: every bundle it completes has it.                  *)
LEMMA ReadEntryInOrder ==
    ASSUME IInv, IInv', InOrderInv, WithheldInv,
           NEW topic \in Topics, NEW stamp \in Stamps, ReadEntry(topic, stamp)
    PROVE  InOrderInv'
<1> DEFINE e == [topic |-> topic, stamp |-> stamp, id |-> reads + 1]
<1>1. /\ reads \in Nat /\ reads < MaxReads
      /\ pc = "read" /\ pc' = "try" /\ spec' = spec
      /\ watermark' = IF watermark <= stamp /\ watermark # OutOfOrder
                      THEN stamp ELSE OutOfOrder
  BY DEF ReadEntry, IInv, TypeOK
<1>2. topic_to_q' = [t \in DOMAIN topic_to_q |->
                        IF t = topic THEN Enqueue(topic_to_q[t], e)
                                     ELSE topic_to_q[t]]
  BY DEF ReadEntry
<1>3. e \in Entries /\ e.stamp = stamp /\ stamp \in Nat
  BY <1>1, TimeSyncAssumption DEF Entries
<1> HIDE DEF e
<1>4. \A t \in DOMAIN topic_to_q : topic_to_q'[t] \subseteq topic_to_q[t] \cup {e}
  <2> SUFFICES ASSUME NEW t \in DOMAIN topic_to_q
               PROVE  topic_to_q'[t] \subseteq topic_to_q[t] \cup {e}
    OBVIOUS
  <2>1. Queue(topic_to_q[t]) /\ spec.max_queue_size \in Nat
    BY QueuesAreQueues, SpecTyped DEF IInv
  <2>2. Enqueue(topic_to_q[t], e) \subseteq topic_to_q[t] \cup {e}
    BY <1>3, <2>1, EnqueueKeepsQueue
  <2>3. QED
    BY <1>2, <2>2
<1>5. SUFFICES ASSUME watermark' # OutOfOrder PROVE InOrderInv'
  BY DEF InOrderInv
<1>6. watermark # OutOfOrder /\ watermark <= stamp /\ watermark' = stamp
  BY <1>1, <1>5
<1>7. \A t \in DOMAIN topic_to_q' : \A f \in topic_to_q'[t] : f.stamp <= watermark'
  <2> SUFFICES ASSUME NEW t \in DOMAIN topic_to_q, NEW f \in topic_to_q'[t]
               PROVE  f.stamp <= stamp
    BY <1>2, <1>6
  <2>1. CASE f = e
    BY <1>3, <2>1
  <2>2. CASE f \in topic_to_q[t]
    <3>1. f \in Entries
      BY <2>2 DEF IInv, TypeOK
    <3>2. f.stamp \in Nat
      BY <3>1, TimeSyncAssumption DEF Entries
    <3>3. watermark \in Int
      BY TimeSyncAssumption DEF IInv, TypeOK, OutOfOrder
    <3>4. f.stamp <= watermark
      BY <1>6, <2>2 DEF InOrderInv
    <3>5. QED
      BY <1>3, <1>6, <3>2, <3>3, <3>4
  <2>3. QED
    BY <1>4, <2>1, <2>2
<1>8. ASSUME TopicsDistinct, spec.topics # <<>>, NEW b \in Bundles', WithinSlop(b)'
      PROVE  \E k \in DOMAIN b : b[k].stamp = watermark'
  <2> SUFFICES ASSUME \A k \in DOMAIN b : b[k] # e PROVE FALSE
    BY <1>3, <1>6
  <2>1. /\ b = [i \in DOMAIN spec.topics |-> b[i]]
        /\ \A i \in DOMAIN spec.topics : b[i] \in topic_to_q'[spec.topics[i]]
    BY <1>1 DEF Bundles
  <2>2. \A i \in DOMAIN spec.topics : spec.topics[i] \in DOMAIN topic_to_q
    BY DEF IInv, TypeOK, RangeOf
  <2>3. \A i \in DOMAIN spec.topics : b[i] \in topic_to_q[spec.topics[i]]
    BY <1>4, <2>1, <2>2
  <2>4. b \in Bundles
    BY <2>1, <2>3, IsBundle
  <2>5. WithinSlop(b)
    BY <1>1, <1>8 DEF WithinSlop
  <2>6. NoneLeft
    BY <1>1, <1>8 DEF WithheldInv, GaveUp
  <2>7. QED
    BY <1>8, <2>4, <2>5, <2>6 DEF NoneLeft
<1>9. QED
  BY <1>1, <1>7, <1>8 DEF InOrderInv, TopicsDistinct

LEMMA StepKeepsInOrder ==
    ASSUME IInv, IInv', WithheldInv, InOrderInv, [Next]_vars
    PROVE  InOrderInv'
<1>1. CASE Call \/ UNCHANGED vars
  <2>1. /\ spec' = spec /\ topic_to_q' = topic_to_q /\ watermark' = watermark
        /\ pc = pc' \/ (pc = "idle" /\ pc' = "try")
    BY <1>1 DEF Call, vars
  <2>2. Bundles' = Bundles /\ \A b : WithinSlop(b)' = WithinSlop(b)
    BY <2>1 DEF Bundles, WithinSlop
  <2>3. QED
    BY <2>1, <2>2 DEF InOrderInv, TopicsDistinct
<1>2. CASE TryGetNextFails
  <2>1. NoneLeft /\ UNCHANGED <<spec, topic_to_q, watermark>>
    BY <1>2 DEF TryGetNextFails, NoneLeft
  <2>2. QED
    BY <2>1, UnchangedNoneLeft, ShrinkKeepsInOrder
<1>3. CASE TryGetNext
  <2>1. /\ UNCHANGED <<spec, watermark>>
        /\ \A t \in DOMAIN topic_to_q' : topic_to_q'[t] \subseteq topic_to_q[t]
    BY <1>3 DEF TryGetNext, Pop
  <2>2. CASE watermark = OutOfOrder
    BY <2>1, <2>2 DEF InOrderInv
  <2>3. CASE watermark # OutOfOrder
    BY <1>3, <2>1, <2>3, PopLeavesNone, ShrinkKeepsInOrder
  <2>4. QED
    BY <2>2, <2>3
<1>4. CASE TryGetNextMissing
  <2>1. ~TopicsDistinct
    BY <1>4, NotMissing
  <2>2. /\ UNCHANGED <<spec, watermark>>
        /\ \A t \in DOMAIN topic_to_q' : topic_to_q'[t] \subseteq topic_to_q[t]
    BY <1>4 DEF TryGetNextMissing, Pop
  <2>3. QED
    BY <2>1, <2>2, ShrinkKeepsInOrder
<1>5. CASE ReadUnstamped
  <2>1. /\ UNCHANGED <<spec, topic_to_q, watermark>>
        /\ TopicsDistinct => NoneLeft
    BY <1>5 DEF ReadUnstamped, WithheldInv, GaveUp
  <2>2. QED
    BY <2>1, UnchangedNoneLeft, ShrinkKeepsInOrder
<1>6. CASE ReadFails
  <2>1. /\ UNCHANGED <<spec, topic_to_q, watermark>>
        /\ TopicsDistinct => NoneLeft
    BY <1>6 DEF ReadFails, WithheldInv, GaveUp
  <2>2. QED
    BY <2>1, UnchangedNoneLeft, ShrinkKeepsInOrder
<1>7. QED
  BY <1>1, <1>2, <1>3, <1>4, <1>5, <1>6, ReadEntryInOrder DEF Next, GetNextStep

LEMMA InitInOrder == Init => InOrderInv
<1> SUFFICES ASSUME Init PROVE InOrderInv
  OBVIOUS
<1>1. IInv
  BY InitIInv
<1>2. \A t \in DOMAIN topic_to_q : topic_to_q[t] = {}
  BY DEF Init
<1>3. ASSUME spec.topics # <<>>, NEW b \in Bundles
      PROVE  FALSE
  <2>1. spec.topics \in Seq(Topics)
    BY <1>1, SpecTyped DEF IInv
  <2>2. 1 \in DOMAIN spec.topics
    BY <1>3, <2>1, EmptySeq, LenProperties
  <2>3. QED
    BY <1>1, <1>2, <2>2, BundleFacts
<1>4. QED
  BY <1>2, <1>3 DEF InOrderInv

-----------------------------------------------------------------------------
(* The duration of a bundle is the largest difference of its stamps.       *)
LEMMA DurationIsMax ==
    ASSUME IInv, NEW b \in Bundles, spec.topics # <<>>, NEW w \in Nat,
           \A i \in DOMAIN b : b[i].stamp <= w
    PROVE  /\ \E i, j \in DOMAIN b : Duration(b) = b[i].stamp - b[j].stamp
           /\ \A i, j \in DOMAIN b : b[i].stamp - b[j].stamp <= Duration(b)
<1>1. /\ DOMAIN b = DOMAIN spec.topics
      /\ \A i \in DOMAIN b : b[i].stamp \in Nat
  BY BundleFacts
<1>2. 1 \in DOMAIN b
  BY <1>1, SpecTyped, EmptySeq, LenProperties DEF IInv
<1> DEFINE S == {b[i].stamp : i \in DOMAIN b}
           T == {w - b[i].stamp : i \in DOMAIN b}
<1>3. PICK l \in DOMAIN b : \A i \in DOMAIN b : b[l].stamp <= b[i].stamp
  <2>1. S \in SUBSET Nat /\ S # {}
    BY <1>1, <1>2
  <2>2. PICK m \in S : \A n \in S : m <= n
    BY <2>1, LeastElement
  <2>3. QED
    BY <2>2
<1>4. PICK h \in DOMAIN b : \A i \in DOMAIN b : b[i].stamp <= b[h].stamp
  <2>1. \A i \in DOMAIN b : w - b[i].stamp \in Nat
    BY <1>1
  <2>2. T \in SUBSET Nat /\ T # {}
    BY <1>2, <2>1
  <2>3. PICK m \in T : \A n \in T : m <= n
    BY <2>2, LeastElement
  <2>4. PICK h \in DOMAIN b : m = w - b[h].stamp
    OBVIOUS
  <2>5. ASSUME NEW i \in DOMAIN b PROVE b[i].stamp <= b[h].stamp
    <3>1. w - b[h].stamp <= w - b[i].stamp
      BY <2>3, <2>4
    <3>2. QED
      BY <1>1, <3>1
  <2>6. QED
    BY <2>5
<1> DEFINE D == {b[i].stamp - b[j].stamp : i, j \in DOMAIN b}
<1>5. b[h].stamp - b[l].stamp \in D
  OBVIOUS
<1>6. \A i, j \in DOMAIN b : b[i].stamp - b[j].stamp <= b[h].stamp - b[l].stamp
  BY <1>1, <1>3, <1>4
<1>7. /\ Duration(b) \in D
      /\ \A i, j \in DOMAIN b : b[i].stamp - b[j].stamp <= Duration(b)
  <2>1. \E d \in D : \A i, j \in DOMAIN b : b[i].stamp - b[j].stamp <= d
    BY <1>5, <1>6
  <2> HIDE DEF D
  <2>2. Duration(b) = CHOOSE d \in D :
                        \A i, j \in DOMAIN b : b[i].stamp - b[j].stamp <= d
    BY DEF Duration, D
  <2>3. QED
    BY <2>1, <2>2, Zenon
<1>8. QED
  BY <1>7

(* In order, the freshest entries have the least spread: any other bundle  *)
(* has the latest stamp too, or is out of max_slop.                        *)
LEMMA FoundIsMinimal ==
    ASSUME IInv, InOrderInv, watermark # OutOfOrder, TryGetNext
    PROVE  Minimal(result')
<1>1. PICK b \in Bundles : FoundBundle(b) /\ result' = b
  BY DEF TryGetNext
<1>2. spec.topics # <<>> /\ TopicsDistinct
  BY ReturnedTopicsDistinct DEF TryGetNext
<1>3. watermark \in Nat
  BY TimeSyncAssumption DEF IInv, TypeOK, OutOfOrder
<1>4. ASSUME NEW c \in Bundles
      PROVE  /\ DOMAIN c = DOMAIN spec.topics
             /\ \A i \in DOMAIN spec.topics :
                    /\ c[i] \in topic_to_q[spec.topics[i]]
                    /\ c[i].stamp \in Nat
                    /\ c[i].stamp <= watermark
  BY BundleFacts DEF InOrderInv
<1>5. ASSUME NEW c \in Bundles
      PROVE  /\ \E i, j \in DOMAIN spec.topics :
                    Duration(c) = c[i].stamp - c[j].stamp
             /\ \A i, j \in DOMAIN spec.topics :
                    c[i].stamp - c[j].stamp <= Duration(c)
  BY <1>2, <1>3, <1>4, DurationIsMax
<1>6. PICK i \in DOMAIN spec.topics, j \in DOMAIN spec.topics :
        Duration(b) = b[i].stamp - b[j].stamp
  BY <1>5
<1>7. ASSUME NEW c \in Bundles PROVE Duration(b) <= Duration(c)
  <2>1. Duration(c) \in Int
    BY <1>4, <1>5
  <2>2. CASE WithinSlop(c)
    <3>1. PICK k \in DOMAIN spec.topics : c[k].stamp = watermark
      BY <1>2, <1>4, <2>2 DEF InOrderInv
    <3>2. c[j].stamp <= b[j].stamp
      BY <1>1, <1>2, <1>4, FoundIsFreshest
    <3>3. c[k].stamp - c[j].stamp <= Duration(c)
      BY <1>5
    <3>4. QED
      BY <1>3, <1>4, <1>6, <2>1, <3>1, <3>2, <3>3
  <2>3. CASE ~WithinSlop(c)
    <3>1. PICK k \in DOMAIN spec.topics, l \in DOMAIN spec.topics :
            ~(c[k].stamp - c[l].stamp <= spec.max_slop)
      BY <1>4, <2>3 DEF WithinSlop
    <3>2. b[i].stamp - b[j].stamp <= spec.max_slop
      BY <1>1, <1>4 DEF FoundBundle, WithinSlop
    <3>3. spec.max_slop \in Nat /\ c[k].stamp - c[l].stamp <= Duration(c)
      BY <1>5, SpecTyped DEF IInv
    <3>4. QED
      BY <1>4, <1>6, <2>1, <3>1, <3>2, <3>3
  <2>4. QED
    BY <2>2, <2>3
<1>8. QED
  BY <1>1, <1>7 DEF Minimal

(* While the session delivers in time order, the bundle returned is one of *)
(* minimal duration, although FindMinCostBundle keeps the last it meets.   *)
THEOREM InOrderIsMinimal == Spec => MinimalWhenInOrder
<1>1. Init => WithheldInv
  BY DEF Init, WithheldInv, GaveUp
<1>2. IInv /\ InOrderInv /\ [Next]_vars =>
        [(pc = "try" /\ pc' = "idle" /\ watermark # OutOfOrder)
            => Minimal(result')]_vars
  <2>1. pc = "try" /\ pc' = "idle" /\ [Next]_vars => TryGetNext
    BY DEF Next, GetNextStep, Call, TryGetNextFails, TryGetNextMissing,
           ReadEntry, ReadUnstamped, ReadFails, vars
  <2>2. QED
    BY <2>1, FoundIsMinimal
<1>3. QED
  BY InitIInv, NextIInv, InitInOrder, StepKeepsWithheld, StepKeepsInOrder,
     <1>1, <1>2, PTL DEF Spec, MinimalWhenInOrder

=============================================================================

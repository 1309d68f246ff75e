------------------------------ MODULE TimeSync ------------------------------
(***************************************************************************)
(* protobag/Utils/TimeSync.cpp: MaxSlopTimeSync, which reads entries from  *)
(* a ReadSession, queues them per topic and emits bundles of one entry per *)
(* topic whose stamps lie within max_slop of each other.                   *)
(*                                                                         *)
(* The session is external here: it may deliver entries of any topic and   *)
(* stamp in any order (a selection by entrynames is not time-ordered),     *)
(* entries without topic and time, and errors; it delivers at most         *)
(* MaxReads entries, because a read plan is a finite list.                 *)
(***************************************************************************)
EXTENDS Products, FiniteSets

CONSTANTS Topics,   \* the topics of the entries the session delivers
          Stamps,   \* their timestamps
          Specs,    \* the MaxSlopTimeSync::Spec values considered
          MaxReads  \* bound: entries the session delivers

ASSUME TimeSyncAssumption ==
    /\ Stamps \subseteq Nat
    /\ MaxReads \in Nat
    /\ Specs \subseteq [topics : Seq(Topics), max_slop : Nat, max_queue_size : Nat]

VARIABLES spec,        \* _impl->spec, its topics sorted (topics_ordered)
          topic_to_q,  \* the queue of each topic, a set of entries
          pc,          \* where GetNext is: "idle", "try" a bundle, "read" on
          result,      \* what the last GetNext returned
          reads,       \* the number of entries delivered by the session
          delivered,   \* history: the entries of all bundles returned
          watermark    \* history: the latest stamp read, while stamps came
                       \* in order; OutOfOrder once one did not

vars == <<spec, topic_to_q, pc, result, reads, delivered, watermark>>

OutOfOrder == -1

Entries == [topic : Topics, stamp : Stamps, id : 1 .. MaxReads]

NoBundle == <<>>

Init ==
    /\ spec \in Specs
    /\ topic_to_q = [t \in RangeOf(spec.topics) |-> {}]
    /\ pc = "idle"
    /\ result = NoBundle
    /\ reads = 0
    /\ delivered = {}
    /\ watermark = 0

-----------------------------------------------------------------------------
(* TopicQ is a std::map from stamp to entry.                               *)

PopFreshest(q) == {e \in q : \E f \in q : f.stamp > e.stamp}   \* mutant

PopMostStale(q) == {e \in q : \E f \in q : f.stamp < e.stamp}

PushAlways(q, e) == q \cup {e}                               \* mutant

(* std::map::insert leaves an entry with the same stamp in place.          *)
Push(q, e) == IF \E f \in q : f.stamp = e.stamp THEN q ELSE q \cup {e}

EnqueuePastLimit(q, e) ==                                   \* mutant
    Push(IF Cardinality(q) > spec.max_queue_size THEN PopMostStale(q) ELSE q, e)

(* Impl::Enqueue, for an entry of a topic that is synchronized.            *)
Enqueue(q, e) ==
    Push(IF Cardinality(q) >= spec.max_queue_size THEN PopMostStale(q) ELSE q, e)

-----------------------------------------------------------------------------
(* FindMinCostBundle.                                                      *)

Bundles ==
    {b \in [DOMAIN spec.topics -> UNION RangeOf(topic_to_q)] :
        \A i \in DOMAIN spec.topics : b[i] \in topic_to_q[spec.topics[i]]}

WithinSlop(b) ==
    \A i, j \in DOMAIN b : b[i].stamp - b[j].stamp <= spec.max_slop

StampsOf(b) == [i \in DOMAIN b |-> b[i].stamp]

FoundFirstBundle(b) ==                                      \* mutant
    /\ b \in Bundles /\ WithinSlop(b)
    /\ \A c \in Bundles :
         WithinSlop(c) => c = b \/ Precedes(StampsOf(b), StampsOf(c))

(* The loop overwrites best_candidate with every bundle within max_slop,   *)
(* because it never updates best_duration: what is left at the end is the  *)
(* one IterProducts emits last.  Queue positions are ordered as stamps, so *)
(* the odometer's order is that of the stamps.                             *)
FoundBundle(b) ==
    /\ b \in Bundles /\ WithinSlop(b)
    /\ \A c \in Bundles :
         WithinSlop(c) => c = b \/ Precedes(StampsOf(c), StampsOf(b))

(* A topic listed twice shares one queue, and its second Pop finds the     *)
(* entry gone when the bundle names it twice.                              *)
MissingAt(b, i) ==
    \E j \in DOMAIN b : j < i /\ spec.topics[j] = spec.topics[i] /\ b[j] = b[i]

PopNothing(popped) == UNCHANGED topic_to_q                  \* mutant

Pop(popped) == topic_to_q' = [t \in DOMAIN topic_to_q |-> topic_to_q[t] \ popped]

-----------------------------------------------------------------------------
(* MaxSlopTimeSync::GetNext, from call to return.                          *)

Call ==
    /\ pc = "idle"
    /\ pc' = "try"
    /\ UNCHANGED <<spec, topic_to_q, result, reads, delivered, watermark>>

TryGetNextFails ==
    /\ pc = "try"
    /\ \/ spec.topics = <<>>
       \/ \A b \in Bundles : ~WithinSlop(b)
    /\ pc' = "read"
    /\ UNCHANGED <<spec, topic_to_q, result, reads, delivered, watermark>>

TryGetNext ==
    /\ pc = "try"
    /\ spec.topics # <<>>
    /\ \E b \in Bundles :
        /\ FoundBundle(b)
        /\ \A i \in DOMAIN b : ~MissingAt(b, i)
        /\ Pop(RangeOf(b))
        /\ result' = b
        /\ delivered' = delivered \cup RangeOf(b)
    /\ pc' = "idle"
    /\ UNCHANGED <<spec, reads, watermark>>

(* "Programming error: tried to find entry at time": the entries popped so *)
(* far are dropped with the bundle, and GetNext reads on.                  *)
TryGetNextMissing ==
    /\ pc = "try"
    /\ \E b \in Bundles : \E i \in DOMAIN b :
        /\ FoundBundle(b)
        /\ MissingAt(b, i)
        /\ \A j \in DOMAIN b : j < i => ~MissingAt(b, j)
        /\ Pop({b[j] : j \in 1 .. i - 1})
    /\ pc' = "read"
    /\ UNCHANGED <<spec, result, reads, delivered, watermark>>

TryThenEnqueue(topic, stamp) ==                             \* mutant
    /\ pc = "read"
    /\ reads < MaxReads
    /\ reads' = reads + 1
    /\ LET e == [topic |-> topic, stamp |-> stamp, id |-> reads + 1]
       IN  topic_to_q' = [t \in DOMAIN topic_to_q |->
                            IF t = topic THEN Enqueue(topic_to_q[t], e)
                                         ELSE topic_to_q[t]]
    /\ watermark' = IF watermark <= stamp /\ watermark # OutOfOrder
                    THEN stamp ELSE OutOfOrder
    /\ UNCHANGED <<spec, pc, result, delivered>>

ReadEntry(topic, stamp) ==
    /\ pc = "read"
    /\ reads < MaxReads
    /\ reads' = reads + 1
    /\ LET e == [topic |-> topic, stamp |-> stamp, id |-> reads + 1]
       IN  topic_to_q' = [t \in DOMAIN topic_to_q |->
                            IF t = topic THEN Enqueue(topic_to_q[t], e)
                                         ELSE topic_to_q[t]]
    /\ watermark' = IF watermark <= stamp /\ watermark # OutOfOrder
                    THEN stamp ELSE OutOfOrder
    /\ pc' = "try"
    /\ UNCHANGED <<spec, result, delivered>>

(* An entry for which GetTopicTime has no value.                           *)
ReadUnstamped ==
    /\ pc = "read"
    /\ reads < MaxReads
    /\ reads' = reads + 1
    /\ pc' = "try"
    /\ UNCHANGED <<spec, topic_to_q, result, delivered, watermark>>

ReadFailureIgnored ==                                       \* mutant
    /\ pc = "read"
    /\ UNCHANGED vars

(* The end of the sequence, an entry not found or a read error: returned   *)
(* as it is, and the next call starts over.                                *)
ReadFails ==
    /\ pc = "read"
    /\ result' = NoBundle
    /\ pc' = "idle"
    /\ UNCHANGED <<spec, topic_to_q, reads, delivered, watermark>>

GetNextStep ==
    \/ TryGetNextFails \/ TryGetNext \/ TryGetNextMissing
    \/ \E t \in Topics, s \in Stamps : ReadEntry(t, s)
    \/ ReadUnstamped \/ ReadFails

Next == Call \/ GetNextStep

Spec == Init /\ [][Next]_vars

(* GetNext runs on the caller's thread: once called, it keeps going.       *)
FairSpec == Spec /\ WF_vars(GetNextStep)

-----------------------------------------------------------------------------
TopicsDistinct ==
    \A i, j \in DOMAIN spec.topics : spec.topics[i] = spec.topics[j] => i = j

(* Types; each queue holds entries of its own topic, one per stamp.        *)
TypeOK ==
    /\ spec \in Specs
    /\ topic_to_q \in [RangeOf(spec.topics) -> SUBSET Entries]
    /\ \A t \in DOMAIN topic_to_q : \A e \in topic_to_q[t] :
        /\ e.topic = t /\ e.id <= reads
        /\ \A f \in topic_to_q[t] : e.stamp = f.stamp => e = f
    /\ pc \in {"idle", "try", "read"}
    /\ result = NoBundle \/ result \in [DOMAIN spec.topics -> Entries]
    /\ reads \in 0 .. MaxReads
    /\ delivered \subseteq Entries
    /\ watermark \in Stamps \cup {0, OutOfOrder}

(* The memory of the synchronizer is bounded: a queue never grows past     *)
(* max_queue_size (past one entry, when the limit is given as zero).       *)
QueuesBounded ==
    \A t \in DOMAIN topic_to_q :
        LET n == Cardinality(topic_to_q[t])
        IN  n <= spec.max_queue_size \/ n <= 1

(* A returned bundle has one entry of each topic, in topic order, within   *)
(* max_slop, and no entry that is still queued, so none is ever returned   *)
(* twice, whatever order the entries came in; nor is one given for two     *)
(* topics, should a topic be listed twice.                                 *)
BundlesSound ==
    /\ result # NoBundle =>
        /\ WithinSlop(result)
        /\ \A i \in DOMAIN spec.topics : result[i].topic = spec.topics[i]
        /\ \A i, j \in DOMAIN spec.topics : result[i] = result[j] => i = j
        /\ RangeOf(result) \subseteq delivered
    /\ \A t \in DOMAIN topic_to_q : topic_to_q[t] \cap delivered = {}

(* GetNext gives up only when the queues hold no bundle within max_slop:   *)
(* no bundle is withheld from the caller or lost at the end of the stream. *)
NoBundleWithheld ==
    (pc = "idle" /\ result = NoBundle /\ reads > 0 /\ TopicsDistinct)
        => \A b \in Bundles : spec.topics = <<>> \/ ~WithinSlop(b)

(* An entry leaves its queue only in a returned bundle, or as the most     *)
(* stale one of a full queue when another entry of its topic arrives.      *)
LossJustified ==
    [][TopicsDistinct =>
        \A t \in DOMAIN topic_to_q :
            /\ \A e \in topic_to_q[t] \ topic_to_q'[t] :
                \/ e \in delivered'
                \/ /\ reads' # reads
                   /\ Cardinality(topic_to_q[t]) >= spec.max_queue_size
                   /\ \A f \in topic_to_q[t] : e.stamp <= f.stamp]_vars

(* Every call returns: the loop over the session cannot spin for ever.     *)
CallReturns == (pc = "try") ~> (pc = "idle")

Duration(b) ==
    CHOOSE d \in {b[i].stamp - b[j].stamp : i, j \in DOMAIN b} :
        \A i, j \in DOMAIN b : b[i].stamp - b[j].stamp <= d

Minimal(b) == \A c \in Bundles : Duration(b) <= Duration(c)

(* While the session delivers entries in time order, the bundle found last *)
(* is one of minimal total time difference: a bundle is returned as soon   *)
(* as an arrival completes it, so only the newest entries can qualify.     *)
MinimalWhenInOrder ==
    [][(pc = "try" /\ pc' = "idle" /\ watermark # OutOfOrder)
            => Minimal(result')]_vars

(* TimeSync.hpp:76 says of every bundle: "Emit the bundle with minimal     *)
(* total time difference".                                                 *)
BundleIsMinimal ==
    [][(pc = "try" /\ pc' = "idle") => Minimal(result')]_vars

=============================================================================

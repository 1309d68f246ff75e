-------------------------- MODULE BagIndexBuilder --------------------------
(***************************************************************************)
(* protobag/BagIndexBuilder.cpp, its timeseries index: what the observer   *)
(* of a WriteSession collects, and the BagIndex it completes.              *)
(***************************************************************************)
EXTENDS Entries

CONSTANTS AllTopics,    \* every topic an entry can be indexed under
          MaxTimestamp  \* the latest timestamp; the earliest is 0

MinTimestamp == 0

(* topic_to_stats maps a topic it has no message of to 0.                  *)
NewBuilder(do_timeseries_indexing) ==
    [timeseries |-> do_timeseries_indexing,
     observed   |-> <<>>,
     n_messages |-> [t \in AllTopics |-> 0],
     start      |-> MaxTimestamp,
     end        |-> MinTimestamp]

MinStamp(s, t) == IF t < s THEN t ELSE s
MaxStamp(s, t) == IF s < t THEN t ELSE s

ObserveTopicTime(b, tt) ==
    [timeseries |-> b.timeseries,
     observed   |-> Append(b.observed, tt),
     n_messages |-> [b.n_messages EXCEPT ![tt.topic] = @ + 1],
     start      |-> MinStamp(b.start, tt.stamp),
     end        |-> MaxStamp(b.end, tt.stamp)]

ObserveWithoutFinalName(b, entry, name) ==                   \* mutant
    IF b.timeseries /\ IsStampedMessage(entry)
    THEN LET tt == CHOOSE tt \in GetTopicTime(entry) : TRUE
         IN  ObserveTopicTime(b, TopicTime(tt, entry.entryname))
    ELSE b

Observe(b, entry, name) ==
    IF b.timeseries /\ IsStampedMessage(entry)
    THEN LET tt == CHOOSE tt \in GetTopicTime(entry) : TRUE
         IN  ObserveTopicTime(b, TopicTime(tt, name))
    ELSE b

Reorderings(seq) ==
    {[i \in DOMAIN seq |-> seq[p[i]]] :
        p \in {f \in [DOMAIN seq -> DOMAIN seq] :
                  \A i \in DOMAIN seq : \E j \in DOMAIN seq : f[j] = i}}

InTimeOrder(seq) ==
    \A i, j \in DOMAIN seq : i < j => ~Before(seq[j], seq[i])

UnorderedTTs(observed) == {observed}                         \* mutant

(* std::sort: equal elements are interchangeable, so one ordering is left. *)
OrderedTTs(observed) == {seq \in Reorderings(observed) : InTimeOrder(seq)}

(* The BagIndex that may come of a builder.                                *)
Complete(b) ==
    {[time_ordered_entries |-> seq, topic_to_stats |-> b.n_messages,
      start |-> b.start, end |-> b.end] : seq \in OrderedTTs(b.observed)}

=============================================================================

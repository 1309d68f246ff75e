---------------------------- MODULE WriteSession ----------------------------
(***************************************************************************)
(* protobag/WriteSession.cpp: sessions that write entries to one archive,  *)
(* observe them in a BagIndexBuilder and write the BagIndex when closed.   *)
(*                                                                         *)
(* Sessions of several processes may share a directory, those of one       *)
(* process a memory archive; a zip or tar is written by one session at a   *)
(* time and is truncated by the next.  Processes crash and disks fill up.  *)
(***************************************************************************)
EXTENDS Archives, BagIndexBuilder, FiniteSets

CONSTANTS Sessions,     \* the sessions, in the order they may be created
          Kinds,        \* archive formats considered
          UserEntries,  \* what users pass to WriteEntry
          IndexTimes,   \* what the clock may say when an index is written
          Specs,        \* WriteSession::Spec: which indexing is asked for
          MaxWrites,    \* bound: entries passed to WriteEntry in all
          MaxLost       \* bound: records whose data is lost, at one time

ASSUME WriteSessionAssumption ==
    /\ Kinds \subseteq {"memory", "directory", "zip", "tar"}
    /\ AllTopics \subseteq [rooted : BOOLEAN, base : Nat]
    /\ MaxTimestamp \in Nat
    /\ IndexTimes \subseteq MinTimestamp .. MaxTimestamp
    /\ Specs \subseteq [timeseries : BOOLEAN, descriptors : BOOLEAN]
    /\ MaxWrites \in Nat
    /\ MaxLost \in Nat
    /\ \A e \in UserEntries :
        /\ e.entryname \in [topic : [rooted : BOOLEAN, base : Nat], leaf : Int]
        /\ e.ctx = {} \/ \E tt \in e.ctx : e.ctx = {tt}
        /\ \A tt \in GetTopicTime(e) :
             /\ tt.topic \in AllTopics
             /\ tt.stamp \in MinTimestamp .. MaxTimestamp

(* Users leave the paths of IsProtoBagIndexTopic (TopicTime.hpp) to the     *)
(* index; WriteEntry would not refuse them.                                *)
ASSUME ReservedTopicAssumption ==
    \A e \in UserEntries :
        /\ e.entryname.topic.base # IndexTopic.base
        /\ \A tt \in GetTopicTime(e) : tt.topic.base # IndexTopic.base

VARIABLES kind,      \* the format of the archive
          archive,   \* its records, in the order they were written
          finished,  \* the destructor of a zip or tar writer completed it
          session,   \* whether each session is still to come, open or gone
          spec,      \* the Spec of each session
          indexer,   \* WriteSession::_indexer, a set of at most one builder
          writes,    \* calls of WriteEntry so far
          unindexed  \* history: sessions whose index a fault lost

vars == <<kind, archive, finished, session, spec, indexer, writes, unindexed>>

NoIndexing == [timeseries |-> FALSE, descriptors |-> FALSE]

ShouldDoIndexing(sp) == sp.timeseries \/ sp.descriptors

Init ==
    /\ kind \in Kinds
    /\ archive = <<>>
    /\ finished = FALSE
    /\ session = [s \in Sessions |-> "none"]
    /\ spec = [s \in Sessions |-> NoIndexing]
    /\ indexer = [s \in Sessions |-> {}]
    /\ writes = 0
    /\ unindexed = {}

(* What a reader that opens the archive now is sure to find: of a zip or   *)
(* tar still being written, nothing.                                       *)
Visible == IF InPlace(kind) \/ finished THEN archive ELSE <<>>

-----------------------------------------------------------------------------
CreateAlwaysIndexes(s) ==                                    \* mutant
    /\ session[s] = "none"
    /\ InPlace(kind) \/ \A r \in Sessions : session[r] # "open"
    /\ session' = [session EXCEPT ![s] = "open"]
    /\ \E sp \in Specs :
        /\ spec' = [spec EXCEPT ![s] = sp]
        /\ indexer' = [indexer EXCEPT ![s] = {NewBuilder(sp.timeseries)}]
    /\ archive' = IF InPlace(kind) THEN archive ELSE <<>>
    /\ finished' = FALSE
    /\ UNCHANGED <<kind, writes, unindexed>>

(* Only writers of a directory or of a memory archive coexist.             *)
Create(s) ==
    /\ session[s] = "none"
    /\ InPlace(kind) \/ \A r \in Sessions : session[r] # "open"
    /\ session' = [session EXCEPT ![s] = "open"]
    /\ \E sp \in Specs :
        /\ spec' = [spec EXCEPT ![s] = sp]
        /\ indexer' = [indexer EXCEPT ![s] =
              IF ShouldDoIndexing(sp) THEN {NewBuilder(sp.timeseries)} ELSE {}]
    /\ archive' = IF InPlace(kind) THEN archive ELSE <<>>
    /\ finished' = FALSE
    /\ UNCHANGED <<kind, writes, unindexed>>

Writable(e) ==
    \/ e.entryname # NoName
    \/ HasTopic(e)

FinalName(e) ==
    IF e.entryname # NoName THEN e.entryname
    ELSE LET tt == CHOOSE tt \in GetTopicTime(e) : TRUE
         IN  StampedName(tt.topic, tt.stamp)

Lost == Cardinality({i \in DOMAIN archive : ~archive[i].whole})

(* A directory or a zip that cannot take the bytes still reports success:  *)
(* the stream and archive_write_data are not asked.  Then the entry is not *)
(* whole: it is cut short, or a directory kept the file it had.            *)
Write(s, e, idx) ==
    \E whole \in (IF kind = "memory" \/ Lost >= MaxLost THEN {TRUE} ELSE BOOLEAN) :
        archive' = Append(archive,
            [by |-> s, name |-> FinalName(e), entry |-> e, index |-> idx,
             whole |-> whole])

ObserveBeforeWriting(s, e) ==                                \* mutant
    /\ session[s] = "open"
    /\ writes < MaxWrites
    /\ kind # "memory" \/ ~Writable(e)
    /\ writes' = writes + 1
    /\ indexer' = [indexer EXCEPT ![s] = {Observe(b, e, FinalName(e)) : b \in @}]
    /\ UNCHANGED <<kind, archive, finished, session, spec, unindexed>>

(* An entry with neither name nor topic is refused; a file or a header     *)
(* that cannot be written is an error.                                     *)
WriteEntryFails(s, e) ==
    /\ session[s] = "open"
    /\ writes < MaxWrites
    /\ kind # "memory" \/ ~Writable(e)
    /\ writes' = writes + 1
    /\ UNCHANGED <<kind, archive, finished, session, spec, indexer, unindexed>>

WriteEntry(s, e) ==
    /\ session[s] = "open"
    /\ writes < MaxWrites
    /\ writes' = writes + 1
    /\ Writable(e)
    /\ Write(s, e, {})
    /\ indexer' = [indexer EXCEPT ![s] = {Observe(b, e, FinalName(e)) : b \in @}]
    /\ UNCHANGED <<kind, finished, session, spec, unindexed>>

-----------------------------------------------------------------------------
CloseKeepsIndexer(s) ==                                      \* mutant
    /\ UNCHANGED indexer
    /\ \E b \in indexer[s], now \in IndexTimes : \E idx \in Complete(b) :
        Write(s, CreateStamped(IndexTopic, now), {idx})
    /\ UNCHANGED unindexed

(* WriteSession::Close with an indexer; the result of writing the index is *)
(* not looked at.  The drained builder observes it and is then dropped.    *)
WriteIndex(s) ==
    /\ indexer' = [indexer EXCEPT ![s] = {}]
    /\ \/ /\ \E b \in indexer[s], now \in IndexTimes : \E idx \in Complete(b) :
              Write(s, CreateStamped(IndexTopic, now), {idx})
          /\ unindexed' =
               IF archive'[Len(archive')].whole THEN unindexed
                                                ELSE unindexed \cup {s}
       \/ /\ kind # "memory"
          /\ UNCHANGED archive
          /\ unindexed' = unindexed \cup {s}

Close(s) ==
    /\ session[s] = "open"
    /\ indexer[s] # {}
    /\ WriteIndex(s)
    /\ UNCHANGED <<kind, finished, session, spec, writes>>

DestroyWithoutClose(s) ==                                    \* mutant
    /\ session[s] = "open"
    /\ session' = [session EXCEPT ![s] = "gone"]
    /\ finished' = ~InPlace(kind)
    /\ indexer' = [indexer EXCEPT ![s] = {}]
    /\ UNCHANGED <<kind, archive, spec, writes, unindexed>>

(* The destructor closes the session, then lets go of the archive, which   *)
(* completes the file of a zip or tar.                                     *)
Destroy(s) ==
    /\ session[s] = "open"
    /\ session' = [session EXCEPT ![s] = "gone"]
    /\ IF indexer[s] # {} THEN WriteIndex(s)
                          ELSE UNCHANGED <<archive, indexer, unindexed>>
    /\ finished' = ~InPlace(kind)
    /\ UNCHANGED <<kind, spec, writes>>

(* The process dies, and the builder with it.  A directory keeps what was  *)
(* written; of a zip or tar, some first part has reached the disk.         *)
Crash(s) ==
    /\ session[s] = "open"
    /\ kind # "memory"
    /\ session' = [session EXCEPT ![s] = "gone"]
    /\ indexer' = [indexer EXCEPT ![s] = {}]
    /\ archive' \in IF InPlace(kind) THEN {archive}
                    ELSE {SubSeq(archive, 1, n) : n \in 0 .. Len(archive)}
    /\ finished' = ~InPlace(kind)
    /\ unindexed' = IF InPlace(kind) /\ indexer[s] = {} THEN unindexed
                                                      ELSE unindexed \cup {s}
    /\ UNCHANGED <<kind, spec, writes>>

(* The process dies in WriteEntry, after the file or header was created or *)
(* the data written, and before the builder saw the entry.                 *)
CrashInWriteEntry(s, e) ==
    /\ session[s] = "open"
    /\ kind # "memory"
    /\ writes < MaxWrites
    /\ writes' = writes + 1
    /\ Writable(e)
    /\ Write(s, e, {})
    /\ session' = [session EXCEPT ![s] = "gone"]
    /\ indexer' = [indexer EXCEPT ![s] = {}]
    /\ finished' = ~InPlace(kind)
    /\ unindexed' = IF indexer[s] = {} THEN unindexed ELSE unindexed \cup {s}
    /\ UNCHANGED <<kind, spec>>

Next ==
    \E s \in Sessions :
        \/ Create(s) \/ Close(s) \/ Destroy(s) \/ Crash(s)
        \/ \E e \in UserEntries :
             WriteEntry(s, e) \/ WriteEntryFails(s, e) \/ CrashInWriteEntry(s, e)

Spec == Init /\ [][Next]_vars
-----------------------------------------------------------------------------
(* What an index of its session should list for a record, and for the      *)
(* records of session s among the first i.                                 *)
Lists(r) ==
    IF r.index = {} /\ IsStampedMessage(r.entry)
    THEN {TopicTime(tt, r.name) : tt \in GetTopicTime(r.entry)}
    ELSE {}

WrittenBy(log, s, i) == {j \in 1 .. i : log[j].by = s}

ShouldList(log, s, i) == UNION {Lists(log[j]) : j \in WrittenBy(log, s, i)}

(* Types; a builder belongs to an open session that asked for an index.    *)
TypeOK ==
    /\ kind \in Kinds
    /\ archive \in Seq(RangeOf(archive))
    /\ \A i \in DOMAIN archive :
        /\ archive[i].by \in Sessions
        /\ archive[i].index = {} => archive[i].entry \in UserEntries
        /\ archive[i].whole \in BOOLEAN
    /\ finished \in BOOLEAN
    /\ session \in [Sessions -> {"none", "open", "gone"}]
    /\ spec \in [Sessions -> Specs \cup {NoIndexing}]
    /\ DOMAIN indexer = Sessions
    /\ \A s \in Sessions : indexer[s] # {} =>
        session[s] = "open" /\ ShouldDoIndexing(spec[s])
    /\ writes \in 0 .. MaxWrites
    /\ unindexed \subseteq Sessions

(* An index lists exactly the stamped messages that its session wrote      *)
(* before closing, under the names they were written with: none that only  *)
(* failed, none of another session, and none left out.                     *)
IndexMatchesArchive ==
    \A i \in DOMAIN archive : \A idx \in archive[i].index :
        LET s == archive[i].by
        IN  RangeOf(idx.time_ordered_entries) =
              IF spec[s].timeseries THEN ShouldList(archive, s, i) ELSE {}

(* The messages of some topics that a session wrote before its index.      *)
MessagesOf(s, i, topics) ==
    {j \in WrittenBy(archive, s, i) : \E tt \in Lists(archive[j]) : tt.topic \in topics}

(* The statistics of an index fit its entries: it lists every message as   *)
(* often as it was written, counts those of each topic, and has the        *)
(* inclusive times of the first and the last, which are in time order.     *)
IndexStatsAgree ==
    \A i \in DOMAIN archive : \A idx \in archive[i].index :
        LET seq == idx.time_ordered_entries
            s == archive[i].by
        IN  /\ spec[s].timeseries =>
                 /\ Len(seq) = Cardinality(MessagesOf(s, i, AllTopics))
                 /\ \A t \in AllTopics :
                        idx.topic_to_stats[t] = Cardinality(MessagesOf(s, i, {t}))
            /\ InTimeOrder(seq)
            /\ seq # <<>> => /\ idx.start = seq[1].stamp
                             /\ idx.end = seq[Len(seq)].stamp

(* However often it is closed and destroyed, a session writes one index.   *)
OneIndexPerSession ==
    \A i, j \in DOMAIN archive :
        (archive[i].index # {} /\ archive[j].index # {} /\ archive[i].by = archive[j].by)
            => i = j

(* Every name in an index can be read from the archive it is found in,     *)
(* also after a crash: no index outlives its entries.                      *)
IndexedNamesResolve ==
    \A i \in DOMAIN Visible : \A idx \in Visible[i].index :
        \A k \in DOMAIN idx.time_ordered_entries :
            ReadAsStr(kind, Visible, idx.time_ordered_entries[k].entryname) # {}

(* The index of s, unless a session that closed at the same time has       *)
(* replaced it under the same name.                                        *)
IndexFound(contents, s) ==
    \E n \in NamesIn(kind, contents) :
        /\ EntryIsInTopic(n, IndexTopic)
        /\ \E r \in ReadAsStr(kind, contents, n) :
            \/ r.by = s /\ r.index # {} /\ r.whole
            \/ \E i, j \in DOMAIN contents :
                 /\ i < j
                 /\ contents[i].by = s /\ contents[i].index # {}
                 /\ contents[j].by # s /\ contents[j].name = contents[i].name

(* A session that asked for an index and is destroyed leaves one a reader  *)
(* can find through the list of names, unless a fault lost it.             *)
DestroyedIsIndexed ==
    [][\A s \in Sessions :
        (session[s] = "open" /\ session'[s] = "gone" /\ ShouldDoIndexing(spec[s]))
            => s \in unindexed' \/ IndexFound(Visible', s)]_vars

(* WriteSession.hpp:54-55 says that Close "writes an index, flushes all    *)
(* data, to disk": what the session wrote can then be read.                *)
FlushedWhenClosed ==
    \A s \in Sessions :
        (session[s] = "open" /\ ShouldDoIndexing(spec[s]) /\ indexer[s] = {})
            => Visible = archive

=============================================================================

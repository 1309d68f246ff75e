------------------------ MODULE WriteSession_proofs ------------------------
(***************************************************************************)
(* Proofs about WriteSession, for all sessions, entries, archive formats   *)
(* and faults: every index in the archive lists exactly the stamped        *)
(* messages that its session wrote.                                        *)
(***************************************************************************)
EXTENDS WriteSession, OrderLemmas, SequenceTheorems, FiniteSetTheorems, TLAPS

(* What the builders know while their sessions are open.                   *)
BuildersMatch ==
    \A s \in Sessions : \A b \in indexer[s] :
        /\ b.timeseries = spec[s].timeseries
        /\ b.observed \in Seq(RangeOf(b.observed))
        /\ RangeOf(b.observed) =
             IF spec[s].timeseries THEN ShouldList(archive, s, Len(archive)) ELSE {}

(* No session wrote before it was created.                                 *)
Owners == \A i \in DOMAIN archive : session[archive[i].by] # "none"

(* A zip or tar has one writer, so truncating it robs no open session.     *)
OneWriter ==
    \/ InPlace(kind)
    \/ \A r, s \in Sessions : session[r] = "open" /\ session[s] = "open" => r = s

IInv == TypeOK /\ BuildersMatch /\ Owners /\ OneWriter /\ IndexMatchesArchive

-----------------------------------------------------------------------------
(* What a log should list depends only on its records.                     *)
Agree(log, log2, n) == \A j \in 1 .. n : log2[j] = log[j]

LEMMA SamePrefix ==
    ASSUME NEW log, NEW log2, NEW n \in Nat, Agree(log, log2, n), NEW s
    PROVE  \A i \in 0 .. n : ShouldList(log2, s, i) = ShouldList(log, s, i)
<1> TAKE i \in 0 .. n
<1>1. WrittenBy(log2, s, i) = WrittenBy(log, s, i)
  BY DEF WrittenBy, Agree
<1>2. \A j \in WrittenBy(log, s, i) : log2[j] = log[j]
  BY DEF WrittenBy, Agree
<1>3. QED
  BY <1>1, <1>2, Zenon DEF ShouldList

LEMMA AppendRecord ==
    ASSUME NEW log, log \in Seq(RangeOf(log)), NEW r, NEW log2, log2 = Append(log, r)
    PROVE  /\ log2 \in Seq(RangeOf(log2))
           /\ Len(log) \in Nat /\ Len(log2) = Len(log) + 1
           /\ DOMAIN log = 1 .. Len(log) /\ DOMAIN log2 = 1 .. Len(log) + 1
           /\ \A i \in 1 .. Len(log) : log2[i] = log[i]
           /\ log2[Len(log) + 1] = r
           /\ RangeOf(log2) = RangeOf(log) \cup {r}
<1> DEFINE S == RangeOf(log) \cup {r}
<1>1. log \in Seq(S)
  BY SeqMonotonic
<1>2. r \in S
  OBVIOUS
<1> HIDE DEF S
<1>3. /\ log2 \in Seq(S) /\ Len(log) \in Nat /\ Len(log2) = Len(log) + 1
      /\ DOMAIN log = 1 .. Len(log) /\ DOMAIN log2 = 1 .. Len(log) + 1
      /\ \A i \in 1 .. Len(log) : log2[i] = log[i]
      /\ log2[Len(log) + 1] = r
  BY <1>1, <1>2
<1>4. RangeOf(log2) = S
  <2>1. \A x \in RangeOf(log2) : x \in S
    BY <1>3 DEF RangeOf
  <2>2. \A x \in RangeOf(log) : x \in RangeOf(log2)
    BY <1>3 DEF RangeOf
  <2>3. r \in RangeOf(log2)
    BY <1>3 DEF RangeOf
  <2>4. QED
    BY <2>1, <2>2, <2>3 DEF S
<1>5. QED
  BY <1>3, <1>4 DEF S

GrowsBy(log, log2, r, s) ==
    /\ \A i \in 0 .. Len(log) : ShouldList(log2, s, i) = ShouldList(log, s, i)
    /\ ShouldList(log2, s, Len(log) + 1) =
         ShouldList(log, s, Len(log)) \cup (IF r.by = s THEN Lists(r) ELSE {})

LEMMA AppendLists ==
    ASSUME NEW log, log \in Seq(RangeOf(log)), NEW r, NEW log2, log2 = Append(log, r),
           NEW s
    PROVE  GrowsBy(log, log2, r, s)
<1>1. /\ Len(log) \in Nat
      /\ \A i \in 1 .. Len(log) : log2[i] = log[i]
      /\ log2[Len(log) + 1] = r
  BY AppendRecord
<1>2. \A i \in 0 .. Len(log) : ShouldList(log2, s, i) = ShouldList(log, s, i)
  <2>1. Agree(log, log2, Len(log))
    BY <1>1 DEF Agree
  <2>2. QED
    BY <1>1, <2>1, SamePrefix
<1>3. ShouldList(log2, s, Len(log) + 1) =
        ShouldList(log2, s, Len(log)) \cup (IF r.by = s THEN Lists(r) ELSE {})
  <2>1. WrittenBy(log2, s, Len(log) + 1) =
          WrittenBy(log2, s, Len(log)) \cup (IF r.by = s THEN {Len(log) + 1} ELSE {})
    BY <1>1 DEF WrittenBy
  <2> DEFINE W == WrittenBy(log2, s, Len(log))
             k == Len(log) + 1
  <2>2. ASSUME NEW X
        PROVE  UNION {Lists(log2[j]) : j \in X \cup {k}} =
                 (UNION {Lists(log2[j]) : j \in X}) \cup Lists(log2[k])
    <3> HIDE DEF k
    <3>1. QED
      OBVIOUS
  <2>3. CASE r.by = s
    <3>1. WrittenBy(log2, s, k) = W \cup {k}
      BY <2>1, <2>3
    <3> HIDE DEF W
    <3>2. UNION {Lists(log2[j]) : j \in WrittenBy(log2, s, k)} =
            (UNION {Lists(log2[j]) : j \in W}) \cup Lists(log2[k])
      BY <3>1, <2>2, Zenon
    <3>3. QED
      BY <3>2, <2>3, <1>1 DEF ShouldList, W
  <2>4. CASE r.by # s
    BY <2>1, <2>4 DEF ShouldList
  <2>5. QED
    BY <2>3, <2>4
<1>4. QED
  BY <1>1, <1>2, <1>3 DEF GrowsBy

(* A user's entry has at most one topic and time.                          *)
LEMMA OneTopicTime ==
    ASSUME NEW e \in UserEntries, IsStampedMessage(e)
    PROVE  \E tt : GetTopicTime(e) = {tt}
<1>1. e.ctx = {} \/ \E tt \in e.ctx : e.ctx = {tt}
  BY WriteSessionAssumption
<1>2. CASE e.ctx # {}
  BY <1>1, <1>2 DEF GetTopicTime
<1>3. CASE e.ctx = {}
  <2>1. e.type = "StampedMessage"
    BY <1>3 DEF IsStampedMessage, HasTopic, GetTopicTime
  <2>2. GetTopicTime(e) =
          {[topic |-> GetTopicFromEntryname(e.entryname), stamp |-> e.stamp]}
    BY <1>3, <2>1 DEF GetTopicTime, UnpackFromStamped
  <2>3. QED
    BY <2>2
<1>4. QED
  BY <1>2, <1>3

(* Observe adds to the builder what the record should be listed as.        *)
Learns(b, b2, r) ==
    /\ b2.timeseries = b.timeseries
    /\ b2.observed \in Seq(RangeOf(b2.observed))
    /\ RangeOf(b2.observed) =
         RangeOf(b.observed) \cup (IF b.timeseries THEN Lists(r) ELSE {})

LEMMA ObserveLists ==
    ASSUME NEW e \in UserEntries, NEW name, NEW b, NEW r,
           b.observed \in Seq(RangeOf(b.observed)), b.timeseries \in BOOLEAN,
           r.entry = e, r.name = name, r.index = {}
    PROVE  Learns(b, Observe(b, e, name), r)
<1>1. CASE b.timeseries /\ IsStampedMessage(e)
  <2>1. PICK tt : GetTopicTime(e) = {tt}
    BY <1>1, OneTopicTime
  <2>2. (CHOOSE t \in GetTopicTime(e) : TRUE) = tt
    BY <2>1
  <2>3. Observe(b, e, name) = ObserveTopicTime(b, TopicTime(tt, name))
    BY <1>1, <2>2 DEF Observe
  <2>4. /\ Observe(b, e, name).timeseries = b.timeseries
        /\ Observe(b, e, name).observed = Append(b.observed, TopicTime(tt, name))
    BY <2>3 DEF ObserveTopicTime
  <2>5. Lists(r) = {TopicTime(tt, name)}
    BY <1>1, <2>1 DEF Lists
  <2> DEFINE obs == b.observed
             new == TopicTime(tt, name)
             obs2 == Append(obs, new)
  <2>6. /\ obs2 \in Seq(RangeOf(obs2))
        /\ RangeOf(obs2) = RangeOf(obs) \cup {new}
    <3>1. obs \in Seq(RangeOf(obs))
      OBVIOUS
    <3> HIDE DEF obs, new
    <3>2. obs2 = Append(obs, new)
      OBVIOUS
    <3> HIDE DEF obs2
    <3>3. QED
      BY <3>1, <3>2, AppendRecord
  <2>7. QED
    BY <1>1, <2>4, <2>5, <2>6 DEF Learns
<1>2. CASE ~(b.timeseries /\ IsStampedMessage(e))
  <2>1. Observe(b, e, name) = b
    BY <1>2 DEF Observe
  <2>2. (IF b.timeseries THEN Lists(r) ELSE {}) = {}
    BY <1>2 DEF Lists
  <2>3. QED
    BY <2>1, <2>2 DEF Learns
<1>3. QED
  BY <1>1, <1>2

(* Sorting neither loses nor invents an entry.                             *)
LEMMA CompleteLists ==
    ASSUME NEW b, NEW idx \in Complete(b)
    PROVE  RangeOf(idx.time_ordered_entries) = RangeOf(b.observed)
<1>1. PICK seq \in Reorderings(b.observed) : idx.time_ordered_entries = seq
  BY DEF Complete, OrderedTTs
<1>2. PICK p \in [DOMAIN b.observed -> DOMAIN b.observed] :
        /\ \A i \in DOMAIN b.observed : \E j \in DOMAIN b.observed : p[j] = i
        /\ seq = [i \in DOMAIN b.observed |-> b.observed[p[i]]]
  BY <1>1 DEF Reorderings
<1>3. DOMAIN seq = DOMAIN b.observed
  BY <1>2
<1>4. \A x \in RangeOf(seq) : x \in RangeOf(b.observed)
  BY <1>2, <1>3 DEF RangeOf
<1>5. \A x \in RangeOf(b.observed) : x \in RangeOf(seq)
  BY <1>2, <1>3 DEF RangeOf
<1>6. QED
  BY <1>1, <1>4, <1>5

-----------------------------------------------------------------------------
ArchiveOK ==
    /\ archive \in Seq(RangeOf(archive))
    /\ \A i \in DOMAIN archive :
        /\ archive[i].by \in Sessions
        /\ archive[i].index = {} => archive[i].entry \in UserEntries
        /\ archive[i].whole \in BOOLEAN

LEMMA InitHolds == Init => IInv
<1> SUFFICES ASSUME Init PROVE IInv
  OBVIOUS
<1>1. archive = <<>> /\ DOMAIN archive = {}
  BY DEF Init
<1>2. TypeOK
  <2>1. archive \in Seq(RangeOf(archive))
    BY <1>1, EmptySeq
  <2>2. MaxWrites \in Nat
    BY WriteSessionAssumption
  <2>3. /\ \A i \in DOMAIN archive : FALSE
        /\ kind \in Kinds /\ finished \in BOOLEAN /\ unindexed \subseteq Sessions
        /\ session \in [Sessions -> {"none", "open", "gone"}]
        /\ DOMAIN indexer = Sessions /\ \A s \in Sessions : indexer[s] = {}
    BY <1>1 DEF Init
  <2>4. writes \in 0 .. MaxWrites
    BY <2>2 DEF Init
  <2>5. spec \in [Sessions -> Specs \cup {NoIndexing}]
    BY DEF Init
  <2>6. QED
    BY <2>1, <2>3, <2>4, <2>5 DEF TypeOK
<1>3. BuildersMatch /\ Owners /\ IndexMatchesArchive
  BY <1>1 DEF Init, BuildersMatch, Owners, IndexMatchesArchive
<1>4. OneWriter
  BY DEF Init, OneWriter
<1>5. QED
  BY <1>2, <1>3, <1>4 DEF IInv

(* A record of an open session keeps the archive right, if it is right     *)
(* itself: what it is an index of must be what should be listed.           *)
LEMMA AppendKeeps ==
    ASSUME IInv, NEW s \in Sessions, NEW r, r.by = s, r.whole \in BOOLEAN,
           r.index = {} => r.entry \in UserEntries,
           \A idx \in r.index : RangeOf(idx.time_ordered_entries) =
                IF spec[s].timeseries THEN ShouldList(archive, s, Len(archive)) ELSE {},
           r.index # {} => Lists(r) = {},
           archive' = Append(archive, r), UNCHANGED spec,
           session'[s] # "none", \A q \in Sessions : session[q] # "none" => session'[q] # "none"
    PROVE  ArchiveOK' /\ Owners' /\ IndexMatchesArchive'
<1> DEFINE n == Len(archive)
<1>1. archive \in Seq(RangeOf(archive))
  BY DEF IInv, TypeOK
<1>2. /\ archive' \in Seq(RangeOf(archive'))
      /\ n \in Nat /\ DOMAIN archive = 1 .. n /\ DOMAIN archive' = 1 .. n + 1
      /\ \A i \in 1 .. n : archive'[i] = archive[i]
      /\ archive'[n + 1] = r
  <2>1. /\ archive' \in Seq(RangeOf(archive'))
        /\ Len(archive) \in Nat /\ DOMAIN archive = 1 .. Len(archive)
        /\ DOMAIN archive' = 1 .. Len(archive) + 1
    BY <1>1, AppendRecord
  <2>2. /\ \A i \in 1 .. Len(archive) : archive'[i] = archive[i]
        /\ archive'[Len(archive) + 1] = r
    BY <1>1, AppendRecord
  <2>3. QED
    BY <2>1, <2>2
<1>3. \A q : /\ \A i \in 0 .. n : ShouldList(archive', q, i) = ShouldList(archive, q, i)
             /\ ShouldList(archive', q, n + 1) = ShouldList(archive, q, n)
                  \cup (IF r.by = q THEN Lists(r) ELSE {})
  <2>1. \A q : GrowsBy(archive, archive', r, q)
    BY <1>1, AppendLists
  <2>2. QED
    BY <2>1 DEF GrowsBy
<1>4. \A i \in DOMAIN archive' : i \in DOMAIN archive \/ i = n + 1
  BY <1>2
<1> HIDE DEF n
<1>5. ArchiveOK'
  <2>1. ASSUME NEW i \in DOMAIN archive'
        PROVE  /\ archive'[i].by \in Sessions
               /\ archive'[i].index = {} => archive'[i].entry \in UserEntries
               /\ archive'[i].whole \in BOOLEAN
    <3>1. CASE i \in DOMAIN archive
      BY <3>1, <1>2 DEF IInv, TypeOK
    <3>2. CASE i = n + 1
      BY <3>2, <1>2
    <3>3. QED
      BY <3>1, <3>2, <1>4
  <2>2. QED
    BY <2>1, <1>2 DEF ArchiveOK
<1>6. Owners'
  <2>1. ASSUME NEW i \in DOMAIN archive' PROVE session'[archive'[i].by] # "none"
    <3>1. CASE i \in DOMAIN archive
      <4>1. archive[i].by \in Sessions /\ session[archive[i].by] # "none"
        BY <3>1 DEF IInv, TypeOK, Owners
      <4>2. QED
        BY <4>1, <3>1, <1>2
    <3>2. CASE i = n + 1
      BY <3>2, <1>2
    <3>3. QED
      BY <3>1, <3>2, <1>4
  <2>2. QED
    BY <2>1 DEF Owners
<1>7. IndexMatchesArchive'
  <2>1. ASSUME NEW i \in DOMAIN archive', NEW idx \in archive'[i].index
        PROVE  RangeOf(idx.time_ordered_entries) =
                 IF spec[archive'[i].by].timeseries
                 THEN ShouldList(archive', archive'[i].by, i) ELSE {}
    <3>1. CASE i \in DOMAIN archive
      <4>1. archive'[i] = archive[i] /\ i \in 0 .. n
        BY <3>1, <1>2
      <4>2. ShouldList(archive', archive[i].by, i) = ShouldList(archive, archive[i].by, i)
        BY <4>1, <1>3
      <4>3. QED
        BY <3>1, <4>1, <4>2 DEF IInv, IndexMatchesArchive
    <3>2. CASE i = n + 1
      <4>1. idx \in r.index /\ r.index # {}
        BY <3>2, <1>2
      <4>2. ShouldList(archive', s, n + 1) = ShouldList(archive, s, n)
        BY <4>1, <1>3
      <4>3. QED
        BY <3>2, <4>1, <4>2, <1>2 DEF n
    <3>3. QED
      BY <3>1, <3>2, <1>4
  <2>2. QED
    BY <2>1 DEF IndexMatchesArchive
<1>8. QED
  BY <1>5, <1>6, <1>7

(* The builders of the other sessions do not see the record.               *)
LEMMA OthersKeep ==
    ASSUME IInv, NEW s \in Sessions, NEW r, r.by = s,
           archive' = Append(archive, r), UNCHANGED spec,
           NEW q \in Sessions, q # s, indexer'[q] = indexer[q], NEW b \in indexer'[q]
    PROVE  /\ b.timeseries = spec'[q].timeseries
           /\ b.observed \in Seq(RangeOf(b.observed))
           /\ RangeOf(b.observed) =
                IF spec'[q].timeseries THEN ShouldList(archive', q, Len(archive')) ELSE {}
<1>1. archive \in Seq(RangeOf(archive))
  BY DEF IInv, TypeOK
<1>2. Len(archive') = Len(archive) + 1
  BY <1>1, AppendRecord
<1>3. ShouldList(archive', q, Len(archive) + 1) =
        ShouldList(archive, q, Len(archive)) \cup (IF r.by = q THEN Lists(r) ELSE {})
  <2>1. GrowsBy(archive, archive', r, q)
    BY <1>1, AppendLists
  <2>2. QED
    BY <2>1 DEF GrowsBy
<1>4. ShouldList(archive', q, Len(archive')) = ShouldList(archive, q, Len(archive))
  BY <1>2, <1>3
<1>5. QED
  BY <1>4 DEF IInv, BuildersMatch

-----------------------------------------------------------------------------
LEMMA CreateKeeps ==
    ASSUME IInv, NEW s \in Sessions, Create(s)
    PROVE  IInv'
<1>1. PICK sp \in Specs :
        /\ spec' = [spec EXCEPT ![s] = sp]
        /\ indexer' = [indexer EXCEPT ![s] =
              IF ShouldDoIndexing(sp) THEN {NewBuilder(sp.timeseries)} ELSE {}]
  BY DEF Create
<1>2. archive' = archive \/ (archive' = <<>> /\ ~InPlace(kind))
  BY DEF Create
<1>3. archive \in Seq(RangeOf(archive)) /\ \A i \in DOMAIN archive : archive[i].by \in Sessions
  BY DEF IInv, TypeOK
<1>4. \A i \in DOMAIN archive : archive[i].by # s
  BY DEF IInv, Owners, Create
<1>5. \A q \in Sessions : spec'[q] = IF q = s THEN sp ELSE spec[q]
  BY <1>1 DEF IInv, TypeOK
<1>6. \A q \in Sessions : indexer'[q] =
        IF q = s THEN (IF ShouldDoIndexing(sp) THEN {NewBuilder(sp.timeseries)} ELSE {})
                 ELSE indexer[q]
  BY <1>1 DEF IInv, TypeOK
<1>7. \A q \in Sessions : session'[q] = IF q = s THEN "open" ELSE session[q]
  BY DEF Create, IInv, TypeOK
<1>8. TypeOK'
  <2>1. archive' \in Seq(RangeOf(archive'))
    BY <1>2, <1>3, EmptySeq
  <2>2. \A i \in DOMAIN archive' : i \in DOMAIN archive /\ archive'[i] = archive[i]
    BY <1>2
  <2>3. spec' \in [Sessions -> Specs \cup {NoIndexing}] /\ DOMAIN indexer' = Sessions
    BY <1>1 DEF IInv, TypeOK
  <2>4. \A q \in Sessions : indexer'[q] # {} =>
          session'[q] = "open" /\ ShouldDoIndexing(spec'[q])
    BY <1>5, <1>6, <1>7 DEF IInv, TypeOK
  <2>5. /\ session' \in [Sessions -> {"none", "open", "gone"}]
        /\ kind' \in Kinds /\ finished' \in BOOLEAN /\ writes' \in 0 .. MaxWrites
        /\ unindexed' \subseteq Sessions
    BY DEF Create, IInv, TypeOK
  <2>6. \A i \in DOMAIN archive' :
          /\ archive'[i].by \in Sessions
          /\ archive'[i].index = {} => archive'[i].entry \in UserEntries
          /\ archive'[i].whole \in BOOLEAN
    BY <2>2 DEF IInv, TypeOK
  <2>7. QED
    BY <2>1, <2>3, <2>4, <2>5, <2>6 DEF TypeOK
<1>9. BuildersMatch'
  <2> SUFFICES ASSUME NEW q \in Sessions, NEW b \in indexer'[q]
      PROVE  /\ b.timeseries = spec'[q].timeseries
             /\ b.observed \in Seq(RangeOf(b.observed))
             /\ RangeOf(b.observed) = IF spec'[q].timeseries
                  THEN ShouldList(archive', q, Len(archive')) ELSE {}
    BY DEF BuildersMatch
  <2>1. CASE q = s
    <3>1. b = NewBuilder(sp.timeseries)
      BY <2>1, <1>6
    <3>2. b.timeseries = spec'[q].timeseries /\ b.observed = <<>>
      BY <3>1, <2>1, <1>5 DEF NewBuilder
    <3>3. <<>> \in Seq(RangeOf(<<>>)) /\ RangeOf(<<>>) = {}
      BY EmptySeq DEF RangeOf
    <3>4. WrittenBy(archive', s, Len(archive')) = {}
      <4>1. CASE archive' = archive
        BY <4>1, <1>3, <1>4 DEF WrittenBy
      <4>2. CASE archive' = <<>>
        BY <4>2 DEF WrittenBy
      <4>3. QED
        BY <1>2, <4>1, <4>2
    <3>5. ShouldList(archive', q, Len(archive')) = {}
      BY <3>4, <2>1 DEF ShouldList
    <3>6. QED
      BY <3>2, <3>3, <3>5
  <2>2. CASE q # s
    <3>1. b \in indexer[q] /\ session[q] = "open"
      BY <2>2, <1>6 DEF IInv, TypeOK
    <3>2. archive' = archive
      BY <3>1, <1>2 DEF Create
    <3>3. QED
      BY <3>1, <3>2, <2>2, <1>5 DEF IInv, BuildersMatch
  <2>3. QED
    BY <2>1, <2>2
<1>10. Owners'
  BY <1>2, <1>3, <1>7 DEF IInv, Owners
<1>11. OneWriter'
  BY <1>7 DEF Create, IInv, OneWriter
<1>12. IndexMatchesArchive'
  <2>1. CASE archive' = archive
    BY <2>1, <1>3, <1>4, <1>5 DEF IInv, IndexMatchesArchive
  <2>2. CASE archive' = <<>>
    BY <2>2 DEF IndexMatchesArchive
  <2>3. QED
    BY <1>2, <2>1, <2>2
<1>13. QED
  BY <1>8, <1>9, <1>10, <1>11, <1>12 DEF IInv

(* The record that Write appends for an entry of a user.                   *)
LEMMA WrittenRecord ==
    ASSUME NEW s \in Sessions, NEW e, NEW idx, Write(s, e, idx)
    PROVE  \E r : /\ archive' = Append(archive, r) /\ r.by = s /\ r.entry = e
                  /\ r.name = FinalName(e) /\ r.index = idx /\ r.whole \in BOOLEAN
<1>1. PICK whole \in BOOLEAN : archive' = Append(archive,
        [by |-> s, name |-> FinalName(e), entry |-> e, index |-> idx, whole |-> whole])
  BY DEF Write
<1> DEFINE r == [by |-> s, name |-> FinalName(e), entry |-> e, index |-> idx,
                 whole |-> whole]
<1>2. /\ r.by = s /\ r.entry = e /\ r.name = FinalName(e) /\ r.index = idx
      /\ r.whole \in BOOLEAN
  OBVIOUS
<1>3. archive' = Append(archive, r)
  BY <1>1
<1> HIDE DEF r
<1>4. QED
  BY <1>2, <1>3

LEMMA SpecTyped ==
    ASSUME IInv, NEW s \in Sessions
    PROVE  spec[s].timeseries \in BOOLEAN
<1>1. spec[s] \in Specs \cup {NoIndexing}
  BY DEF IInv, TypeOK
<1>2. Specs \subseteq [timeseries : BOOLEAN, descriptors : BOOLEAN]
  BY WriteSessionAssumption
<1>3. CASE spec[s] = NoIndexing
  BY <1>3 DEF NoIndexing
<1>4. CASE spec[s] \in Specs
  BY <1>2, <1>4
<1>5. QED
  BY <1>1, <1>3, <1>4

LEMMA WriteEntryKeeps ==
    ASSUME IInv, NEW s \in Sessions, NEW e \in UserEntries, WriteEntry(s, e)
    PROVE  IInv'
<1>1. PICK r : /\ archive' = Append(archive, r) /\ r.by = s /\ r.entry = e
               /\ r.name = FinalName(e) /\ r.index = {} /\ r.whole \in BOOLEAN
  BY WrittenRecord DEF WriteEntry
<1>2. UNCHANGED <<kind, finished, session, spec, unindexed>> /\ session[s] = "open"
  BY DEF WriteEntry
<1>3. ArchiveOK' /\ Owners' /\ IndexMatchesArchive'
  BY <1>1, <1>2, AppendKeeps
<1>4. DOMAIN indexer' = Sessions
      /\ \A q \in Sessions : indexer'[q] =
           IF q = s THEN {Observe(b, e, FinalName(e)) : b \in indexer[s]} ELSE indexer[q]
  BY DEF WriteEntry, IInv, TypeOK
<1>5. BuildersMatch'
  <2> SUFFICES ASSUME NEW q \in Sessions, NEW b \in indexer'[q]
      PROVE  /\ b.timeseries = spec'[q].timeseries
             /\ b.observed \in Seq(RangeOf(b.observed))
             /\ RangeOf(b.observed) = IF spec'[q].timeseries
                  THEN ShouldList(archive', q, Len(archive')) ELSE {}
    BY DEF BuildersMatch
  <2>1. CASE q = s
    <3>1. PICK c \in indexer[s] : b = Observe(c, e, FinalName(e))
      BY <2>1, <1>4
    <3>2. /\ c.timeseries = spec[s].timeseries
          /\ c.observed \in Seq(RangeOf(c.observed))
          /\ RangeOf(c.observed) = IF spec[s].timeseries
               THEN ShouldList(archive, s, Len(archive)) ELSE {}
      BY DEF IInv, BuildersMatch
    <3>3. c.timeseries \in BOOLEAN
      BY <3>2, SpecTyped
    <3>4. Learns(c, b, r)
      BY <3>1, <3>2, <3>3, <1>1, ObserveLists
    <3>5. archive \in Seq(RangeOf(archive))
      BY DEF IInv, TypeOK
    <3>6. Len(archive') = Len(archive) + 1
      BY <3>5, <1>1, AppendRecord
    <3>7. GrowsBy(archive, archive', r, s)
      BY <3>5, <1>1, AppendLists
    <3>8. ShouldList(archive', s, Len(archive')) =
            ShouldList(archive, s, Len(archive)) \cup Lists(r)
      BY <3>6, <3>7, <1>1 DEF GrowsBy
    <3>9. QED
      BY <2>1, <3>2, <3>3, <3>4, <3>8, <1>2 DEF Learns
  <2>2. CASE q # s
    BY <2>2, <1>1, <1>2, <1>4, OthersKeep
  <2>3. QED
    BY <2>1, <2>2
<1>6. TypeOK'
  <2>1. \A q \in Sessions : indexer'[q] # {} =>
          session'[q] = "open" /\ ShouldDoIndexing(spec'[q])
    BY <1>2, <1>4 DEF IInv, TypeOK
  <2>2. writes' \in 0 .. MaxWrites
    <3>1. MaxWrites \in Nat
      BY WriteSessionAssumption
    <3>2. QED
      BY <3>1 DEF WriteEntry, IInv, TypeOK
  <2>3. QED
    BY <1>2, <1>3, <1>4, <2>1, <2>2 DEF ArchiveOK, IInv, TypeOK
<1>7. OneWriter'
  BY <1>2 DEF IInv, OneWriter
<1>8. QED
  BY <1>3, <1>5, <1>6, <1>7 DEF IInv

-----------------------------------------------------------------------------
(* What a builder has to know of a log.                                    *)
KnowsLog(b, sp, log, q) ==
    /\ b.timeseries = sp.timeseries
    /\ b.observed \in Seq(RangeOf(b.observed))
    /\ RangeOf(b.observed) = IF sp.timeseries THEN ShouldList(log, q, Len(log)) ELSE {}

(* A session that lets go of its builder.                                  *)
LEMMA DroppingKeeps ==
    ASSUME IInv, NEW s \in Sessions, session[s] = "open",
           DOMAIN indexer' = Sessions,
           \A q \in Sessions : indexer'[q] = IF q = s THEN {} ELSE indexer[q],
           session' = session \/ session' = [session EXCEPT ![s] = "gone"],
           UNCHANGED <<kind, spec>>, finished' \in BOOLEAN,
           writes' = writes \/ (writes < MaxWrites /\ writes' = writes + 1),
           unindexed' = unindexed \/ unindexed' = unindexed \cup {s},
           ArchiveOK', Owners', IndexMatchesArchive',
           \A q \in Sessions : q # s =>
               \A b \in indexer[q] : KnowsLog(b, spec[q], archive', q)
    PROVE  IInv'
<1>2. /\ session' \in [Sessions -> {"none", "open", "gone"}]
      /\ \A q \in Sessions : session'[q] = session[q] \/ (q = s /\ session'[q] = "gone")
  BY DEF IInv, TypeOK
<1>3. writes' \in 0 .. MaxWrites
  <2>1. MaxWrites \in Nat
    BY WriteSessionAssumption
  <2>2. QED
    BY <2>1 DEF IInv, TypeOK
<1>4. \A q \in Sessions : indexer'[q] # {} =>
        session'[q] = "open" /\ ShouldDoIndexing(spec'[q])
  BY <1>2 DEF IInv, TypeOK
<1>5. TypeOK'
  <2>1. unindexed' \subseteq Sessions
    BY DEF IInv, TypeOK
  <2>2. kind' \in Kinds /\ spec' \in [Sessions -> Specs \cup {NoIndexing}]
    BY DEF IInv, TypeOK
  <2>3. QED
    BY <1>2, <1>3, <1>4, <2>1, <2>2 DEF ArchiveOK, TypeOK
<1>6. BuildersMatch'
  <2>1. ASSUME NEW q \in Sessions, NEW b \in indexer'[q]
        PROVE  KnowsLog(b, spec'[q], archive', q)
    OBVIOUS
  <2>2. QED
    BY <2>1 DEF BuildersMatch, KnowsLog
<1>7. OneWriter'
  BY <1>2 DEF IInv, OneWriter
<1>8. QED
  BY <1>5, <1>6, <1>7 DEF IInv

LEMMA WriteIndexKeeps ==
    ASSUME IInv, NEW s \in Sessions, session[s] = "open", WriteIndex(s),
           session' = session \/ session' = [session EXCEPT ![s] = "gone"],
           UNCHANGED <<kind, spec, writes>>, finished' \in BOOLEAN
    PROVE  IInv'
<1>1. /\ session'[s] # "none"
      /\ \A q \in Sessions : session[q] # "none" => session'[q] # "none"
  BY DEF IInv, TypeOK
<1>2. unindexed' = unindexed \/ unindexed' = unindexed \cup {s}
  BY DEF WriteIndex
<1>3. /\ DOMAIN indexer' = Sessions
      /\ \A q \in Sessions : indexer'[q] = IF q = s THEN {} ELSE indexer[q]
  BY DEF WriteIndex, IInv, TypeOK
<1>4. CASE UNCHANGED archive
  <2>1. ArchiveOK' /\ Owners' /\ IndexMatchesArchive'
    <3>1. ArchiveOK'
      BY <1>4 DEF ArchiveOK, IInv, TypeOK
    <3>2. Owners'
      BY <1>1, <1>4 DEF IInv, TypeOK, Owners
    <3>3. IndexMatchesArchive'
      BY <1>4 DEF IInv, IndexMatchesArchive
    <3>4. QED
      BY <3>1, <3>2, <3>3
  <2>2. \A q \in Sessions : \A b \in indexer[q] : KnowsLog(b, spec[q], archive', q)
    BY <1>4 DEF IInv, BuildersMatch, KnowsLog
  <2>3. QED
    BY <1>2, <1>3, <2>1, <2>2, DroppingKeeps
<1>5. CASE \E b \in indexer[s], now \in IndexTimes : \E idx \in Complete(b) :
             Write(s, CreateStamped(IndexTopic, now), {idx})
  <2>0. PICK b \in indexer[s], now \in IndexTimes : \E idx \in Complete(b) :
          Write(s, CreateStamped(IndexTopic, now), {idx})
    BY <1>5
  <2>1. PICK idx \in Complete(b) : Write(s, CreateStamped(IndexTopic, now), {idx})
    BY <2>0
  <2>2. PICK r : /\ archive' = Append(archive, r) /\ r.by = s /\ r.index = {idx}
                 /\ r.whole \in BOOLEAN
    BY <2>1, WrittenRecord
  <2>3. RangeOf(idx.time_ordered_entries) = RangeOf(b.observed)
    BY CompleteLists
  <2>4. RangeOf(b.observed) =
          IF spec[s].timeseries THEN ShouldList(archive, s, Len(archive)) ELSE {}
    BY DEF IInv, BuildersMatch
  <2>5. Lists(r) = {}
    BY <2>2 DEF Lists
  <2>6. ArchiveOK' /\ Owners' /\ IndexMatchesArchive'
    BY <2>2, <2>3, <2>4, <2>5, <1>1, AppendKeeps
  <2>7. ASSUME NEW q \in Sessions, q # s, NEW c \in indexer[q]
        PROVE  KnowsLog(c, spec[q], archive', q)
    <3>1. c \in indexer'[q] /\ indexer'[q] = indexer[q] /\ spec'[q] = spec[q]
      BY <1>3, <2>7
    <3>2. /\ c.timeseries = spec'[q].timeseries
          /\ c.observed \in Seq(RangeOf(c.observed))
          /\ RangeOf(c.observed) = IF spec'[q].timeseries
               THEN ShouldList(archive', q, Len(archive')) ELSE {}
      BY <3>1, <2>2, <2>7, OthersKeep
    <3>3. QED
      BY <3>1, <3>2 DEF KnowsLog
  <2>8. QED
    BY <1>2, <1>3, <2>6, <2>7, DroppingKeeps
<1>6. QED
  BY <1>4, <1>5 DEF WriteIndex

LEMMA FirstPart ==
    ASSUME NEW S, NEW log \in Seq(S), NEW n \in 0 .. Len(log)
    PROVE  /\ Len(SubSeq(log, 1, n)) = n /\ DOMAIN SubSeq(log, 1, n) = 1 .. n
           /\ \A i \in 1 .. n : SubSeq(log, 1, n)[i] = log[i]
           /\ SubSeq(log, 1, n) = [i \in 1 .. n |-> log[i]]
           /\ n = Len(log) => SubSeq(log, 1, n) = log
<1>1. Len(log) \in Nat
  OBVIOUS
<1>2. QED
  BY <1>1

(* What is left of a zip or tar after a crash is a first part of it.       *)
LEMMA CrashKeeps ==
    ASSUME IInv, NEW s \in Sessions, Crash(s)
    PROVE  IInv'
<1>1. /\ session[s] = "open" /\ session' = [session EXCEPT ![s] = "gone"]
      /\ DOMAIN indexer' = Sessions
      /\ \A q \in Sessions : indexer'[q] = IF q = s THEN {} ELSE indexer[q]
      /\ UNCHANGED <<kind, spec, writes>> /\ finished' \in BOOLEAN
      /\ unindexed' = unindexed \/ unindexed' = unindexed \cup {s}
  BY DEF Crash, IInv, TypeOK
<1>2. \A q \in Sessions : session[q] # "none" => session'[q] # "none"
  BY <1>1 DEF IInv, TypeOK
<1>3. archive \in Seq(RangeOf(archive)) /\ Len(archive) \in Nat
      /\ DOMAIN archive = 1 .. Len(archive)
  BY DEF IInv, TypeOK
<1>4. PICK n \in 0 .. Len(archive) :
        /\ archive' = SubSeq(archive, 1, n)
        /\ InPlace(kind) => n = Len(archive)
  <2>1. archive = SubSeq(archive, 1, Len(archive)) /\ Len(archive) \in 0 .. Len(archive)
    BY <1>3, FirstPart
  <2>2. CASE InPlace(kind)
    BY <2>1, <2>2 DEF Crash
  <2>3. CASE ~InPlace(kind)
    BY <2>3 DEF Crash
  <2>4. QED
    BY <2>2, <2>3
<1>5. /\ Len(archive') = n /\ DOMAIN archive' = 1 .. n
      /\ \A i \in 1 .. n : archive'[i] = archive[i]
  BY <1>3, <1>4, FirstPart
<1>6. archive' \in Seq(RangeOf(archive'))
  <2>1. \A i \in 1 .. Len(archive') : archive'[i] \in RangeOf(archive')
    BY <1>5 DEF RangeOf
  <2>2. archive' = [i \in 1 .. n |-> archive'[i]]
    BY <1>4, <1>5, <1>3
  <2> DEFINE S == RangeOf(archive')
             f(i) == archive'[i]
  <2>3. n \in Nat /\ \A i \in 1 .. n : f(i) \in S
    BY <2>1, <1>5, <1>3
  <2> HIDE DEF S, f
  <2>4. [i \in 1 .. n |-> f(i)] \in Seq(S)
    BY <2>3
  <2>5. QED
    BY <2>2, <2>4 DEF S, f
<1>7. Agree(archive, archive', n)
  BY <1>5 DEF Agree
<1>8. \A q : \A i \in 0 .. n : ShouldList(archive', q, i) = ShouldList(archive, q, i)
  <2>1. n \in Nat
    BY <1>3
  <2>2. QED
    BY <2>1, <1>7, SamePrefix
<1>9. \A i \in DOMAIN archive' : i \in DOMAIN archive /\ archive'[i] = archive[i] /\ i \in 0 .. n
  <2>1. n \in Nat /\ n <= Len(archive)
    BY <1>3
  <2> TAKE i \in DOMAIN archive'
  <2>2. i \in 1 .. n /\ archive'[i] = archive[i]
    BY <1>5
  <2>3. i \in 1 .. Len(archive) /\ i \in 0 .. n
    BY <2>1, <2>2, <1>3
  <2>4. QED
    BY <2>2, <2>3, <1>3
<1>10. ArchiveOK' /\ Owners' /\ IndexMatchesArchive'
  <2>1. ArchiveOK'
    BY <1>6, <1>9 DEF ArchiveOK, IInv, TypeOK
  <2>2. Owners'
    BY <1>2, <1>9 DEF IInv, TypeOK, Owners
  <2>3. IndexMatchesArchive'
    BY <1>1, <1>8, <1>9 DEF IInv, IndexMatchesArchive
  <2>4. QED
    BY <2>1, <2>2, <2>3
<1>11. ASSUME NEW q \in Sessions, q # s, NEW b \in indexer[q]
       PROVE  KnowsLog(b, spec[q], archive', q)
  <2>1. session[q] = "open"
    BY DEF IInv, TypeOK
  <2>2. InPlace(kind)
    BY <2>1, <1>1, <1>11 DEF IInv, OneWriter
  <2>3. ShouldList(archive', q, n) = ShouldList(archive, q, n) /\ n = Len(archive)
    BY <2>2, <1>3, <1>4, <1>8
  <2>4. QED
    BY <2>3, <1>5 DEF IInv, BuildersMatch, KnowsLog
<1>12. QED
  BY <1>1, <1>10, <1>11, DroppingKeeps

LEMMA CrashInWriteEntryKeeps ==
    ASSUME IInv, NEW s \in Sessions, NEW e \in UserEntries, CrashInWriteEntry(s, e)
    PROVE  IInv'
<1>1. /\ session[s] = "open" /\ session' = [session EXCEPT ![s] = "gone"]
      /\ DOMAIN indexer' = Sessions
      /\ \A q \in Sessions : indexer'[q] = IF q = s THEN {} ELSE indexer[q]
      /\ UNCHANGED <<kind, spec>> /\ finished' \in BOOLEAN
      /\ writes < MaxWrites /\ writes' = writes + 1
      /\ unindexed' = unindexed \/ unindexed' = unindexed \cup {s}
  BY DEF CrashInWriteEntry, IInv, TypeOK
<1>2. PICK r : /\ archive' = Append(archive, r) /\ r.by = s /\ r.entry = e
               /\ r.index = {} /\ r.whole \in BOOLEAN
  BY WrittenRecord DEF CrashInWriteEntry
<1>3. /\ session'[s] # "none"
      /\ \A q \in Sessions : session[q] # "none" => session'[q] # "none"
  BY <1>1 DEF IInv, TypeOK
<1>4. ArchiveOK' /\ Owners' /\ IndexMatchesArchive'
  BY <1>1, <1>2, <1>3, AppendKeeps
<1>5. ASSUME NEW q \in Sessions, q # s, NEW c \in indexer[q]
      PROVE  KnowsLog(c, spec[q], archive', q)
  <2>1. c \in indexer'[q] /\ indexer'[q] = indexer[q] /\ spec'[q] = spec[q]
    BY <1>1, <1>5 DEF IInv, TypeOK
  <2>2. /\ c.timeseries = spec'[q].timeseries
        /\ c.observed \in Seq(RangeOf(c.observed))
        /\ RangeOf(c.observed) = IF spec'[q].timeseries
             THEN ShouldList(archive', q, Len(archive')) ELSE {}
    BY <1>1, <1>2, <1>5, <2>1, OthersKeep
  <2>3. QED
    BY <2>1, <2>2 DEF KnowsLog
<1>6. QED
  BY <1>1, <1>4, <1>5, DroppingKeeps

LEMMA StepKeeps == IInv /\ [Next]_vars => IInv'
<1> SUFFICES ASSUME IInv, [Next]_vars PROVE IInv'
  OBVIOUS
<1>1. ASSUME NEW s \in Sessions, Create(s) PROVE IInv'
  BY <1>1, CreateKeeps
<1>2. ASSUME NEW s \in Sessions, NEW e \in UserEntries, WriteEntry(s, e) PROVE IInv'
  BY <1>2, WriteEntryKeeps
<1>3. ASSUME NEW s \in Sessions, NEW e \in UserEntries, WriteEntryFails(s, e) PROVE IInv'
  <2>1. UNCHANGED <<kind, archive, finished, session, spec, indexer, unindexed>>
    BY <1>3 DEF WriteEntryFails
  <2>2. MaxWrites \in Nat
    BY WriteSessionAssumption
  <2>3. writes' \in 0 .. MaxWrites
    BY <1>3, <2>2 DEF WriteEntryFails, IInv, TypeOK
  <2>4. TypeOK'
    BY <2>1, <2>3 DEF IInv, TypeOK
  <2>5. BuildersMatch' /\ Owners' /\ OneWriter' /\ IndexMatchesArchive'
    BY <2>1 DEF IInv, BuildersMatch, Owners, OneWriter, IndexMatchesArchive
  <2>6. QED
    BY <2>4, <2>5 DEF IInv
<1>4. ASSUME NEW s \in Sessions, Close(s) PROVE IInv'
  <2>1. /\ session[s] = "open" /\ WriteIndex(s) /\ session' = session
        /\ UNCHANGED <<kind, spec, writes>> /\ finished' \in BOOLEAN
    BY <1>4 DEF Close, IInv, TypeOK
  <2>2. QED
    BY <2>1, WriteIndexKeeps
<1>5. ASSUME NEW s \in Sessions, Destroy(s) PROVE IInv'
  <2>1. /\ session[s] = "open" /\ session' = [session EXCEPT ![s] = "gone"]
        /\ UNCHANGED <<kind, spec, writes>> /\ finished' \in BOOLEAN
    BY <1>5 DEF Destroy
  <2>2. CASE indexer[s] # {}
    BY <1>5, <2>1, <2>2, WriteIndexKeeps DEF Destroy
  <2>3. CASE indexer[s] = {}
    <3>1. UNCHANGED <<archive, indexer, unindexed>>
      BY <1>5, <2>3 DEF Destroy
    <3>2. /\ DOMAIN indexer' = Sessions
          /\ \A q \in Sessions : indexer'[q] = IF q = s THEN {} ELSE indexer[q]
      BY <2>3, <3>1 DEF IInv, TypeOK
    <3>3. ArchiveOK'
      BY <3>1 DEF ArchiveOK, IInv, TypeOK
    <3>4. Owners'
      BY <2>1, <3>1 DEF IInv, TypeOK, Owners
    <3>5. IndexMatchesArchive'
      BY <2>1, <3>1 DEF IInv, IndexMatchesArchive
    <3>6. \A q \in Sessions : \A b \in indexer[q] : KnowsLog(b, spec[q], archive', q)
      BY <3>1 DEF IInv, BuildersMatch, KnowsLog
    <3>7. QED
      BY <2>1, <3>1, <3>2, <3>3, <3>4, <3>5, <3>6, DroppingKeeps
  <2>4. QED
    BY <2>2, <2>3
<1>6. ASSUME NEW s \in Sessions, Crash(s) PROVE IInv'
  BY <1>6, CrashKeeps
<1>7. ASSUME NEW s \in Sessions, NEW e \in UserEntries, CrashInWriteEntry(s, e) PROVE IInv'
  BY <1>7, CrashInWriteEntryKeeps
<1>8. CASE UNCHANGED vars
  <2>1. UNCHANGED <<kind, archive, finished, session, spec, indexer, writes, unindexed>>
    BY <1>8 DEF vars
  <2>2. QED
    BY <2>1 DEF IInv, TypeOK, BuildersMatch, Owners, OneWriter, IndexMatchesArchive
<1>9. QED
  BY <1>1, <1>2, <1>3, <1>4, <1>5, <1>6, <1>7, <1>8 DEF Next

(* Types, and which builders there are: a builder belongs to an open       *)
(* session that asked for an index (WriteSession::_indexer).               *)
THEOREM SessionsAreWellTyped == Spec => []TypeOK
<1>1. IInv => TypeOK
  BY DEF IInv
<1>2. QED
  BY InitHolds, StepKeeps, <1>1, PTL DEF Spec

(* Every index in the archive lists exactly the stamped messages that its  *)
(* session wrote before closing, under the names they were written with:   *)
(* what WriteEntry observes, what Complete sorts and what Close writes.    *)
THEOREM IndexIsFaithful == Spec => []IndexMatchesArchive
<1>1. IInv => IndexMatchesArchive
  BY DEF IInv
<1>2. QED
  BY InitHolds, StepKeeps, <1>1, PTL DEF Spec

-----------------------------------------------------------------------------
(* One index for each session: while a session has its builder, it has     *)
(* written none.                                                           *)
NoIndexYet ==
    \A s \in Sessions : indexer[s] # {} =>
        \A i \in DOMAIN archive : archive[i].by = s => archive[i].index = {}

OneInv == OneIndexPerSession /\ NoIndexYet

LEMMA AppendKeepsOne ==
    ASSUME IInv, OneInv, NEW s \in Sessions, NEW r, r.by = s,
           archive' = Append(archive, r),
           r.index # {} => indexer[s] # {} /\ indexer'[s] = {},
           \A q \in Sessions : indexer'[q] # {} => indexer[q] # {}
    PROVE  OneInv'
<1> DEFINE n == Len(archive)
<1>1. archive \in Seq(RangeOf(archive))
  BY DEF IInv, TypeOK
<1>2. /\ n \in Nat /\ DOMAIN archive = 1 .. n /\ DOMAIN archive' = 1 .. n + 1
      /\ \A i \in 1 .. n : archive'[i] = archive[i]
      /\ archive'[n + 1] = r
  BY <1>1, AppendRecord
<1> HIDE DEF n
<1>3. \A i \in DOMAIN archive' :
        \/ i \in DOMAIN archive /\ archive'[i] = archive[i]
        \/ i = n + 1 /\ archive'[i] = r
  BY <1>2
<1>4. r.index # {} => \A i \in DOMAIN archive : archive[i].by = s => archive[i].index = {}
  BY DEF OneInv, NoIndexYet
<1>5. OneIndexPerSession'
  <2>1. ASSUME NEW i \in DOMAIN archive', NEW j \in DOMAIN archive',
               archive'[i].index # {}, archive'[j].index # {},
               archive'[i].by = archive'[j].by
        PROVE  i = j
    <3>1. CASE i \in DOMAIN archive /\ archive'[i] = archive[i]
      <4>1. CASE j \in DOMAIN archive /\ archive'[j] = archive[j]
        BY <2>1, <3>1, <4>1 DEF OneInv, OneIndexPerSession
      <4>2. CASE j = n + 1 /\ archive'[j] = r
        BY <2>1, <3>1, <4>2, <1>4
      <4>3. QED
        BY <4>1, <4>2, <1>3
    <3>2. CASE i = n + 1 /\ archive'[i] = r
      <4>1. CASE j \in DOMAIN archive /\ archive'[j] = archive[j]
        BY <2>1, <3>2, <4>1, <1>4
      <4>2. CASE j = n + 1 /\ archive'[j] = r
        BY <3>2, <4>2
      <4>3. QED
        BY <4>1, <4>2, <1>3
    <3>3. QED
      BY <3>1, <3>2, <1>3
  <2>2. QED
    BY <2>1 DEF OneIndexPerSession
<1>6. NoIndexYet'
  <2>1. ASSUME NEW q \in Sessions, indexer'[q] # {}, NEW i \in DOMAIN archive',
               archive'[i].by = q
        PROVE  archive'[i].index = {}
    <3>1. CASE i \in DOMAIN archive /\ archive'[i] = archive[i]
      BY <2>1, <3>1 DEF OneInv, NoIndexYet
    <3>2. CASE i = n + 1 /\ archive'[i] = r
      BY <2>1, <3>2
    <3>3. QED
      BY <3>1, <3>2, <1>3
  <2>2. QED
    BY <2>1 DEF NoIndexYet
<1>7. QED
  BY <1>5, <1>6 DEF OneInv

(* A log that only loses records, and builders that only go.               *)
LEMMA CutKeepsOne ==
    ASSUME OneInv, \A i \in DOMAIN archive' : i \in DOMAIN archive /\ archive'[i] = archive[i],
           \A q \in Sessions : indexer'[q] # {} => indexer[q] # {}
    PROVE  OneInv'
BY DEF OneInv, OneIndexPerSession, NoIndexYet

LEMMA WriteIndexKeepsOne ==
    ASSUME IInv, OneInv, NEW s \in Sessions, indexer[s] # {}, WriteIndex(s)
    PROVE  OneInv'
<1>1. /\ indexer'[s] = {}
      /\ \A q \in Sessions : indexer'[q] # {} => indexer[q] # {}
  BY DEF WriteIndex, IInv, TypeOK
<1>2. CASE UNCHANGED archive
  BY <1>1, <1>2, CutKeepsOne
<1>3. ASSUME NEW b \in indexer[s], NEW now \in IndexTimes, NEW idx \in Complete(b),
             Write(s, CreateStamped(IndexTopic, now), {idx})
      PROVE  OneInv'
  <2>1. PICK r : archive' = Append(archive, r) /\ r.by = s
    BY <1>3, WrittenRecord
  <2>2. QED
    BY <2>1, <1>1, AppendKeepsOne
<1>4. QED
  BY <1>2, <1>3 DEF WriteIndex

LEMMA StepKeepsOne == IInv /\ OneInv /\ [Next]_vars => OneInv'
<1> SUFFICES ASSUME IInv, OneInv, [Next]_vars PROVE OneInv'
  OBVIOUS
<1>1. ASSUME NEW s \in Sessions, Create(s) PROVE OneInv'
  <2>1. \A i \in DOMAIN archive' : i \in DOMAIN archive /\ archive'[i] = archive[i]
    BY <1>1 DEF Create
  <2>2. \A i \in DOMAIN archive : archive[i].by # s
    BY <1>1 DEF Create, IInv, Owners
  <2>3. \A q \in Sessions : q # s => indexer'[q] = indexer[q]
    BY <1>1 DEF Create, IInv, TypeOK
  <2>4. OneIndexPerSession'
    BY <2>1 DEF OneInv, OneIndexPerSession
  <2>5. NoIndexYet'
    BY <2>1, <2>2, <2>3 DEF OneInv, NoIndexYet
  <2>6. QED
    BY <2>4, <2>5 DEF OneInv
<1>2. ASSUME NEW s \in Sessions, NEW e \in UserEntries,
             WriteEntry(s, e) \/ CrashInWriteEntry(s, e)
      PROVE  OneInv'
  <2>1. PICK r : archive' = Append(archive, r) /\ r.by = s /\ r.index = {}
    BY <1>2, WrittenRecord DEF WriteEntry, CrashInWriteEntry
  <2>2. \A q \in Sessions : indexer'[q] # {} => indexer[q] # {}
    BY <1>2 DEF WriteEntry, CrashInWriteEntry, IInv, TypeOK
  <2>3. QED
    BY <2>1, <2>2, AppendKeepsOne
<1>3. ASSUME NEW s \in Sessions, NEW e \in UserEntries, WriteEntryFails(s, e)
      PROVE  OneInv'
  BY <1>3, CutKeepsOne DEF WriteEntryFails
<1>4. ASSUME NEW s \in Sessions, Close(s) PROVE OneInv'
  BY <1>4, WriteIndexKeepsOne DEF Close
<1>5. ASSUME NEW s \in Sessions, Destroy(s) PROVE OneInv'
  <2>1. CASE indexer[s] # {}
    BY <1>5, <2>1, WriteIndexKeepsOne DEF Destroy
  <2>2. CASE indexer[s] = {}
    BY <1>5, <2>2, CutKeepsOne DEF Destroy
  <2>3. QED
    BY <2>1, <2>2
<1>6. ASSUME NEW s \in Sessions, Crash(s) PROVE OneInv'
  <2>1. archive \in Seq(RangeOf(archive)) /\ DOMAIN archive = 1 .. Len(archive)
        /\ Len(archive) \in Nat
    BY DEF IInv, TypeOK
  <2>2. \E n \in 0 .. Len(archive) : archive' = archive \/ archive' = SubSeq(archive, 1, n)
    BY <1>6, <2>1 DEF Crash
  <2>3. \A i \in DOMAIN archive' : i \in DOMAIN archive /\ archive'[i] = archive[i]
    <3>1. CASE archive' = archive
      BY <3>1
    <3>2. ASSUME NEW n \in 0 .. Len(archive), archive' = SubSeq(archive, 1, n)
          PROVE  \A i \in DOMAIN archive' : i \in DOMAIN archive /\ archive'[i] = archive[i]
      <4>1. DOMAIN archive' = 1 .. n /\ \A i \in 1 .. n : archive'[i] = archive[i]
        BY <3>2, <2>1, FirstPart
      <4>2. \A i \in 1 .. n : i \in 1 .. Len(archive)
        BY <2>1
      <4>3. QED
        BY <4>1, <4>2, <2>1
    <3>3. QED
      BY <2>2, <3>1, <3>2
  <2>4. \A q \in Sessions : indexer'[q] # {} => indexer[q] # {}
    BY <1>6 DEF Crash, IInv, TypeOK
  <2>5. QED
    BY <2>3, <2>4, CutKeepsOne
<1>7. CASE UNCHANGED vars
  <2>1. UNCHANGED <<archive, indexer>>
    BY <1>7 DEF vars
  <2>2. QED
    BY <2>1, CutKeepsOne
<1>8. QED
  BY <1>1, <1>2, <1>3, <1>4, <1>5, <1>6, <1>7 DEF Next

(* However often Close is called, by the user or the destructor, and       *)
(* whatever is written in between, a session writes one index.             *)
THEOREM SessionsIndexOnce == Spec => []OneIndexPerSession
<1>1. Init => OneInv
  BY DEF Init, OneInv, OneIndexPerSession, NoIndexYet
<1>2. OneInv => OneIndexPerSession
  BY DEF OneInv
<1>3. QED
  BY InitHolds, StepKeeps, StepKeepsOne, <1>1, <1>2, PTL DEF Spec

-----------------------------------------------------------------------------
(* A reader who asks for the name of some record finds a record.           *)
LEMMA NameIsFound ==
    ASSUME NEW k, NEW log, log \in Seq(RangeOf(log)), NEW i \in DOMAIN log,
           NEW name, SameEntry(k, log[i].name, name)
    PROVE  ReadAsStr(k, log, name) # {}
<1> DEFINE n == Len(log)
           S == {j \in DOMAIN log : SameEntry(k, log[j].name, name)}
<1>1. n \in Nat /\ DOMAIN log = 1 .. n
  OBVIOUS
<1>2. i \in S
  OBVIOUS
<1>3. S \in SUBSET (1 .. n) /\ S # {} /\ S \in SUBSET Nat
  BY <1>1, <1>2
<1>4. \A j \in S : (\A l \in S : IF InPlace(k) THEN l <= j ELSE j <= l)
                      => log[j] \in ReadAsStr(k, log, name)
  BY DEF ReadAsStr
<1> HIDE DEF S, n
<1>5. CASE InPlace(k)
  <2>1. PICK j \in S : \A l \in S : l <= j
    BY <1>1, <1>3, GreatestElement
  <2>2. QED
    BY <2>1, <1>4, <1>5
<1>6. CASE ~InPlace(k)
  <2>1. PICK j \in S : \A l \in S : j <= l
    BY <1>3, LeastElement
  <2>2. QED
    BY <2>1, <1>4, <1>6
<1>7. QED
  BY <1>5, <1>6

(* Every name in an index can be read from the archive it is found in,     *)
(* also after a crash: the index lists names of records before it, and a   *)
(* record is lost only with all that follow.                               *)
THEOREM IndexedNamesAreFound == Spec => []IndexedNamesResolve
<1>1. IInv => IndexedNamesResolve
  <2> SUFFICES ASSUME IInv, NEW i \in DOMAIN Visible, NEW idx \in Visible[i].index,
                      NEW m \in DOMAIN idx.time_ordered_entries
               PROVE  ReadAsStr(kind, Visible, idx.time_ordered_entries[m].entryname) # {}
    BY DEF IndexedNamesResolve
  <2> DEFINE tt == idx.time_ordered_entries[m]
             s == archive[i].by
  <2>1. archive \in Seq(RangeOf(archive)) /\ DOMAIN archive = 1 .. Len(archive)
        /\ Len(archive) \in Nat
    BY DEF IInv, TypeOK
  <2>2. Visible = archive
    BY DEF Visible
  <2>3. tt \in ShouldList(archive, s, i)
    BY <2>2 DEF IInv, IndexMatchesArchive, RangeOf
  <2>4. PICK j \in WrittenBy(archive, s, i) : tt \in Lists(archive[j])
    BY <2>3 DEF ShouldList
  <2>5. j \in DOMAIN archive
    BY <2>1, <2>2 DEF WrittenBy
  <2>6. tt.entryname = archive[j].name
    BY <2>4 DEF Lists, TopicTime
  <2>7. QED
    BY <2>1, <2>2, <2>5, <2>6, NameIsFound DEF SameEntry
<1>2. QED
  BY InitHolds, StepKeeps, <1>1, PTL DEF Spec

-----------------------------------------------------------------------------
(* An index stays where it was written.                                    *)
HasIndex(log, s) ==
    \E i \in DOMAIN log : log[i].by = s /\ log[i].index # {} /\ log[i].whole

IndexWritten ==
    \A s \in Sessions :
        (session[s] = "open" /\ ShouldDoIndexing(spec[s]) /\ indexer[s] = {})
            => s \in unindexed \/ HasIndex(archive, s)

(* Indexes, and nothing else, are under the topic of indexes.              *)
NamedOK(r) ==
    /\ r.name \in [topic : [rooted : BOOLEAN, base : Nat], leaf : Int]
    /\ r.name # NoName
    /\ r.index # {} => \E t \in IndexTimes : r.name = StampedName(IndexTopic, t)
    /\ r.index = {} => r.name.topic.base # IndexTopic.base

IndexNames == \A i \in DOMAIN archive : NamedOK(archive[i])

(* A zip or tar that is being written has the records of one session.      *)
SoleOwner ==
    \/ InPlace(kind)
    \/ \A s \in Sessions : session[s] = "open" =>
         \A i \in DOMAIN archive : archive[i].by = s

FoundInv == IndexWritten /\ IndexNames /\ SoleOwner

LEMMA WriteNames ==
    ASSUME NEW s \in Sessions, NEW e, NEW idx, Write(s, e, idx),
           \/ e \in UserEntries /\ Writable(e) /\ idx = {}
           \/ \E now \in IndexTimes : e = CreateStamped(IndexTopic, now) /\ idx # {}
    PROVE  \E r : archive' = Append(archive, r) /\ r.by = s /\ r.index = idx /\ NamedOK(r)
<1>1. PICK r : /\ archive' = Append(archive, r) /\ r.by = s
               /\ r.name = FinalName(e) /\ r.index = idx
  BY WrittenRecord
<1>2. ASSUME e \in UserEntries, Writable(e), idx = {} PROVE NamedOK(r)
  <2>1. CASE e.entryname # NoName
    BY <1>1, <1>2, <2>1, WriteSessionAssumption, ReservedTopicAssumption
       DEF FinalName, NamedOK
  <2>2. CASE e.entryname = NoName
    <3>1. GetTopicTime(e) # {}
      BY <1>2, <2>2 DEF Writable, HasTopic
    <3>2. PICK tt \in GetTopicTime(e) : r.name = StampedName(tt.topic, tt.stamp)
      <4>1. (CHOOSE tt \in GetTopicTime(e) : TRUE) \in GetTopicTime(e)
        BY <3>1
      <4>2. QED
        BY <4>1, <1>1, <2>2 DEF FinalName
    <3>3. r.name.topic = tt.topic /\ r.name = [topic |-> tt.topic, leaf |-> tt.stamp]
      BY <3>2 DEF StampedName
    <3>4. r.name.topic.base # IndexTopic.base
      BY <3>3, <1>2, ReservedTopicAssumption
    <3>5. tt.topic \in [rooted : BOOLEAN, base : Nat] /\ tt.stamp \in Int
      BY <1>2, WriteSessionAssumption DEF MinTimestamp
    <3>6. r.name # NoName
      <4>1. PICK uu \in GetTopicTime(e) : uu.topic # NoTopic
        BY <1>2, <2>2 DEF Writable, HasTopic
      <4>2. GetTopicTime(e) = {tt}
        BY <1>2, <3>2, <4>1, OneTopicTime DEF IsStampedMessage, HasTopic
      <4>3. tt.topic # NoTopic
        BY <4>1, <4>2
      <4>4. QED
        BY <3>3, <4>3 DEF NoName
    <3>7. QED
      BY <3>3, <3>4, <3>5, <3>6, <1>1, <1>2 DEF NamedOK
  <2>3. QED
    BY <1>1, <2>1, <2>2
<1>3. ASSUME NEW now \in IndexTimes, e = CreateStamped(IndexTopic, now), idx # {}
      PROVE  NamedOK(r)
  <2>1. e.entryname = NoName /\ GetTopicTime(e) = {[topic |-> IndexTopic, stamp |-> now]}
    BY <1>3 DEF CreateStamped, GetTopicTime
  <2>2. (CHOOSE tt \in GetTopicTime(e) : TRUE) = [topic |-> IndexTopic, stamp |-> now]
    BY <2>1
  <2>3. FinalName(e) = StampedName(IndexTopic, now)
    BY <2>1, <2>2 DEF FinalName
  <2>4. now \in Int
    BY WriteSessionAssumption DEF MinTimestamp
  <2>5. StampedName(IndexTopic, now) \in [topic : [rooted : BOOLEAN, base : Nat], leaf : Int]
    BY <2>4 DEF StampedName, IndexTopic
  <2>6. StampedName(IndexTopic, now) # NoName
    BY DEF StampedName, IndexTopic, NoName, NoTopic
  <2>7. QED
    BY <2>3, <2>5, <2>6, <1>1, <1>3 DEF NamedOK
<1>4. NamedOK(r)
  BY <1>2, <1>3, Zenon
<1>5. QED
  BY <1>1, <1>4

LEMMA AppendKeepsFound ==
    ASSUME IInv, FoundInv, NEW s \in Sessions, session[s] = "open", NEW r, r.by = s, NamedOK(r),
           archive' = Append(archive, r), UNCHANGED <<kind, spec>>,
           session' = session \/ session' = [session EXCEPT ![s] = "gone"],
           \A q \in Sessions : q # s => (indexer'[q] = {} => indexer[q] = {}),
           unindexed \subseteq unindexed',
           (indexer[s] # {} /\ indexer'[s] = {} /\ session'[s] = "open")
                => s \in unindexed' \/ (r.index # {} /\ r.whole)
    PROVE  FoundInv'
<1> DEFINE n == Len(archive)
<1>1. archive \in Seq(RangeOf(archive))
  BY DEF IInv, TypeOK
<1>2. /\ n \in Nat /\ DOMAIN archive = 1 .. n /\ DOMAIN archive' = 1 .. n + 1
      /\ \A i \in 1 .. n : archive'[i] = archive[i]
      /\ archive'[n + 1] = r
  BY <1>1, AppendRecord
<1> HIDE DEF n
<1>3. \A i \in DOMAIN archive' :
        \/ i \in DOMAIN archive /\ archive'[i] = archive[i]
        \/ i = n + 1 /\ archive'[i] = r
  BY <1>2
<1>4. \A i \in DOMAIN archive : i \in DOMAIN archive' /\ archive'[i] = archive[i]
  BY <1>2
<1>5. \A q \in Sessions : session'[q] = "open" => session[q] = "open"
  BY DEF IInv, TypeOK
<1>6. IndexWritten'
  <2> SUFFICES ASSUME NEW q \in Sessions, session'[q] = "open",
                      ShouldDoIndexing(spec'[q]), indexer'[q] = {}
               PROVE  q \in unindexed' \/ HasIndex(archive', q)
    BY DEF IndexWritten
  <2>1. CASE indexer[q] = {}
    <3>1. q \in unindexed \/ HasIndex(archive, q)
      BY <2>1, <1>5 DEF FoundInv, IndexWritten
    <3>2. QED
      BY <3>1, <1>4 DEF HasIndex
  <2>2. CASE indexer[q] # {}
    <3>1. q = s
      BY <2>2
    <3>2. n + 1 \in DOMAIN archive'
      BY <1>2
    <3>3. QED
      BY <3>1, <3>2, <2>2, <1>2 DEF HasIndex
  <2>3. QED
    BY <2>1, <2>2
<1>7. IndexNames'
  <2>1. ASSUME NEW i \in DOMAIN archive' PROVE NamedOK(archive'[i])
    BY <1>3 DEF FoundInv, IndexNames
  <2>2. QED
    BY <2>1 DEF IndexNames, NamedOK
<1>8. SoleOwner'
  <2>1. CASE InPlace(kind)
    BY <2>1 DEF SoleOwner
  <2>2. CASE ~InPlace(kind)
    <3>1. ASSUME NEW q \in Sessions, session'[q] = "open", NEW i \in DOMAIN archive'
          PROVE  archive'[i].by = q
      <4>1. q = s
        BY <3>1, <2>2, <1>5 DEF IInv, OneWriter
      <4>2. \A j \in DOMAIN archive : archive[j].by = s
        BY <2>2 DEF FoundInv, SoleOwner
      <4>3. QED
        BY <4>1, <4>2, <1>3
    <3>2. QED
      BY <3>1 DEF SoleOwner
  <2>3. QED
    BY <2>1, <2>2
<1>9. QED
  BY <1>6, <1>7, <1>8 DEF FoundInv

(* A log that only loses records; a session that is open, asked for an     *)
(* index and has no builder keeps all of them.                             *)
LEMMA CutKeepsFound ==
    ASSUME FoundInv, \A i \in DOMAIN archive' : i \in DOMAIN archive /\ archive'[i] = archive[i],
           UNCHANGED kind, \A q \in Sessions : session'[q] = "open" =>
               /\ session[q] = "open" /\ spec'[q] = spec[q]
               /\ indexer'[q] = {} => (indexer[q] = {} \/ q \in unindexed')
               /\ archive' = archive \/ indexer'[q] # {},
           unindexed \subseteq unindexed'
    PROVE  FoundInv'
<1>1. IndexWritten'
  BY DEF FoundInv, IndexWritten
<1>2. IndexNames'
  <2>1. ASSUME NEW i \in DOMAIN archive' PROVE NamedOK(archive'[i])
    BY DEF FoundInv, IndexNames
  <2>2. QED
    BY <2>1 DEF IndexNames, NamedOK
<1>3. SoleOwner'
  BY DEF FoundInv, SoleOwner
<1>4. QED
  BY <1>1, <1>2, <1>3 DEF FoundInv

LEMMA WriteIndexKeepsFound ==
    ASSUME IInv, FoundInv, NEW s \in Sessions, session[s] = "open", indexer[s] # {},
           WriteIndex(s), UNCHANGED <<kind, spec>>,
           session' = session \/ session' = [session EXCEPT ![s] = "gone"]
    PROVE  /\ FoundInv'
           /\ s \in unindexed' \/ HasIndex(archive', s)
<1>1. /\ \A q \in Sessions : q # s => indexer'[q] = indexer[q]
      /\ unindexed \subseteq unindexed'
  BY DEF WriteIndex, IInv, TypeOK
<1>2. \A q \in Sessions : session'[q] = "open" => session[q] = "open"
  BY DEF IInv, TypeOK
<1>3. CASE UNCHANGED archive /\ unindexed' = unindexed \cup {s}
  <2>1. FoundInv'
    BY <1>1, <1>2, <1>3, CutKeepsFound
  <2>2. QED
    BY <2>1, <1>3
<1>4. ASSUME NEW b \in indexer[s], NEW now \in IndexTimes, NEW idx \in Complete(b),
             Write(s, CreateStamped(IndexTopic, now), {idx}),
             unindexed' = IF archive'[Len(archive')].whole THEN unindexed
                                                           ELSE unindexed \cup {s}
      PROVE  FoundInv' /\ (s \in unindexed' \/ HasIndex(archive', s))
  <2> DEFINE e == CreateStamped(IndexTopic, now)
             one == {idx}
  <2>0. Write(s, e, one) /\ \E t \in IndexTimes : e = CreateStamped(IndexTopic, t) /\ one # {}
    BY <1>4
  <2>1. PICK r : archive' = Append(archive, r) /\ r.by = s /\ r.index = one /\ NamedOK(r)
    <3> HIDE DEF e, one
    <3>1. QED
      BY <2>0, WriteNames
  <2>2. archive'[Len(archive')] = r /\ Len(archive') \in DOMAIN archive'
    <3>1. archive \in Seq(RangeOf(archive))
      BY DEF IInv, TypeOK
    <3>2. /\ Len(archive) \in Nat /\ Len(archive') = Len(archive) + 1
          /\ DOMAIN archive' = 1 .. Len(archive) + 1 /\ archive'[Len(archive) + 1] = r
      BY <3>1, <2>1, AppendRecord
    <3>3. QED
      BY <3>2
  <2>3. s \in unindexed' \/ (r.index # {} /\ r.whole)
    BY <2>1, <2>2, <1>4
  <2>4. FoundInv'
    BY <2>1, <2>3, <1>1, AppendKeepsFound
  <2>5. s \in unindexed' \/ HasIndex(archive', s)
    BY <2>1, <2>2, <2>3 DEF HasIndex
  <2>6. QED
    BY <2>4, <2>5
<1>5. QED
  BY <1>3, <1>4 DEF WriteIndex

LEMMA StepKeepsFound == IInv /\ FoundInv /\ [Next]_vars => FoundInv'
<1> SUFFICES ASSUME IInv, FoundInv, [Next]_vars PROVE FoundInv'
  OBVIOUS
<1>1. ASSUME NEW s \in Sessions, Create(s) PROVE FoundInv'
  <2>1. /\ \A i \in DOMAIN archive' : i \in DOMAIN archive /\ archive'[i] = archive[i]
        /\ kind' = kind /\ unindexed' = unindexed
        /\ ~InPlace(kind) => archive' = <<>>
    BY <1>1 DEF Create
  <2>2. PICK sp \in Specs :
          /\ spec' = [spec EXCEPT ![s] = sp]
          /\ indexer' = [indexer EXCEPT ![s] =
                IF ShouldDoIndexing(sp) THEN {NewBuilder(sp.timeseries)} ELSE {}]
    BY <1>1 DEF Create
  <2>3. spec'[s] = sp /\ (ShouldDoIndexing(sp) => indexer'[s] # {})
    BY <2>2 DEF IInv, TypeOK
  <2>4. \A q \in Sessions : q # s => session'[q] = session[q] /\ spec'[q] = spec[q]
                                    /\ indexer'[q] = indexer[q]
    BY <1>1, <2>2 DEF Create, IInv, TypeOK
  <2>5. (\E q \in Sessions : q # s /\ session'[q] = "open") => archive' = archive
    BY <1>1, <2>4 DEF Create
  <2>6. IndexWritten'
    <3> SUFFICES ASSUME NEW q \in Sessions, session'[q] = "open",
                        ShouldDoIndexing(spec'[q]), indexer'[q] = {}
                 PROVE  q \in unindexed' \/ HasIndex(archive', q)
      BY DEF IndexWritten
    <3>1. q # s
      BY <2>3
    <3>2. q \in unindexed \/ HasIndex(archive, q)
      BY <3>1, <2>4 DEF FoundInv, IndexWritten
    <3>3. QED
      BY <3>1, <3>2, <2>1, <2>5
  <2>7. IndexNames'
    <3>1. ASSUME NEW i \in DOMAIN archive' PROVE NamedOK(archive'[i])
      BY <2>1 DEF FoundInv, IndexNames
    <3>2. QED
      BY <3>1 DEF IndexNames, NamedOK
  <2>8. SoleOwner'
    BY <2>1 DEF SoleOwner
  <2>9. QED
    BY <2>6, <2>7, <2>8 DEF FoundInv
<1>2. ASSUME NEW s \in Sessions, NEW e \in UserEntries, WriteEntry(s, e) PROVE FoundInv'
  <2>1. PICK r : archive' = Append(archive, r) /\ r.by = s /\ NamedOK(r)
    BY <1>2, WriteNames DEF WriteEntry
  <2>2. /\ session[s] = "open" /\ UNCHANGED <<kind, session, spec, unindexed>>
        /\ \A q \in Sessions : indexer'[q] = {} => indexer[q] = {}
    BY <1>2 DEF WriteEntry, IInv, TypeOK
  <2>3. QED
    BY <2>1, <2>2, AppendKeepsFound
<1>3. ASSUME NEW s \in Sessions, NEW e \in UserEntries, WriteEntryFails(s, e)
      PROVE  FoundInv'
  BY <1>3, CutKeepsFound DEF WriteEntryFails
<1>4. ASSUME NEW s \in Sessions, Close(s) PROVE FoundInv'
  BY <1>4, WriteIndexKeepsFound DEF Close
<1>5. ASSUME NEW s \in Sessions, Destroy(s) PROVE FoundInv'
  <2>1. CASE indexer[s] # {}
    BY <1>5, <2>1, WriteIndexKeepsFound DEF Destroy
  <2>2. CASE indexer[s] = {}
    <3>1. UNCHANGED <<kind, spec, archive, indexer, unindexed>>
      BY <1>5, <2>2 DEF Destroy
    <3>2. \A q \in Sessions : session'[q] = "open" => session[q] = "open"
      BY <1>5 DEF Destroy, IInv, TypeOK
    <3>3. QED
      BY <3>1, <3>2, CutKeepsFound
  <2>3. QED
    BY <2>1, <2>2
<1>6. ASSUME NEW s \in Sessions, Crash(s) PROVE FoundInv'
  <2>1. archive \in Seq(RangeOf(archive)) /\ DOMAIN archive = 1 .. Len(archive)
        /\ Len(archive) \in Nat
    BY DEF IInv, TypeOK
  <2>2. \A i \in DOMAIN archive' : i \in DOMAIN archive /\ archive'[i] = archive[i]
    <3>1. CASE archive' = archive
      BY <3>1
    <3>2. ASSUME NEW n \in 0 .. Len(archive), archive' = SubSeq(archive, 1, n)
          PROVE  \A i \in DOMAIN archive' : i \in DOMAIN archive /\ archive'[i] = archive[i]
      <4>1. DOMAIN archive' = 1 .. n /\ \A i \in 1 .. n : archive'[i] = archive[i]
        BY <3>2, <2>1, FirstPart
      <4>2. \A i \in 1 .. n : i \in 1 .. Len(archive)
        BY <2>1
      <4>3. QED
        BY <4>1, <4>2, <2>1
    <3>3. QED
      BY <1>6, <3>1, <3>2 DEF Crash
  <2>3. /\ \A q \in Sessions : session'[q] = "open" =>
              q # s /\ session[q] = "open" /\ indexer'[q] = indexer[q]
        /\ UNCHANGED <<kind, spec>> /\ unindexed \subseteq unindexed'
        /\ InPlace(kind) => archive' = archive
    BY <1>6 DEF Crash, IInv, TypeOK
  <2>4. (\E q \in Sessions : session'[q] = "open") => archive' = archive
    BY <1>6, <2>3 DEF IInv, OneWriter, Crash
  <2>5. QED
    BY <2>2, <2>3, <2>4, CutKeepsFound
<1>7. ASSUME NEW s \in Sessions, NEW e \in UserEntries, CrashInWriteEntry(s, e)
      PROVE  FoundInv'
  <2>1. PICK r : archive' = Append(archive, r) /\ r.by = s /\ NamedOK(r)
    BY <1>7, WriteNames DEF CrashInWriteEntry
  <2>2. /\ session[s] = "open" /\ UNCHANGED <<kind, spec>> /\ unindexed \subseteq unindexed'
        /\ session' = [session EXCEPT ![s] = "gone"] /\ session'[s] = "gone"
        /\ \A q \in Sessions : q # s => indexer'[q] = indexer[q]
    BY <1>7 DEF CrashInWriteEntry, IInv, TypeOK
  <2>3. QED
    BY <2>1, <2>2, AppendKeepsFound
<1>8. CASE UNCHANGED vars
  BY <1>8, CutKeepsFound DEF vars
<1>9. QED
  BY <1>1, <1>2, <1>3, <1>4, <1>5, <1>6, <1>7, <1>8 DEF Next

(* The record a session left as its index is what a reader of the archive  *)
(* finds, or what another session put in its place.                        *)
LEMMA IndexIsFound ==
    ASSUME NEW log, log \in Seq(RangeOf(log)), NEW s, HasIndex(log, s),
           \A i \in DOMAIN log : NamedOK(log[i]),
           \A i, j \in DOMAIN log :
              (log[i].index # {} /\ log[j].index # {} /\ log[i].by = log[j].by) => i = j,
           InPlace(kind) \/ \A i \in DOMAIN log : log[i].by = s
    PROVE  IndexFound(log, s)
<1>1. PICK i \in DOMAIN log : log[i].by = s /\ log[i].index # {} /\ log[i].whole
  BY DEF HasIndex
<1>2. PICK t \in IndexTimes : log[i].name = StampedName(IndexTopic, t)
  BY <1>1 DEF NamedOK
<1> DEFINE name == log[i].name
<1>3. name = [topic |-> [rooted |-> TRUE, base |-> 1], leaf |-> t]
  BY <1>2 DEF StampedName, IndexTopic
<1>4. Listed(name) = name /\ name.topic = IndexTopic
  <2> HIDE DEF name
  <2>1. name.topic = IndexTopic
    BY <1>3 DEF IndexTopic
  <2>2. [name EXCEPT !.topic.rooted = TRUE] = name
    <3>0. name.topic \in [rooted : BOOLEAN, base : Nat] /\ name.topic.rooted = TRUE
      BY <1>3
    <3>1. [name.topic EXCEPT !.rooted = TRUE] = name.topic
      BY <3>0
    <3>2. [name EXCEPT !.topic = [name.topic EXCEPT !.rooted = TRUE]] = name
      BY <1>3, <3>1
    <3>3. QED
      BY <1>3, <3>2
  <2>3. QED
    BY <2>1, <2>2 DEF Listed
<1>5. name \in NamesIn(kind, log)
  BY <1>4 DEF NamesIn
<1>6. PICK r \in ReadAsStr(kind, log, name) : TRUE
  <2>1. ReadAsStr(kind, log, name) # {}
    BY NameIsFound DEF SameEntry
  <2>2. QED
    BY <2>1
<1>7. PICK j \in DOMAIN log :
        /\ r = log[j]
        /\ SameEntry(kind, log[j].name, name)
        /\ \A k \in DOMAIN log :
             SameEntry(kind, log[k].name, name) => IF InPlace(kind) THEN k <= j ELSE j <= k
  BY <1>6 DEF ReadAsStr
<1>8. log[j].name.topic.base = 1 /\ log[j].index # {}
  <2>1. IF InPlace(kind) THEN CanonEntryname(log[j].name) = CanonEntryname(name)
                         ELSE log[j].name = name
    BY <1>7 DEF SameEntry
  <2>2. log[j].name.topic.base = 1
    <3>1. CASE ~InPlace(kind)
      BY <3>1, <2>1, <1>3
    <3>2. CASE InPlace(kind)
      <4>1. CanonEntryname(name).topic.base = 1
        BY <1>3 DEF CanonEntryname
      <4>2. CanonEntryname(log[j].name).topic.base = log[j].name.topic.base
        <5>1. log[j].name \in [topic : [rooted : BOOLEAN, base : Nat], leaf : Int]
          BY DEF NamedOK
        <5>2. QED
          BY <5>1 DEF CanonEntryname
      <4>3. QED
        BY <4>1, <4>2, <3>2, <2>1
    <3>3. QED
      BY <3>1, <3>2
  <2>3. QED
    BY <2>2 DEF NamedOK, IndexTopic
<1>9. log[j].name = name
  <2>1. PICK u \in IndexTimes : log[j].name = StampedName(IndexTopic, u)
    BY <1>8 DEF NamedOK
  <2>2. CASE ~InPlace(kind)
    BY <2>2, <1>7 DEF SameEntry
  <2>3. CASE InPlace(kind)
    <3>1. CanonEntryname(log[j].name) = CanonEntryname(name)
      BY <2>3, <1>7 DEF SameEntry
    <3>2. CanonEntryname(log[j].name).leaf = u /\ CanonEntryname(name).leaf = t
      BY <2>1, <1>2 DEF CanonEntryname, StampedName
    <3>3. QED
      BY <3>1, <3>2, <2>1, <1>2
  <2>4. QED
    BY <2>2, <2>3
<1>10. SameEntry(kind, name, name)
  BY DEF SameEntry
<1>11. IF InPlace(kind) THEN i <= j ELSE j <= i
  BY <1>7, <1>10
<1>12. CASE j = i
  BY <1>1, <1>4, <1>5, <1>6, <1>7, <1>12 DEF IndexFound, EntryIsInTopic
<1>13. CASE j # i
  <2>1. log[j].by # s
    BY <1>1, <1>8, <1>13
  <2>2. i < j
    <3>1. i \in Nat /\ j \in Nat
      OBVIOUS
    <3>2. InPlace(kind)
      BY <2>1
    <3>3. QED
      BY <3>1, <3>2, <1>11, <1>13
  <2>3. QED
    BY <1>1, <1>4, <1>5, <1>6, <1>9, <2>1, <2>2 DEF IndexFound, EntryIsInTopic
<1>14. QED
  BY <1>12, <1>13

(* A session that asked for an index leaves one that a reader finds, when  *)
(* it is destroyed (by Close, or by the destructor that calls it), unless  *)
(* a fault or a crash lost it.                                             *)
THEOREM DestroyedSessionsAreIndexed == Spec => DestroyedIsIndexed
<1>1. Init => FoundInv
  BY DEF Init, FoundInv, IndexWritten, IndexNames, SoleOwner
<1>2. IInv /\ OneInv /\ FoundInv /\ [Next]_vars =>
        [\A s \in Sessions :
          (session[s] = "open" /\ session'[s] = "gone" /\ ShouldDoIndexing(spec[s]))
            => s \in unindexed' \/ IndexFound(Visible', s)]_vars
  <2> SUFFICES ASSUME IInv, OneInv, FoundInv, [Next]_vars, NEW s \in Sessions,
                      session[s] = "open", session'[s] = "gone", ShouldDoIndexing(spec[s])
               PROVE  s \in unindexed' \/ IndexFound(Visible', s)
    OBVIOUS
  <2>1. IInv' /\ OneInv' /\ FoundInv'
    BY StepKeeps, StepKeepsOne, StepKeepsFound
  <2>2. /\ archive' \in Seq(RangeOf(archive'))
        /\ \A i \in DOMAIN archive' : NamedOK(archive'[i])
        /\ \A i, j \in DOMAIN archive' :
             (archive'[i].index # {} /\ archive'[j].index # {} /\ archive'[i].by = archive'[j].by)
               => i = j
    BY <2>1 DEF IInv, TypeOK, OneInv, OneIndexPerSession, FoundInv, IndexNames, NamedOK
  <2>3. /\ kind' = kind /\ Visible' = archive'
        /\ InPlace(kind) \/ \A i \in DOMAIN archive' : archive'[i].by = s
        /\ s \in unindexed' \/ HasIndex(archive', s)
    <3>1. PICK q \in Sessions :
            \/ Create(q) \/ Close(q) \/ Destroy(q) \/ Crash(q)
            \/ \E e \in UserEntries :
                 WriteEntry(q, e) \/ WriteEntryFails(q, e) \/ CrashInWriteEntry(q, e)
      BY DEF Next, vars
    <3>2. session'[s] # session[s]
      OBVIOUS
    <3>3. \/ Destroy(s) \/ Crash(s)
          \/ \E e \in UserEntries : CrashInWriteEntry(s, e)
      <4>1. /\ ~Close(q)
            /\ \A e \in UserEntries : ~WriteEntry(q, e) /\ ~WriteEntryFails(q, e)
        BY <3>2 DEF Close, WriteEntry, WriteEntryFails
      <4>2. ~Create(q)
        BY DEF Create, IInv, TypeOK
      <4>3. ASSUME \/ Destroy(q) \/ Crash(q)
                   \/ \E e \in UserEntries : CrashInWriteEntry(q, e)
            PROVE  q = s
        BY <4>3, <3>2 DEF Destroy, Crash, CrashInWriteEntry, IInv, TypeOK
      <4>4. QED
        BY <3>1, <4>1, <4>2, <4>3
    <3>4. kind' = kind /\ finished' = ~InPlace(kind)
      BY <3>3 DEF Destroy, Crash, CrashInWriteEntry
    <3>5. Visible' = archive'
      BY <3>4 DEF Visible
    <3>6. InPlace(kind) \/ \A i \in DOMAIN archive : archive[i].by = s
      BY DEF FoundInv, SoleOwner
    <3>7. archive \in Seq(RangeOf(archive)) /\ DOMAIN archive = 1 .. Len(archive)
          /\ Len(archive) \in Nat
      BY DEF IInv, TypeOK
    <3>8. ASSUME NEW r, r.by = s, archive' = Append(archive, r)
          PROVE  /\ InPlace(kind) \/ \A i \in DOMAIN archive' : archive'[i].by = s
                 /\ HasIndex(archive, s) => HasIndex(archive', s)
      <4>1. /\ DOMAIN archive' = 1 .. Len(archive) + 1
            /\ \A i \in 1 .. Len(archive) : archive'[i] = archive[i]
            /\ archive'[Len(archive) + 1] = r
        BY <3>7, <3>8, AppendRecord
      <4>2. \A i \in DOMAIN archive' :
              (i \in DOMAIN archive /\ archive'[i] = archive[i]) \/ archive'[i] = r
        BY <4>1, <3>7
      <4>3. \A i \in DOMAIN archive : i \in DOMAIN archive' /\ archive'[i] = archive[i]
        BY <4>1, <3>7
      <4>4. QED
        BY <4>2, <4>3, <3>6, <3>8 DEF HasIndex
    <3>9. indexer[s] = {} => s \in unindexed \/ HasIndex(archive, s)
      BY DEF FoundInv, IndexWritten
    <3>10. CASE Destroy(s)
      <4>1. CASE indexer[s] # {}
        <5>1. WriteIndex(s) /\ UNCHANGED <<kind, spec>>
              /\ session' = [session EXCEPT ![s] = "gone"]
          BY <3>10, <4>1 DEF Destroy
        <5>2. s \in unindexed' \/ HasIndex(archive', s)
          BY <5>1, <4>1, WriteIndexKeepsFound
        <5>3. archive' = archive \/ \E r : r.by = s /\ archive' = Append(archive, r)
          <6>1. ASSUME NEW b \in indexer[s], NEW now \in IndexTimes, NEW idx \in Complete(b),
                       Write(s, CreateStamped(IndexTopic, now), {idx})
                PROVE  \E r : r.by = s /\ archive' = Append(archive, r)
            BY <6>1, WrittenRecord
          <6>2. QED
            BY <5>1, <6>1 DEF WriteIndex
        <5>4. QED
          BY <5>2, <5>3, <3>4, <3>5, <3>6, <3>8
      <4>2. CASE indexer[s] = {}
        <5>1. UNCHANGED <<archive, indexer, unindexed>>
          BY <3>10, <4>2 DEF Destroy
        <5>2. QED
          BY <5>1, <4>2, <3>4, <3>5, <3>6, <3>9
      <4>3. QED
        BY <4>1, <4>2
    <3>11. CASE Crash(s)
      <4>1. s \in unindexed' \/ (archive' = archive /\ indexer[s] = {} /\ unindexed' = unindexed)
        BY <3>11 DEF Crash
      <4>2. InPlace(kind) => archive' = archive
        BY <3>11 DEF Crash
      <4>3. InPlace(kind) \/ \A i \in DOMAIN archive' : archive'[i].by = s
        <5>1. ASSUME NEW n \in 0 .. Len(archive), archive' = SubSeq(archive, 1, n)
              PROVE  \A i \in DOMAIN archive' : i \in DOMAIN archive /\ archive'[i] = archive[i]
          <6>1. DOMAIN archive' = 1 .. n /\ \A i \in 1 .. n : archive'[i] = archive[i]
            BY <5>1, <3>7, FirstPart
          <6>2. \A i \in 1 .. n : i \in 1 .. Len(archive)
            BY <3>7
          <6>3. QED
            BY <6>1, <6>2, <3>7
        <5>2. QED
          BY <3>11, <5>1, <3>6 DEF Crash
      <4>4. QED
        BY <4>1, <4>3, <3>4, <3>5, <3>9
    <3>12. ASSUME NEW e \in UserEntries, CrashInWriteEntry(s, e)
           PROVE  /\ InPlace(kind) \/ \A i \in DOMAIN archive' : archive'[i].by = s
                  /\ s \in unindexed' \/ HasIndex(archive', s)
      <4>1. PICK r : archive' = Append(archive, r) /\ r.by = s
        BY <3>12, WrittenRecord DEF CrashInWriteEntry
      <4>2. s \in unindexed' \/ (indexer[s] = {} /\ unindexed' = unindexed)
        BY <3>12 DEF CrashInWriteEntry
      <4>3. QED
        BY <4>1, <4>2, <3>8, <3>9
    <3>13. QED
      BY <3>3, <3>4, <3>5, <3>10, <3>11, <3>12
  <2>4. QED
    BY <2>2, <2>3, IndexIsFound
<1>3. Init => OneInv
  BY DEF Init, OneInv, OneIndexPerSession, NoIndexYet
<1>4. QED
  BY InitHolds, StepKeeps, StepKeepsOne, StepKeepsFound, <1>1, <1>2, <1>3, PTL
     DEF Spec, DestroyedIsIndexed

-----------------------------------------------------------------------------
(* The statistics of an index: a builder counts the records of each topic, *)
(* keeps the range of their times and has one entry for each of them.      *)
TopicRecords(log, s, i, T) ==
    {j \in WrittenBy(log, s, i) : \E tt \in Lists(log[j]) : tt.topic \in T}

CountsOK(seq, n_messages, log, s, i) ==
    /\ Len(seq) = Cardinality(TopicRecords(log, s, i, AllTopics))
    /\ \A t \in AllTopics : n_messages[t] = Cardinality(TopicRecords(log, s, i, {t}))

RangeOK(seq, start, end) ==
    /\ start \in Int /\ end \in Int
    /\ \A k \in DOMAIN seq :
         seq[k].stamp \in Int /\ start <= seq[k].stamp /\ seq[k].stamp <= end
    /\ seq # <<>> => /\ \E k \in DOMAIN seq : seq[k].stamp = start
                     /\ \E k \in DOMAIN seq : seq[k].stamp = end
    /\ seq = <<>> => start = MaxTimestamp /\ end = MinTimestamp

BuilderStats(b, log, s) ==
    /\ b.n_messages \in [AllTopics -> Nat]
    /\ b.timeseries => CountsOK(b.observed, b.n_messages, log, s, Len(log))
    /\ RangeOK(b.observed, b.start, b.end)

Listing(idx) == idx.time_ordered_entries \in Seq(RangeOf(idx.time_ordered_entries))

IndexStats(idx, log, s, i, sp) ==
    /\ Listing(idx)
    /\ sp.timeseries => CountsOK(idx.time_ordered_entries, idx.topic_to_stats, log, s, i)
    /\ InTimeOrder(idx.time_ordered_entries)
    /\ idx.time_ordered_entries # <<>> =>
         /\ idx.start = idx.time_ordered_entries[1].stamp
         /\ idx.end = idx.time_ordered_entries[Len(idx.time_ordered_entries)].stamp

BuildersCount == \A s \in Sessions : \A b \in indexer[s] : BuilderStats(b, archive, s)

IndexesAgree ==
    \A i \in DOMAIN archive : \A idx \in archive[i].index :
        IndexStats(idx, archive, archive[i].by, i, spec[archive[i].by])

StatsInv == BuildersCount /\ IndexesAgree

LEMMA TopicRecordsFinite ==
    ASSUME NEW log, NEW s, NEW n \in Nat, NEW T
    PROVE  /\ IsFiniteSet(TopicRecords(log, s, n, T))
           /\ Cardinality(TopicRecords(log, s, n, T)) \in Nat
<1>1. IsFiniteSet(1 .. n)
  BY FS_Interval
<1>2. TopicRecords(log, s, n, T) \subseteq 1 .. n
  BY DEF TopicRecords, WrittenBy
<1>3. QED
  BY <1>1, <1>2, FS_Subset, FS_CardinalityType

LEMMA SameCounts ==
    ASSUME NEW log, NEW log2, NEW n \in Nat, Agree(log, log2, n), NEW s, NEW T
    PROVE  \A i \in 0 .. n : TopicRecords(log2, s, i, T) = TopicRecords(log, s, i, T)
<1> TAKE i \in 0 .. n
<1>1. WrittenBy(log2, s, i) = WrittenBy(log, s, i)
  BY DEF WrittenBy, Agree
<1>2. \A j \in WrittenBy(log, s, i) : log2[j] = log[j]
  BY DEF WrittenBy, Agree
<1>3. QED
  BY <1>1, <1>2, Zenon DEF TopicRecords

(* One more record counts for the topics it is listed under.               *)
CountsGrow(log, log2, r, s, T) ==
    /\ \A i \in 0 .. Len(log) : TopicRecords(log2, s, i, T) = TopicRecords(log, s, i, T)
    /\ Cardinality(TopicRecords(log2, s, Len(log) + 1, T)) =
         Cardinality(TopicRecords(log, s, Len(log), T)) +
            (IF r.by = s /\ \E tt \in Lists(r) : tt.topic \in T THEN 1 ELSE 0)

LEMMA AppendCounts ==
    ASSUME NEW log, log \in Seq(RangeOf(log)), NEW r, NEW log2, log2 = Append(log, r),
           NEW s, NEW T
    PROVE  CountsGrow(log, log2, r, s, T)
<1> DEFINE n == Len(log)
           R == TopicRecords(log, s, n, T)
           R2 == TopicRecords(log2, s, n + 1, T)
<1>1. /\ n \in Nat
      /\ \A i \in 1 .. n : log2[i] = log[i]
      /\ log2[n + 1] = r
  BY AppendRecord
<1>2. \A i \in 0 .. n : TopicRecords(log2, s, i, T) = TopicRecords(log, s, i, T)
  <2>1. Agree(log, log2, n)
    BY <1>1 DEF Agree
  <2>2. QED
    BY <1>1, <2>1, SameCounts
<1>3. TopicRecords(log2, s, n, T) = R
  BY <1>1, <1>2
<1>4. WrittenBy(log2, s, n + 1) =
        WrittenBy(log2, s, n) \cup (IF r.by = s THEN {n + 1} ELSE {})
  BY <1>1 DEF WrittenBy
<1>5. IsFiniteSet(R) /\ Cardinality(R) \in Nat
  BY <1>1, TopicRecordsFinite
<1>6. n + 1 \notin R
  BY <1>1 DEF TopicRecords, WrittenBy
<1>7. CASE r.by = s /\ \E tt \in Lists(r) : tt.topic \in T
  <2>1. R2 = TopicRecords(log2, s, n, T) \cup {n + 1}
    BY <1>1, <1>4, <1>7 DEF TopicRecords
  <2>2. R2 = R \cup {n + 1}
    BY <2>1, <1>3
  <2>3. Cardinality(R2) = Cardinality(R) + 1
    BY <2>2, <1>5, <1>6, FS_AddElement
  <2>4. QED
    BY <2>3, <1>2, <1>7 DEF CountsGrow
<1>8. CASE ~(r.by = s /\ \E tt \in Lists(r) : tt.topic \in T)
  <2>1. R2 = TopicRecords(log2, s, n, T)
    BY <1>1, <1>4, <1>8 DEF TopicRecords
  <2>2. Cardinality(R2) = Cardinality(R) + 0
    BY <2>1, <1>3, <1>5
  <2>3. QED
    BY <2>2, <1>2, <1>8 DEF CountsGrow
<1>9. QED
  BY <1>7, <1>8

(* The time is the last thing by which topic times are compared, and the   *)
(* first that decides.                                                     *)
LEMMA EarlierIsBefore ==
    ASSUME NEW tt, NEW uu, tt.stamp \in Int, uu.stamp \in Int, tt.stamp < uu.stamp
    PROVE  Before(tt, uu)
<1> DEFINE u == Key(tt)
           v == Key(uu)
<1>1. u[6] = tt.stamp /\ v[6] = uu.stamp /\ DOMAIN v = 1 .. 6
  BY DEF Key
<1> HIDE DEF u, v
<1>2. \E p \in DOMAIN v : u[p] < v[p] /\ \A q \in DOMAIN v : q > p => u[q] = v[q]
  BY <1>1
<1>3. QED
  BY <1>2 DEF Before, Precedes, u, v

(* What Complete makes of a builder's counts and times.                    *)
LEMMA CompleteStats ==
    ASSUME NEW b, NEW idx \in Complete(b), b.observed \in Seq(RangeOf(b.observed)),
           RangeOK(b.observed, b.start, b.end)
    PROVE  /\ Listing(idx)
           /\ idx.topic_to_stats = b.n_messages
           /\ Len(idx.time_ordered_entries) = Len(b.observed)
           /\ InTimeOrder(idx.time_ordered_entries)
           /\ idx.time_ordered_entries # <<>> =>
                /\ idx.start = idx.time_ordered_entries[1].stamp
                /\ idx.end = idx.time_ordered_entries[Len(idx.time_ordered_entries)].stamp
<1>1. PICK seq \in OrderedTTs(b.observed) :
        idx = [time_ordered_entries |-> seq, topic_to_stats |-> b.n_messages,
               start |-> b.start, end |-> b.end]
  BY DEF Complete
<1>2. /\ idx.time_ordered_entries = seq /\ idx.topic_to_stats = b.n_messages
      /\ idx.start = b.start /\ idx.end = b.end
  BY <1>1
<1>3. seq \in Reorderings(b.observed) /\ InTimeOrder(seq)
  BY DEF OrderedTTs
<1> DEFINE n == Len(b.observed)
           S == RangeOf(b.observed)
<1>4. n \in Nat /\ DOMAIN b.observed = 1 .. n
  OBVIOUS
<1>5. PICK p \in [1 .. n -> 1 .. n] :
        /\ \A i \in 1 .. n : \E j \in 1 .. n : p[j] = i
        /\ seq = [i \in 1 .. n |-> b.observed[p[i]]]
  <2>1. PICK p \in [DOMAIN b.observed -> DOMAIN b.observed] :
          /\ \A i \in DOMAIN b.observed : \E j \in DOMAIN b.observed : p[j] = i
          /\ seq = [i \in DOMAIN b.observed |-> b.observed[p[i]]]
    BY <1>3 DEF Reorderings
  <2>2. QED
    BY <2>1, <1>4, Zenon
<1>6. \A i \in 1 .. n : b.observed[p[i]] \in S /\ p[i] \in 1 .. n
  BY <1>4, <1>5 DEF RangeOf
<1> HIDE DEF n, S
<1>7. Len(seq) = n /\ DOMAIN seq = 1 .. n /\ seq \in Seq(RangeOf(seq))
  <2> DEFINE f(i) == b.observed[p[i]]
  <2>1. \A i \in 1 .. n : f(i) \in S
    BY <1>6
  <2>2. seq = [i \in 1 .. n |-> f(i)]
    BY <1>5
  <2> HIDE DEF f
  <2>3. seq \in Seq(S) /\ Len(seq) = n /\ DOMAIN seq = 1 .. n
    BY <2>1, <2>2, <1>4
  <2>4. QED
    BY <2>3, RangeTyped
<1>8. \A k \in 1 .. n : seq[k] = b.observed[p[k]]
  BY <1>5
<1>9. \A k \in 1 .. n : /\ seq[k].stamp \in Int /\ b.start <= seq[k].stamp
                        /\ seq[k].stamp <= b.end
  BY <1>4, <1>6, <1>8 DEF RangeOK
<1>10. \A k, l \in 1 .. n : k < l => seq[k].stamp <= seq[l].stamp
  <2> TAKE k, l \in 1 .. n
  <2> HAVE k < l
  <2>1. ~Before(seq[l], seq[k])
    BY <1>3, <1>7 DEF InTimeOrder
  <2>2. ~(seq[l].stamp < seq[k].stamp)
    BY <2>1, <1>9, EarlierIsBefore
  <2>3. QED
    BY <2>2, <1>9
<1>11. ASSUME seq # <<>>
       PROVE  b.start = seq[1].stamp /\ b.end = seq[n].stamp
  <2>1. n # 0
    BY <1>4, <1>5, <1>11, <1>7
  <2>2. 1 \in 1 .. n /\ n \in 1 .. n
    BY <2>1, <1>4
  <2>3. b.observed # <<>>
    BY <2>2, <1>4
  <2>4. PICK i \in 1 .. n : b.observed[i].stamp = b.start
    BY <2>3, <1>4 DEF RangeOK
  <2>5. PICK j \in 1 .. n : b.observed[j].stamp = b.end
    BY <2>3, <1>4 DEF RangeOK
  <2>6. PICK k \in 1 .. n : seq[k].stamp = b.start
    <3>1. PICK k \in 1 .. n : p[k] = i
      BY <1>5
    <3>2. QED
      BY <3>1, <2>4, <1>8
  <2>7. PICK l \in 1 .. n : seq[l].stamp = b.end
    <3>1. PICK l \in 1 .. n : p[l] = j
      BY <1>5
    <3>2. QED
      BY <3>1, <2>5, <1>8
  <2>8. seq[1].stamp <= b.start
    <3>1. CASE k = 1
      BY <3>1, <2>6, <1>9, <2>2
    <3>2. CASE k # 1
      BY <3>2, <2>6, <2>2, <1>10, <1>4
    <3>3. QED
      BY <3>1, <3>2
  <2>9. b.end <= seq[n].stamp
    <3>1. CASE l = n
      BY <3>1, <2>7, <1>9, <2>2
    <3>2. CASE l # n
      BY <3>2, <2>7, <2>2, <1>10, <1>4
    <3>3. QED
      BY <3>1, <3>2
  <2>10. /\ seq[1].stamp \in Int /\ b.start <= seq[1].stamp
         /\ seq[n].stamp \in Int /\ seq[n].stamp <= b.end
    BY <2>2, <1>9
  <2>11. b.start \in Int /\ b.end \in Int
    BY DEF RangeOK
  <2>12. QED
    BY <2>8, <2>9, <2>10, <2>11
<1>12. QED
  BY <1>2, <1>3, <1>7, <1>11 DEF Listing, n

(* Observe counts one record more, and widens the range to its time.       *)
LEMMA ObserveStats ==
    ASSUME NEW e \in UserEntries, NEW b, NEW s, NEW log, log \in Seq(RangeOf(log)),
           NEW r, r.by = s, r.entry = e, r.index = {}, NEW log2, log2 = Append(log, r),
           NEW name, r.name = name,
           b.observed \in Seq(RangeOf(b.observed)), b.timeseries \in BOOLEAN,
           BuilderStats(b, log, s)
    PROVE  BuilderStats(Observe(b, e, name), log2, s)
<1>1. \A T : CountsGrow(log, log2, r, s, T)
  BY AppendCounts
<1>2. Len(log) \in Nat /\ Len(log2) = Len(log) + 1
  BY AppendRecord
<1>3. \A T : Cardinality(TopicRecords(log, s, Len(log), T)) \in Nat
  BY <1>2, TopicRecordsFinite
<1>4. CASE b.timeseries /\ IsStampedMessage(e)
  <2>1. PICK tt : GetTopicTime(e) = {tt}
    BY <1>4, OneTopicTime
  <2>2. (CHOOSE x \in GetTopicTime(e) : TRUE) = tt
    BY <2>1
  <2> DEFINE o == TopicTime(tt, name)
             c == ObserveTopicTime(b, o)
  <2>3. Observe(b, e, name) = c
    BY <1>4, <2>2 DEF Observe
  <2>4. tt.topic \in AllTopics /\ tt.stamp \in MinTimestamp .. MaxTimestamp
    BY <2>1, WriteSessionAssumption
  <2>5. o.topic = tt.topic /\ o.stamp = tt.stamp
    BY DEF TopicTime
  <2>6. \A T : (\E uu \in Lists(r) : uu.topic \in T) <=> tt.topic \in T
    <3>1. Lists(r) = {o}
      BY <1>4, <2>1 DEF Lists
    <3>2. QED
      BY <3>1, <2>5
  <2>7. /\ c.timeseries = b.timeseries
        /\ c.observed = Append(b.observed, o)
        /\ c.n_messages = [b.n_messages EXCEPT ![tt.topic] = @ + 1]
        /\ c.start = MinStamp(b.start, tt.stamp)
        /\ c.end = MaxStamp(b.end, tt.stamp)
    BY <2>5 DEF ObserveTopicTime
  <2> HIDE DEF o, c
  <2>8. b.n_messages \in [AllTopics -> Nat]
    BY DEF BuilderStats
  <2>9. c.n_messages \in [AllTopics -> Nat]
    <3>1. b.n_messages[tt.topic] + 1 \in Nat
      BY <2>4, <2>8
    <3>2. QED
      BY <2>7, <2>8, <3>1
  <2>10. CountsOK(c.observed, c.n_messages, log2, s, Len(log2))
    <3>1. ASSUME NEW t \in AllTopics
          PROVE  c.n_messages[t] = Cardinality(TopicRecords(log2, s, Len(log) + 1, {t}))
      <4>1. b.n_messages[t] = Cardinality(TopicRecords(log, s, Len(log), {t}))
        BY <1>4 DEF BuilderStats, CountsOK
      <4>2. Cardinality(TopicRecords(log2, s, Len(log) + 1, {t})) =
              Cardinality(TopicRecords(log, s, Len(log), {t})) + (IF tt.topic \in {t} THEN 1 ELSE 0)
        BY <1>1, <2>6 DEF CountsGrow
      <4>3. c.n_messages[t] = IF t = tt.topic THEN b.n_messages[t] + 1 ELSE b.n_messages[t]
        BY <2>7, <2>8
      <4>4. QED
        BY <4>1, <4>2, <4>3, <1>3
    <3>2. Len(c.observed) = Cardinality(TopicRecords(log2, s, Len(log) + 1, AllTopics))
      <4>1. Len(b.observed) = Cardinality(TopicRecords(log, s, Len(log), AllTopics))
        BY <1>4 DEF BuilderStats, CountsOK
      <4>2. Cardinality(TopicRecords(log2, s, Len(log) + 1, AllTopics)) =
              Cardinality(TopicRecords(log, s, Len(log), AllTopics)) + 1
        BY <1>1, <2>4, <2>6 DEF CountsGrow
      <4>3. Len(c.observed) = Len(b.observed) + 1
        BY <2>7, AppendRecord
      <4>4. QED
        BY <4>1, <4>2, <4>3
    <3>3. QED
      BY <3>1, <3>2, <1>2 DEF CountsOK
  <2>11. RangeOK(c.observed, c.start, c.end)
    <3> DEFINE n == Len(b.observed)
    <3>1. RangeOK(b.observed, b.start, b.end)
      BY DEF BuilderStats
    <3>2. /\ n \in Nat /\ DOMAIN b.observed = 1 .. n /\ DOMAIN c.observed = 1 .. n + 1
          /\ \A k \in 1 .. n : c.observed[k] = b.observed[k]
          /\ c.observed[n + 1] = o
      BY <2>7, AppendRecord
    <3>3. MaxTimestamp \in Nat /\ MinTimestamp = 0 /\ tt.stamp \in Int
          /\ MinTimestamp <= tt.stamp /\ tt.stamp <= MaxTimestamp
      BY <2>4, WriteSessionAssumption DEF MinTimestamp
    <3> HIDE DEF n
    <3>4. b.start \in Int /\ b.end \in Int
      BY <3>1 DEF RangeOK
    <3>5. /\ c.start \in Int /\ c.end \in Int
          /\ c.start <= b.start /\ b.end <= c.end
          /\ c.start <= tt.stamp /\ tt.stamp <= c.end
          /\ c.start \in {b.start, tt.stamp} /\ c.end \in {b.end, tt.stamp}
      BY <2>7, <3>3, <3>4 DEF MinStamp, MaxStamp
    <3>6. ASSUME NEW k \in DOMAIN c.observed
          PROVE  /\ c.observed[k].stamp \in Int
                 /\ c.start <= c.observed[k].stamp /\ c.observed[k].stamp <= c.end
      <4>1. CASE k \in 1 .. n
        <5>1. /\ b.observed[k].stamp \in Int
              /\ b.start <= b.observed[k].stamp /\ b.observed[k].stamp <= b.end
          BY <4>1, <3>1, <3>2 DEF RangeOK
        <5>2. c.observed[k] = b.observed[k]
          BY <4>1, <3>2
        <5>3. QED
          BY <5>1, <5>2, <3>4, <3>5
      <4>2. CASE k = n + 1
        BY <4>2, <2>5, <3>2, <3>3, <3>5
      <4>3. QED
        BY <4>1, <4>2, <3>2
    <3>7. n + 1 \in DOMAIN c.observed /\ c.observed[n + 1].stamp = tt.stamp
      BY <2>5, <3>2
    <3>8. c.observed # <<>>
      BY <3>7
    <3>9. \E k \in DOMAIN c.observed : c.observed[k].stamp = c.start
      <4>1. CASE c.start = tt.stamp
        BY <4>1, <3>7
      <4>2. CASE c.start # tt.stamp
        <5>1. c.start = b.start /\ b.start < tt.stamp
          BY <4>2, <2>7, <3>3, <3>4 DEF MinStamp
        <5>2. b.observed # <<>>
          BY <5>1, <3>1, <3>3 DEF RangeOK
        <5>3. PICK k \in DOMAIN b.observed : b.observed[k].stamp = b.start
          BY <5>2, <3>1 DEF RangeOK
        <5>4. k \in DOMAIN c.observed /\ c.observed[k] = b.observed[k]
          BY <3>2
        <5>5. QED
          BY <5>1, <5>3, <5>4
      <4>3. QED
        BY <4>1, <4>2
    <3>10. \E k \in DOMAIN c.observed : c.observed[k].stamp = c.end
      <4>1. CASE c.end = tt.stamp
        BY <4>1, <3>7
      <4>2. CASE c.end # tt.stamp
        <5>1. c.end = b.end /\ tt.stamp < b.end
          BY <4>2, <2>7, <3>3, <3>4 DEF MaxStamp
        <5>2. b.observed # <<>>
          BY <5>1, <3>1, <3>3 DEF RangeOK
        <5>3. PICK k \in DOMAIN b.observed : b.observed[k].stamp = b.end
          BY <5>2, <3>1 DEF RangeOK
        <5>4. k \in DOMAIN c.observed /\ c.observed[k] = b.observed[k]
          BY <3>2
        <5>5. QED
          BY <5>1, <5>3, <5>4
      <4>3. QED
        BY <4>1, <4>2
    <3>11. QED
      BY <3>5, <3>6, <3>8, <3>9, <3>10 DEF RangeOK
  <2>12. QED
    BY <2>3, <2>9, <2>10, <2>11 DEF BuilderStats
<1>5. CASE ~(b.timeseries /\ IsStampedMessage(e))
  <2>1. Observe(b, e, name) = b
    BY <1>5 DEF Observe
  <2>2. ASSUME b.timeseries PROVE CountsOK(b.observed, b.n_messages, log2, s, Len(log2))
    <3>1. Lists(r) = {}
      BY <1>5, <2>2 DEF Lists
    <3>2. \A T : Cardinality(TopicRecords(log2, s, Len(log2), T)) =
                 Cardinality(TopicRecords(log, s, Len(log), T))
      BY <3>1, <1>1, <1>2, <1>3 DEF CountsGrow
    <3>3. QED
      BY <2>2, <3>2 DEF BuilderStats, CountsOK
  <2>3. QED
    BY <2>1, <2>2 DEF BuilderStats
<1>6. QED
  BY <1>4, <1>5

(* A record that is not listed for the session of a builder.               *)
LEMMA OthersStats ==
    ASSUME NEW log, log \in Seq(RangeOf(log)), NEW r, NEW log2, log2 = Append(log, r),
           NEW s, r.by # s, NEW b, BuilderStats(b, log, s)
    PROVE  BuilderStats(b, log2, s)
<1>1. \A T : CountsGrow(log, log2, r, s, T)
  BY AppendCounts
<1>2. Len(log) \in Nat /\ Len(log2) = Len(log) + 1
  BY AppendRecord
<1>3. \A T : Cardinality(TopicRecords(log, s, Len(log), T)) \in Nat
  BY <1>2, TopicRecordsFinite
<1>4. \A T : Cardinality(TopicRecords(log2, s, Len(log2), T)) =
             Cardinality(TopicRecords(log, s, Len(log), T))
  BY <1>1, <1>2, <1>3 DEF CountsGrow
<1>5. QED
  BY <1>4 DEF BuilderStats, CountsOK

LEMMA AppendKeepsStats ==
    ASSUME IInv, StatsInv, NEW s \in Sessions, NEW r, r.by = s,
           archive' = Append(archive, r), UNCHANGED spec,
           \A q \in Sessions : q # s => indexer'[q] = indexer[q],
           \A b \in indexer'[s] : BuilderStats(b, archive', s),
           \A idx \in r.index : IndexStats(idx, archive, s, Len(archive), spec[s]),
           r.index # {} => Lists(r) = {}
    PROVE  StatsInv'
<1> DEFINE n == Len(archive)
<1>1. archive \in Seq(RangeOf(archive)) /\ \A i \in DOMAIN archive : archive[i].by \in Sessions
  BY DEF IInv, TypeOK
<1>2. /\ n \in Nat /\ DOMAIN archive = 1 .. n /\ DOMAIN archive' = 1 .. n + 1
      /\ \A i \in 1 .. n : archive'[i] = archive[i]
      /\ archive'[n + 1] = r
  BY <1>1, AppendRecord
<1>3. \A q, T : CountsGrow(archive, archive', r, q, T)
  BY <1>1, AppendCounts
<1>4. \A T : Cardinality(TopicRecords(archive, s, n, T)) \in Nat
  BY <1>2, TopicRecordsFinite
<1>5. \A q, T : \A i \in 0 .. n : TopicRecords(archive', q, i, T) = TopicRecords(archive, q, i, T)
  BY <1>3 DEF CountsGrow
<1>6. r.index # {} => \A T : Cardinality(TopicRecords(archive', s, n + 1, T)) =
                             Cardinality(TopicRecords(archive, s, n, T))
  BY <1>3, <1>4 DEF CountsGrow
<1> HIDE DEF n
<1>7. BuildersCount'
  <2>1. ASSUME NEW q \in Sessions, NEW b \in indexer'[q] PROVE BuilderStats(b, archive', q)
    <3>1. CASE q = s
      BY <3>1
    <3>2. CASE q # s
      <4>1. BuilderStats(b, archive, q)
        BY <3>2 DEF StatsInv, BuildersCount
      <4>2. QED
        BY <4>1, <3>2, <1>1, OthersStats
    <3>3. QED
      BY <3>1, <3>2
  <2>2. QED
    BY <2>1 DEF BuildersCount
<1>8. IndexesAgree'
  <2>1. ASSUME NEW i \in DOMAIN archive', NEW idx \in archive'[i].index
        PROVE  IndexStats(idx, archive', archive'[i].by, i, spec'[archive'[i].by])
    <3>1. CASE i \in 1 .. n
      <4>1. archive'[i] = archive[i] /\ i \in 0 .. n /\ i \in DOMAIN archive
        BY <3>1, <1>2
      <4>2. IndexStats(idx, archive, archive[i].by, i, spec[archive[i].by])
        BY <4>1 DEF StatsInv, IndexesAgree
      <4>3. \A T : TopicRecords(archive', archive[i].by, i, T) =
                    TopicRecords(archive, archive[i].by, i, T)
        BY <4>1, <1>5
      <4>4. QED
        BY <4>1, <4>2, <4>3 DEF IndexStats, CountsOK
    <3>2. CASE i = n + 1
      <4>1. archive'[i] = r /\ idx \in r.index
        BY <3>2, <1>2
      <4>2. IndexStats(idx, archive, s, n, spec[s])
        BY <4>1 DEF n
      <4>3. \A T : Cardinality(TopicRecords(archive', s, i, T)) =
                    Cardinality(TopicRecords(archive, s, n, T))
        BY <4>1, <3>2, <1>6
      <4>4. QED
        BY <4>1, <4>2, <4>3 DEF IndexStats, CountsOK
    <3>3. QED
      BY <3>1, <3>2, <1>2
  <2>2. QED
    BY <2>1 DEF IndexesAgree, IndexStats
<1>9. QED
  BY <1>7, <1>8 DEF StatsInv

(* A log of which a first part is left.                                    *)
LEMMA CutKeepsStats ==
    ASSUME IInv, StatsInv, NEW n \in 0 .. Len(archive), DOMAIN archive' = 1 .. n,
           \A i \in 1 .. n : archive'[i] = archive[i] /\ spec'[archive[i].by] = spec[archive[i].by],
           \A q \in Sessions : \A b \in indexer'[q] : BuilderStats(b, archive', q)
    PROVE  StatsInv'
<1>1. Len(archive) \in Nat /\ DOMAIN archive = 1 .. Len(archive)
  BY DEF IInv, TypeOK
<1>2. n \in Nat /\ Agree(archive, archive', n)
  BY <1>1 DEF Agree
<1>3. \A q, T : \A i \in 0 .. n : TopicRecords(archive', q, i, T) = TopicRecords(archive, q, i, T)
  BY <1>2, SameCounts
<1>4. IndexesAgree'
  <2>1. ASSUME NEW i \in DOMAIN archive', NEW idx \in archive'[i].index
        PROVE  IndexStats(idx, archive', archive'[i].by, i, spec'[archive'[i].by])
    <3>1. archive'[i] = archive[i] /\ i \in 0 .. n /\ i \in DOMAIN archive
          /\ spec'[archive[i].by] = spec[archive[i].by]
      BY <1>1, <1>2
    <3>2. IndexStats(idx, archive, archive[i].by, i, spec[archive[i].by])
      BY <3>1 DEF StatsInv, IndexesAgree
    <3>3. \A T : TopicRecords(archive', archive[i].by, i, T) =
                  TopicRecords(archive, archive[i].by, i, T)
      BY <3>1, <1>3
    <3>4. QED
      BY <3>1, <3>2, <3>3 DEF IndexStats, CountsOK
  <2>2. QED
    BY <2>1 DEF IndexesAgree, IndexStats
<1>5. BuildersCount'
  <2>1. ASSUME NEW q \in Sessions, NEW b \in indexer'[q] PROVE BuilderStats(b, archive', q)
    OBVIOUS
  <2>2. QED
    BY <2>1 DEF BuildersCount
<1>6. QED
  BY <1>4, <1>5 DEF StatsInv

(* The log stays as it is, and builders only go.                           *)
LEMMA SameLogKeepsStats ==
    ASSUME IInv, StatsInv, UNCHANGED <<archive, spec>>,
           \A q \in Sessions : indexer'[q] = {} \/ indexer'[q] = indexer[q]
    PROVE  StatsInv'
<1>1. IndexesAgree'
  BY DEF StatsInv, IndexesAgree, IndexStats
<1>2. BuildersCount'
  BY DEF StatsInv, BuildersCount
<1>3. QED
  BY <1>1, <1>2 DEF StatsInv

LEMMA WriteIndexKeepsStats ==
    ASSUME IInv, StatsInv, NEW s \in Sessions, WriteIndex(s), UNCHANGED spec
    PROVE  StatsInv'
<1>1. /\ indexer'[s] = {}
      /\ \A q \in Sessions : q # s => indexer'[q] = indexer[q]
  BY DEF WriteIndex, IInv, TypeOK
<1>2. CASE UNCHANGED archive
  BY <1>1, <1>2, SameLogKeepsStats
<1>3. ASSUME NEW b \in indexer[s], NEW now \in IndexTimes, NEW idx \in Complete(b),
             Write(s, CreateStamped(IndexTopic, now), {idx})
      PROVE  StatsInv'
  <2>1. PICK r : archive' = Append(archive, r) /\ r.by = s /\ r.index = {idx}
    BY <1>3, WrittenRecord
  <2>2. BuilderStats(b, archive, s) /\ b.observed \in Seq(RangeOf(b.observed))
        /\ b.timeseries = spec[s].timeseries
    BY DEF StatsInv, BuildersCount, IInv, BuildersMatch
  <2>3. IndexStats(idx, archive, s, Len(archive), spec[s])
    <3>1. RangeOK(b.observed, b.start, b.end)
      BY <2>2 DEF BuilderStats
    <3>2. /\ Listing(idx)
          /\ idx.topic_to_stats = b.n_messages
          /\ Len(idx.time_ordered_entries) = Len(b.observed)
          /\ InTimeOrder(idx.time_ordered_entries)
          /\ idx.time_ordered_entries # <<>> =>
               /\ idx.start = idx.time_ordered_entries[1].stamp
               /\ idx.end = idx.time_ordered_entries[Len(idx.time_ordered_entries)].stamp
      BY <2>2, <3>1, CompleteStats
    <3>3. QED
      BY <2>2, <3>2 DEF IndexStats, BuilderStats, CountsOK
  <2>4. Lists(r) = {}
    BY <2>1 DEF Lists
  <2>5. QED
    BY <2>1, <2>3, <2>4, <1>1, AppendKeepsStats
<1>4. QED
  BY <1>2, <1>3 DEF WriteIndex

LEMMA StepKeepsStats == IInv /\ StatsInv /\ [Next]_vars => StatsInv'
<1> SUFFICES ASSUME IInv, StatsInv, [Next]_vars PROVE StatsInv'
  OBVIOUS
<1>0. archive \in Seq(RangeOf(archive)) /\ DOMAIN archive = 1 .. Len(archive)
      /\ Len(archive) \in Nat
  BY DEF IInv, TypeOK
<1>1. ASSUME NEW s \in Sessions, Create(s) PROVE StatsInv'
  <2>1. PICK sp \in Specs :
          /\ spec' = [spec EXCEPT ![s] = sp]
          /\ indexer' = [indexer EXCEPT ![s] =
                IF ShouldDoIndexing(sp) THEN {NewBuilder(sp.timeseries)} ELSE {}]
    BY <1>1 DEF Create
  <2>2. \A i \in DOMAIN archive : archive[i].by \in Sessions /\ archive[i].by # s
    BY <1>1 DEF Create, IInv, TypeOK, Owners
  <2>3. PICK n \in 0 .. Len(archive) :
          /\ DOMAIN archive' = 1 .. n /\ \A i \in 1 .. n : archive'[i] = archive[i]
          /\ Len(archive') = n /\ (n # Len(archive) => ~InPlace(kind))
    <3>1. CASE archive' = archive
      <4> DEFINE all == Len(archive)
      <4>1. all \in 0 .. Len(archive) /\ DOMAIN archive' = 1 .. all /\ Len(archive') = all
        BY <3>1, <1>0
      <4>2. \A i \in 1 .. all : archive'[i] = archive[i]
        BY <3>1
      <4>3. all # Len(archive) => ~InPlace(kind)
        OBVIOUS
      <4> HIDE DEF all
      <4>4. QED
        BY <4>1, <4>2, <4>3
    <3>2. CASE archive' = <<>> /\ ~InPlace(kind)
      <4> DEFINE none == 0
      <4>1. none \in 0 .. Len(archive) /\ DOMAIN archive' = 1 .. none /\ Len(archive') = none
        BY <3>2, <1>0
      <4>2. \A i \in 1 .. none : archive'[i] = archive[i]
        OBVIOUS
      <4> HIDE DEF none
      <4>3. none # Len(archive) => ~InPlace(kind)
        BY <3>2
      <4>4. QED
        BY <4>1, <4>2, <4>3
    <3>3. QED
      BY <3>1, <3>2, <1>1 DEF Create
  <2>4. \A i \in 1 .. n : archive'[i] = archive[i] /\ spec'[archive[i].by] = spec[archive[i].by]
    <3>1. \A i \in 1 .. n : i \in DOMAIN archive
      BY <1>0
    <3>2. \A q \in Sessions : q # s => spec'[q] = spec[q]
      BY <2>1 DEF IInv, TypeOK
    <3>3. QED
      BY <3>1, <3>2, <2>2, <2>3
  <2>5. ASSUME NEW q \in Sessions, NEW b \in indexer'[q] PROVE BuilderStats(b, archive', q)
    <3>1. CASE q = s
      <4>1. b = NewBuilder(sp.timeseries)
        BY <3>1, <2>1 DEF IInv, TypeOK
      <4>2. /\ b.n_messages = [t \in AllTopics |-> 0] /\ b.observed = <<>>
            /\ b.start = MaxTimestamp /\ b.end = MinTimestamp
        BY <4>1 DEF NewBuilder
      <4>3. RangeOK(b.observed, b.start, b.end)
        <5>1. b.start \in Int /\ b.end \in Int
          BY <4>2, WriteSessionAssumption DEF MinTimestamp
        <5>2. DOMAIN b.observed = {} /\ b.observed = <<>>
          BY <4>2
        <5>3. QED
          BY <5>1, <5>2, <4>2 DEF RangeOK
      <4>4. WrittenBy(archive', s, n) = {}
        <5>1. ASSUME NEW j \in 1 .. n PROVE archive'[j].by # s
          <6>1. j \in DOMAIN archive
            BY <1>0
          <6>2. archive'[j] = archive[j]
            BY <2>3
          <6>3. QED
            BY <6>1, <6>2, <2>2
        <5>2. QED
          BY <5>1 DEF WrittenBy
      <4>5. \A T : TopicRecords(archive', s, n, T) = {}
        BY <4>4 DEF TopicRecords
      <4>6. Cardinality({}) = 0
        BY FS_EmptySet
      <4>7. CountsOK(b.observed, b.n_messages, archive', s, Len(archive'))
        BY <4>2, <4>5, <4>6, <2>3 DEF CountsOK
      <4>8. QED
        BY <4>2, <4>3, <4>7, <3>1 DEF BuilderStats
    <3>2. CASE q # s
      <4>1. b \in indexer[q] /\ session[q] = "open"
        BY <3>2, <2>1 DEF IInv, TypeOK
      <4>2. archive' = archive
        BY <4>1, <1>1 DEF Create
      <4>3. QED
        BY <4>1, <4>2 DEF StatsInv, BuildersCount
    <3>3. QED
      BY <3>1, <3>2
  <2>6. QED
    BY <2>3, <2>4, <2>5, CutKeepsStats
<1>2. ASSUME NEW s \in Sessions, NEW e \in UserEntries, WriteEntry(s, e) PROVE StatsInv'
  <2>1. PICK r : /\ archive' = Append(archive, r) /\ r.by = s /\ r.entry = e
                 /\ r.name = FinalName(e) /\ r.index = {}
    BY <1>2, WrittenRecord DEF WriteEntry
  <2>2. /\ spec' = spec
        /\ \A q \in Sessions : indexer'[q] =
             IF q = s THEN {Observe(b, e, FinalName(e)) : b \in indexer[s]} ELSE indexer[q]
    BY <1>2 DEF WriteEntry, IInv, TypeOK
  <2>3. ASSUME NEW b \in indexer'[s] PROVE BuilderStats(b, archive', s)
    <3>1. PICK c \in indexer[s] : b = Observe(c, e, FinalName(e))
      BY <2>2
    <3>2. /\ BuilderStats(c, archive, s) /\ c.observed \in Seq(RangeOf(c.observed))
          /\ c.timeseries = spec[s].timeseries
      BY DEF StatsInv, BuildersCount, IInv, BuildersMatch
    <3>3. c.timeseries \in BOOLEAN
      BY <3>2, SpecTyped
    <3>4. QED
      BY <3>1, <3>2, <3>3, <2>1, <1>0, ObserveStats
  <2>4. QED
    BY <2>1, <2>2, <2>3, AppendKeepsStats
<1>3. ASSUME NEW s \in Sessions, NEW e \in UserEntries, WriteEntryFails(s, e)
      PROVE  StatsInv'
  BY <1>3, SameLogKeepsStats DEF WriteEntryFails
<1>4. ASSUME NEW s \in Sessions, Close(s) PROVE StatsInv'
  BY <1>4, WriteIndexKeepsStats DEF Close
<1>5. ASSUME NEW s \in Sessions, Destroy(s) PROVE StatsInv'
  <2>1. CASE indexer[s] # {}
    BY <1>5, <2>1, WriteIndexKeepsStats DEF Destroy
  <2>2. CASE indexer[s] = {}
    BY <1>5, <2>2, SameLogKeepsStats DEF Destroy
  <2>3. QED
    BY <2>1, <2>2
<1>6. ASSUME NEW s \in Sessions, Crash(s) PROVE StatsInv'
  <2>1. /\ spec' = spec /\ session[s] = "open"
        /\ \A q \in Sessions : indexer'[q] = IF q = s THEN {} ELSE indexer[q]
    BY <1>6 DEF Crash, IInv, TypeOK
  <2>2. CASE archive' = archive
    BY <2>1, <2>2, SameLogKeepsStats
  <2>3. ASSUME ~InPlace(kind), NEW n \in 0 .. Len(archive), archive' = SubSeq(archive, 1, n)
        PROVE  StatsInv'
    <3>1. DOMAIN archive' = 1 .. n /\ \A i \in 1 .. n : archive'[i] = archive[i]
      BY <2>3, <1>0, FirstPart
    <3>2. \A q \in Sessions : indexer'[q] = {}
      BY <2>1, <2>3 DEF IInv, TypeOK, OneWriter
    <3>3. QED
      BY <3>1, <3>2, <2>1, CutKeepsStats
  <2>4. QED
    BY <1>6, <2>2, <2>3 DEF Crash
<1>7. ASSUME NEW s \in Sessions, NEW e \in UserEntries, CrashInWriteEntry(s, e)
      PROVE  StatsInv'
  <2>1. PICK r : archive' = Append(archive, r) /\ r.by = s /\ r.index = {}
    BY <1>7, WrittenRecord DEF CrashInWriteEntry
  <2>2. /\ spec' = spec
        /\ \A q \in Sessions : indexer'[q] = IF q = s THEN {} ELSE indexer[q]
    BY <1>7 DEF CrashInWriteEntry, IInv, TypeOK
  <2>3. QED
    BY <2>1, <2>2, AppendKeepsStats
<1>8. CASE UNCHANGED vars
  BY <1>8, SameLogKeepsStats DEF vars
<1>9. QED
  BY <1>1, <1>2, <1>3, <1>4, <1>5, <1>6, <1>7, <1>8 DEF Next

(* The statistics of every index fit its entries: what Observe counted and *)
(* the times it kept are those of the entries that Complete put in order,  *)
(* which are as many as the messages written.                              *)
THEOREM IndexStatisticsAgree == Spec => []IndexStatsAgree
<1>1. Init => StatsInv
  BY DEF Init, StatsInv, BuildersCount, IndexesAgree
<1>2. StatsInv => IndexStatsAgree
  <2> SUFFICES ASSUME StatsInv, NEW i \in DOMAIN archive, NEW idx \in archive[i].index
               PROVE  LET seq == idx.time_ordered_entries
                          s == archive[i].by
                      IN  /\ spec[s].timeseries =>
                               /\ Len(seq) = Cardinality(MessagesOf(s, i, AllTopics))
                               /\ \A t \in AllTopics :
                                    idx.topic_to_stats[t] = Cardinality(MessagesOf(s, i, {t}))
                          /\ InTimeOrder(seq)
                          /\ seq # <<>> => /\ idx.start = seq[1].stamp
                                           /\ idx.end = seq[Len(seq)].stamp
    BY DEF IndexStatsAgree
  <2>1. IndexStats(idx, archive, archive[i].by, i, spec[archive[i].by])
    BY DEF StatsInv, IndexesAgree
  <2>2. QED
    BY <2>1 DEF IndexStats, CountsOK, TopicRecords, MessagesOf
<1>3. QED
  BY InitHolds, StepKeeps, StepKeepsStats, <1>1, <1>2, PTL DEF Spec

(* Whatever the sessions, faults and crashes, an archive is one that may   *)
(* be read: what ReadSession assumes of its archives is no more than what  *)
(* WriteSession makes of them.                                             *)
THEOREM ArchivesArePlayable == Spec => []Playable(archive)
<1>1. IInv /\ FoundInv /\ StatsInv => Playable(archive)
  <2> SUFFICES ASSUME IInv, FoundInv, StatsInv, NEW i \in DOMAIN archive,
                      NEW idx \in archive[i].index
               PROVE  LET tts == idx.time_ordered_entries
                      IN  /\ tts \in Seq(RangeOf(tts))
                          /\ \A k \in DOMAIN tts : tts[k].entryname # NoName
                          /\ \A k, l \in DOMAIN tts : k <= l => tts[k].stamp <= tts[l].stamp
    BY DEF Playable, IInv, TypeOK
  <2> DEFINE tts == idx.time_ordered_entries
  <2>1. tts \in Seq(RangeOf(tts)) /\ InTimeOrder(tts)
    BY DEF StatsInv, IndexesAgree, IndexStats, Listing
  <2>2. DOMAIN tts = 1 .. Len(tts) /\ Len(tts) \in Nat
    BY <2>1
  <2>3. ASSUME NEW k \in DOMAIN tts
        PROVE  tts[k].entryname # NoName /\ tts[k].stamp \in Int
    <3>1. tts[k] \in ShouldList(archive, archive[i].by, i)
      BY DEF IInv, IndexMatchesArchive, RangeOf
    <3>2. PICK j \in WrittenBy(archive, archive[i].by, i) : tts[k] \in Lists(archive[j])
      BY <3>1 DEF ShouldList
    <3>3. j \in DOMAIN archive
      BY DEF WrittenBy, IInv, TypeOK
    <3>4. PICK tt \in GetTopicTime(archive[j].entry) : tts[k] = TopicTime(tt, archive[j].name)
      BY <3>2 DEF Lists
    <3>5. archive[j].entry \in UserEntries
      BY <3>2, <3>3 DEF Lists, IInv, TypeOK
    <3>6. tt.stamp \in Int /\ archive[j].name # NoName
      BY <3>3, <3>5, WriteSessionAssumption
         DEF MinTimestamp, FoundInv, IndexNames, NamedOK
    <3>7. QED
      BY <3>4, <3>6 DEF TopicTime
  <2> HIDE DEF tts
  <2>4. ASSUME NEW k \in DOMAIN tts, NEW l \in DOMAIN tts, k <= l
        PROVE  tts[k].stamp <= tts[l].stamp
    <3>1. CASE k = l
      BY <3>1, <2>3
    <3>2. CASE k < l
      <4>1. ~Before(tts[l], tts[k])
        BY <2>1, <3>2 DEF InTimeOrder
      <4>2. ~(tts[l].stamp < tts[k].stamp)
        BY <2>3, <4>1, EarlierIsBefore
      <4>3. QED
        BY <2>3, <4>2
    <3>3. QED
      BY <2>2, <2>4, <3>1, <3>2
  <2>5. QED
    BY <2>1, <2>3, <2>4 DEF tts
<1>2. Init => FoundInv /\ StatsInv
  BY DEF Init, FoundInv, IndexWritten, IndexNames, SoleOwner, StatsInv, BuildersCount, IndexesAgree
<1>3. QED
  BY InitHolds, StepKeeps, StepKeepsFound, StepKeepsStats, <1>1, <1>2, PTL DEF Spec

=============================================================================

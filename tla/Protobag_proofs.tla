--------------------------- MODULE Protobag_proofs ---------------------------
(***************************************************************************)
(* Proofs about Protobag, for all sessions, entries, selections and        *)
(* faults: what an iteration over a bag generates while others write.      *)
(***************************************************************************)
EXTENDS Protobag, WriteSession_proofs

(* Writing is as in WriteSession, and reading leaves the bag alone: what   *)
(* is proved of the sessions that write holds of the composition.          *)
WriteInv == IInv /\ OneInv /\ FoundInv /\ StatsInv

LEMMA ReadingLeavesTheBag ==
    ASSUME IterEntries \/ IterElsewhere \/ GetNext
    PROVE  UNCHANGED vars
<1>1. CASE IterEntries \/ IterElsewhere
  BY <1>1 DEF IterEntries, IterElsewhere
<1>2. CASE GetNext
  BY <1>2 DEF GetNext, GetNextPlans, GetNextEntry, GetNextThrows, GetNextNone
<1>3. QED
  BY <1>1, <1>2

LEMMA BagStepIsWriteStep == [NextBag]_bagvars => [Next]_vars
<1> SUFFICES ASSUME [NextBag]_bagvars PROVE [Next]_vars
  OBVIOUS
<1>1. ASSUME NEW s \in Sessions, PyWriter(s) PROVE Next
  BY <1>1 DEF PyWriter, PyStart, PyWrite, PyClose, PyCrash, Next
<1>2. CASE UNCHANGED bagvars
  BY <1>2 DEF bagvars
<1>3. QED
  BY <1>1, <1>2, ReadingLeavesTheBag DEF NextBag

(* A bag is written as WriteSession has it, whoever reads it meanwhile:    *)
(* what is proved of the sessions that write holds of every bag.           *)
THEOREM BagsAreWrittenBySessions == SpecBag => Spec
<1>1. InitBag => Init
  BY DEF InitBag
<1>2. QED
  BY <1>1, BagStepIsWriteStep, PTL DEF SpecBag, Spec

LEMMA InitWriteInv == InitBag => WriteInv
<1>1. Init => OneInv /\ FoundInv /\ StatsInv
  BY DEF Init, OneInv, OneIndexPerSession, NoIndexYet, FoundInv, IndexWritten, IndexNames,
         SoleOwner, StatsInv, BuildersCount, IndexesAgree
<1>2. QED
  BY <1>1, InitHolds DEF InitBag, WriteInv

LEMMA StepKeepsWriteInv == WriteInv /\ [NextBag]_bagvars => WriteInv'
BY BagStepIsWriteStep, StepKeeps, StepKeepsOne, StepKeepsFound, StepKeepsStats DEF WriteInv

LEMMA BagFacts ==
    ASSUME WriteInv
    PROVE  /\ archive \in Seq(RangeOf(archive)) /\ Len(archive) \in Nat
           /\ DOMAIN archive = 1 .. Len(archive)
           /\ \A i \in DOMAIN archive : archive[i].by \in Sessions /\ NamedOK(archive[i])
           /\ DOMAIN session = Sessions
<1>1. archive \in Seq(RangeOf(archive))
  BY DEF WriteInv, IInv, TypeOK
<1>2. Len(archive) \in Nat /\ DOMAIN archive = 1 .. Len(archive)
  BY <1>1
<1>3. QED
  BY <1>1, <1>2 DEF WriteInv, IInv, TypeOK, FoundInv, IndexNames

-----------------------------------------------------------------------------
(* A session has gone once its index is written, as PyWriter::Close lets   *)
(* go of it at once; and nobody writes a zip or tar that is complete.      *)
IndexOfGone(r, state) ==
    /\ state[r.by] = "gone"
    /\ \E idx \in r.index : r.index = {idx}
    /\ r.entry.type = "StampedMessage" /\ r.entry.stamp \in Int

GoneInv ==
    /\ finished => ~InPlace(kind) /\ \A s \in Sessions : session[s] # "open"
    /\ \A i \in DOMAIN archive : archive[i].index # {} => IndexOfGone(archive[i], session)

(* What a writer does to the bag.                                          *)
Adds(s, r) ==
    /\ archive' = Append(archive, r) /\ r.by = s
    /\ r.index # {} => /\ session'[s] = "gone"
                       /\ \E idx \in r.index : r.index = {idx}
                       /\ r.entry.type = "StampedMessage" /\ r.entry.stamp \in Int

Cuts ==
    /\ ~InPlace(kind)
    /\ \A i \in DOMAIN archive' : i \in DOMAIN archive /\ archive'[i] = archive[i]

LEMMA WriterStep ==
    ASSUME WriteInv, NEW s \in Sessions, PyWriter(s)
    PROVE  /\ UNCHANGED kind
           /\ session[s] # "gone"
           /\ \A q \in Sessions : q # s => session'[q] = session[q] /\ spec'[q] = spec[q]
           /\ UNCHANGED archive \/ Cuts \/ \E r : Adds(s, r)
           /\ \/ session[s] = "open"
              \/ ~finished' /\ (InPlace(kind) \/ iteration # "run")
           /\ finished' => UNCHANGED finished \/ (~InPlace(kind) /\ session'[s] # "open")
<1>0. /\ session \in [Sessions -> {"none", "open", "gone"}] /\ DOMAIN spec = Sessions
      /\ archive \in Seq(RangeOf(archive)) /\ Len(archive) \in Nat
      /\ DOMAIN archive = 1 .. Len(archive)
  BY BagFacts DEF WriteInv, IInv, TypeOK
<1>1. CASE PyStart(s)
  <2>1. /\ session[s] = "none" /\ session' = [session EXCEPT ![s] = "open"]
        /\ \E sp \in Specs : spec' = [spec EXCEPT ![s] = sp]
        /\ archive' = IF InPlace(kind) THEN archive ELSE <<>>
        /\ finished' = FALSE /\ UNCHANGED kind
        /\ InPlace(kind) \/ iteration # "run"
    BY <1>1 DEF PyStart, Create
  <2>2. UNCHANGED archive \/ Cuts
    BY <2>1 DEF Cuts
  <2>3. \A q \in Sessions : q # s => session'[q] = session[q] /\ spec'[q] = spec[q]
    BY <1>0, <2>1
  <2>4. QED
    BY <2>1, <2>2, <2>3
<1>2. CASE PyWrite(s)
  <2>1. PICK e \in UserEntries : WriteEntry(s, e) \/ WriteEntryFails(s, e)
    BY <1>2 DEF PyWrite
  <2>2. session[s] = "open" /\ UNCHANGED <<kind, session, spec, finished>>
    BY <2>1 DEF WriteEntry, WriteEntryFails
  <2>3. UNCHANGED archive \/ \E r : Adds(s, r)
    <3>1. CASE WriteEntry(s, e)
      <4>1. PICK r : archive' = Append(archive, r) /\ r.by = s /\ r.index = {}
        BY <3>1, WrittenRecord DEF WriteEntry
      <4>2. QED
        BY <4>1 DEF Adds
    <3>2. CASE WriteEntryFails(s, e)
      BY <3>2 DEF WriteEntryFails
    <3>3. QED
      BY <2>1, <3>1, <3>2
  <2>4. QED
    BY <2>2, <2>3
<1>3. CASE PyClose(s)
  <2>1. /\ session[s] = "open" /\ session' = [session EXCEPT ![s] = "gone"]
        /\ finished' = ~InPlace(kind) /\ UNCHANGED <<kind, spec>>
        /\ WriteIndex(s) \/ UNCHANGED archive
    BY <1>3 DEF PyClose, Destroy
  <2>2. session'[s] = "gone" /\ \A q \in Sessions : q # s => session'[q] = session[q]
    BY <1>0, <2>1
  <2>3. UNCHANGED archive \/ \E r : Adds(s, r)
    <3>1. ASSUME NEW b \in indexer[s], NEW now \in IndexTimes, NEW idx \in Complete(b),
                 Write(s, CreateStamped(IndexTopic, now), {idx})
          PROVE  \E r : Adds(s, r)
      <4>1. PICK r : /\ archive' = Append(archive, r) /\ r.by = s /\ r.index = {idx}
                     /\ r.entry = CreateStamped(IndexTopic, now)
        BY <3>1, WrittenRecord
      <4>2. r.entry.type = "StampedMessage" /\ r.entry.stamp \in Int
        BY <4>1, WriteSessionAssumption DEF CreateStamped, MinTimestamp
      <4>3. QED
        BY <2>2, <4>1, <4>2 DEF Adds
    <3>2. QED
      BY <2>1, <3>1 DEF WriteIndex
  <2>4. QED
    BY <2>1, <2>2, <2>3
<1>4. CASE PyCrash(s)
  <2>1. CASE Crash(s)
    <3>1. /\ session[s] = "open" /\ session' = [session EXCEPT ![s] = "gone"]
          /\ finished' = ~InPlace(kind) /\ UNCHANGED <<kind, spec>>
      BY <2>1 DEF Crash
    <3>2. session'[s] = "gone" /\ \A q \in Sessions : q # s => session'[q] = session[q]
      BY <1>0, <3>1
    <3>3. UNCHANGED archive \/ Cuts
      <4>1. CASE InPlace(kind)
        BY <2>1, <4>1 DEF Crash
      <4>2. CASE ~InPlace(kind)
        <5>1. PICK n \in 0 .. Len(archive) : archive' = SubSeq(archive, 1, n)
          BY <2>1, <4>2 DEF Crash
        <5>2. DOMAIN archive' = 1 .. n /\ \A i \in 1 .. n : archive'[i] = archive[i]
          BY <1>0, <5>1, FirstPart
        <5>3. \A i \in 1 .. n : i \in DOMAIN archive
          BY <1>0
        <5>4. QED
          BY <4>2, <5>2, <5>3 DEF Cuts
      <4>3. QED
        BY <4>1, <4>2
    <3>4. QED
      BY <3>1, <3>2, <3>3
  <2>2. ASSUME NEW e \in UserEntries, CrashInWriteEntry(s, e)
        PROVE  /\ UNCHANGED <<kind, spec>>
               /\ session[s] = "open" /\ session' = [session EXCEPT ![s] = "gone"]
               /\ finished' = ~InPlace(kind) /\ \E r : Adds(s, r)
    <3>1. PICK r : archive' = Append(archive, r) /\ r.by = s /\ r.index = {}
      BY <2>2, WrittenRecord DEF CrashInWriteEntry
    <3>2. QED
      BY <2>2, <3>1 DEF CrashInWriteEntry, Adds
  <2>3. ASSUME NEW e \in UserEntries, CrashInWriteEntry(s, e)
        PROVE  \A q \in Sessions : q # s => session'[q] = session[q]
    BY <1>0, <2>2, <2>3
  <2>4. session' = [session EXCEPT ![s] = "gone"] => session'[s] = "gone"
    BY <1>0
  <2>5. QED
    BY <1>4, <2>1, <2>2, <2>3, <2>4 DEF PyCrash
<1>5. QED
  BY <1>1, <1>2, <1>3, <1>4 DEF PyWriter

LEMMA AddedRecord ==
    ASSUME WriteInv, NEW r, archive' = Append(archive, r)
    PROVE  /\ \A i \in DOMAIN archive : i \in DOMAIN archive' /\ archive'[i] = archive[i]
           /\ \A i \in DOMAIN archive' :
                \/ i \in DOMAIN archive /\ archive'[i] = archive[i]
                \/ i \notin DOMAIN archive /\ archive'[i] = r
<1>1. /\ Len(archive) \in Nat
      /\ DOMAIN archive = 1 .. Len(archive) /\ DOMAIN archive' = 1 .. Len(archive) + 1
      /\ \A i \in 1 .. Len(archive) : archive'[i] = archive[i]
      /\ archive'[Len(archive) + 1] = r
  BY AppendRecord DEF WriteInv, IInv, TypeOK
<1>2. QED
  BY <1>1

LEMMA StepKeepsGone == WriteInv /\ GoneInv /\ [NextBag]_bagvars => GoneInv'
<1> SUFFICES ASSUME WriteInv, GoneInv, [NextBag]_bagvars PROVE GoneInv'
  OBVIOUS
<1>1. ASSUME NEW s \in Sessions, PyWriter(s) PROVE GoneInv'
  <2>1. /\ UNCHANGED kind
        /\ session[s] # "gone"
        /\ \A q \in Sessions : q # s => session'[q] = session[q]
        /\ UNCHANGED archive \/ Cuts \/ \E r : Adds(s, r)
        /\ session[s] = "open" \/ ~finished'
        /\ finished' => UNCHANGED finished \/ (~InPlace(kind) /\ session'[s] # "open")
    BY <1>1, WriterStep
  <2>2. finished' => ~InPlace(kind)' /\ \A q \in Sessions : session'[q] # "open"
    <3> SUFFICES ASSUME finished'
                 PROVE  ~InPlace(kind)' /\ \A q \in Sessions : session'[q] # "open"
      OBVIOUS
    <3>1. session[s] = "open" /\ ~InPlace(kind) /\ session'[s] # "open"
      BY <2>1 DEF GoneInv
    <3>2. \A q \in Sessions : q # s => session[q] # "open"
      BY <3>1 DEF WriteInv, IInv, OneWriter
    <3>3. QED
      BY <2>1, <3>1, <3>2 DEF InPlace
  <2>3. \A i \in DOMAIN archive : archive[i].index # {} =>
          IndexOfGone(archive[i], session) /\ archive[i].by # s /\ archive[i].by \in Sessions
    BY <2>1, BagFacts DEF GoneInv, IndexOfGone
  <2>4. ASSUME NEW i \in DOMAIN archive', archive'[i].index # {}
        PROVE  IndexOfGone(archive'[i], session')
    <3>1. CASE i \in DOMAIN archive /\ archive'[i] = archive[i]
      BY <2>1, <2>3, <2>4, <3>1 DEF IndexOfGone
    <3>2. ASSUME NEW r, Adds(s, r), archive'[i] = r
          PROVE  IndexOfGone(archive'[i], session')
      BY <2>4, <3>2 DEF Adds, IndexOfGone
    <3>3. ASSUME NEW r, Adds(s, r)
          PROVE  (i \in DOMAIN archive /\ archive'[i] = archive[i]) \/ archive'[i] = r
      BY <3>3, AddedRecord DEF Adds
    <3>4. QED
      BY <2>1, <3>1, <3>2, <3>3 DEF Cuts
  <2>5. QED
    BY <2>2, <2>4 DEF GoneInv
<1>2. CASE UNCHANGED vars
  BY <1>2 DEF vars, GoneInv, IndexOfGone
<1>3. CASE UNCHANGED bagvars
  BY <1>2, <1>3 DEF bagvars
<1>4. QED
  BY <1>1, <1>2, <1>3, ReadingLeavesTheBag DEF NextBag

-----------------------------------------------------------------------------
(* What an iteration meets: the bag only grows, and those who still write  *)
(* are not those whose index it was given.                                 *)
Grows ==
    /\ UNCHANGED kind
    /\ \A i \in DOMAIN archive : i \in DOMAIN archive' /\ archive'[i] = archive[i]
    /\ \A i \in DOMAIN archive' :
         i \notin DOMAIN archive => InPlace(kind) /\ session[archive'[i].by] # "gone"
    /\ \A q \in Sessions : session[q] = "gone" => session'[q] = "gone" /\ spec'[q] = spec[q]

Settled == iteration = "run" => InPlace(kind) \/ finished

LEMMA StepGrows ==
    ASSUME WriteInv, GoneInv, Settled, iteration # "none", [NextBag]_bagvars
    PROVE  Grows
<1>1. ASSUME NEW s \in Sessions, PyWriter(s) PROVE Grows
  <2>1. iteration = "run"
    BY <1>1 DEF PyWriter
  <2>2. /\ UNCHANGED kind
        /\ session[s] # "gone"
        /\ \A q \in Sessions : q # s => session'[q] = session[q] /\ spec'[q] = spec[q]
        /\ UNCHANGED archive \/ Cuts \/ \E r : Adds(s, r)
        /\ session[s] = "open" \/ InPlace(kind) \/ iteration # "run"
    BY <1>1, WriterStep
  <2>3. InPlace(kind)
    BY <2>1, <2>2 DEF Settled, GoneInv
  <2>4. CASE UNCHANGED archive
    BY <2>2, <2>4 DEF Grows
  <2>5. ASSUME NEW r, Adds(s, r) PROVE Grows
    BY <2>2, <2>3, <2>5, AddedRecord DEF Adds, Grows
  <2>6. QED
    BY <2>2, <2>3, <2>4, <2>5 DEF Cuts
<1>2. CASE UNCHANGED vars
  BY <1>2 DEF vars, Grows
<1>3. CASE UNCHANGED bagvars
  BY <1>2, <1>3 DEF bagvars
<1>4. QED
  BY <1>1, <1>2, <1>3, ReadingLeavesTheBag DEF NextBag

(* The factory has what the index of a session that has gone pins.         *)
LastPinned(f, n, i) ==
    /\ archive[i].name = n /\ f.types[n] = archive[i].entry.msg
    /\ \A j \in Pinned(f.by) : archive[j].name = n => j <= i

FactoryOK(f) ==
    /\ f.by \in Sessions /\ session[f.by] = "gone"
    /\ \E i \in DOMAIN archive : archive[i].by = f.by /\ archive[i].index # {}
    /\ \A i \in Pinned(f.by) : archive[i].name \in DOMAIN f.types
    /\ \A n \in DOMAIN f.types : \E i \in Pinned(f.by) : LastPinned(f, n, i)

LEMMA FactoryStays ==
    ASSUME NEW f, FactoryOK(f), Grows
    PROVE  FactoryOK(f)'
<1>1. Pinned(f.by)' = Pinned(f.by)
  BY DEF Pinned, FactoryOK, Grows
<1>2. \A i \in Pinned(f.by) : archive'[i] = archive[i]
  BY DEF Pinned, Grows
<1>3. \A n, i : i \in Pinned(f.by) /\ LastPinned(f, n, i) => LastPinned(f, n, i)'
  BY <1>1, <1>2 DEF LastPinned
<1>4. QED
  BY <1>1, <1>2, <1>3 DEF FactoryOK, Grows

LEMMA IndexRecords ==
    ASSUME NEW r \in Reader!IndexEntries
    PROVE  \E i \in DOMAIN archive : r = archive[i] /\ archive[i].index # {}
BY DEF Reader!IndexEntries, Reader!ReadAsStr

LEMMA NewFactoryOK ==
    ASSUME WriteInv, GoneInv, NEW r \in LatestIndexes, NEW f, f = DescriptorPoolData(r.by)
    PROVE  FactoryOK(f)
<1>1. PICK i \in DOMAIN archive : r = archive[i] /\ archive[i].index # {}
  BY IndexRecords DEF LatestIndexes
<1>2. /\ f.by = r.by /\ r.by \in Sessions /\ session[r.by] = "gone"
      /\ DOMAIN archive = 1 .. Len(archive) /\ Len(archive) \in Nat
  BY <1>1, BagFacts DEF DescriptorPoolData, GoneInv, IndexOfGone
<1>3. /\ DOMAIN f.types = {archive[j].name : j \in Pinned(r.by)}
      /\ \A n \in DOMAIN f.types : f.types[n] = archive[LastPin(n, Pinned(r.by))].entry.msg
  BY DEF DescriptorPoolData
<1>4. ASSUME NEW n \in DOMAIN f.types
      PROVE  \E j \in Pinned(r.by) : LastPinned(f, n, j)
  <2> DEFINE log == Pinned(r.by)
             S == {j \in log : archive[j].name = n}
  <2>1. S \in SUBSET (1 .. Len(archive)) /\ S # {}
    BY <1>2, <1>3, <1>4 DEF Pinned
  <2>2. PICK j \in S : \A k \in S : k <= j
    <3> HIDE DEF S
    <3> QED
      BY <1>2, <2>1, GreatestElement
  <2>3. \E k \in log :
          archive[k].name = n /\ \A l \in log : archive[l].name = n => l <= k
    BY <2>2
  <2>4. LastPin(n, log) \in log
        /\ archive[LastPin(n, log)].name = n
        /\ \A l \in log : archive[l].name = n => l <= LastPin(n, log)
    <3> HIDE DEF log
    <3> QED
      BY <2>3 DEF LastPin
  <2>5. QED
    BY <1>2, <1>3, <2>4 DEF LastPinned
<1>5. QED
  BY <1>1, <1>2, <1>3, <1>4 DEF FactoryOK

-----------------------------------------------------------------------------
(* The phases of an iteration.                                             *)
IterInv ==
    /\ iteration \in {"none", "run", "ended", "raised"}
    /\ Settled
    /\ selection \in Selections
    /\ iteration = "none" => serdes = {} /\ pc = "idle" /\ ~started
    /\ pc \in {"idle", "plan", "next"}
    /\ (pc = "next" => started) /\ (pc = "plan" => ~started)
    /\ ~started \/ iteration = "none" => results = <<>>
    /\ iteration \in {"run", "ended"} => serdes # {}
    /\ \A f \in serdes : serdes = {f} /\ FactoryOK(f)
    /\ iteration # "none" =>
         \A i \in DOMAIN begun : i \in DOMAIN archive /\ archive[i] = begun[i]
    /\ results \in Seq(RangeOf(results))
    /\ answers \in Seq(RangeOf(answers))
    /\ Len(results) <= Len(answers)

Answers(status, name, e) ==
    /\ answers' = Append(answers, Reader!Answer(status, name, e))
    /\ pc' = "idle" /\ UNCHANGED started

(* GetNext generates at most what it answers.                              *)
GetNextEffect ==
    /\ iteration = "run" /\ iteration' \in {"run", "ended", "raised"}
    /\ UNCHANGED <<vars, selection, serdes, begun>>
    /\ pc' \in {"idle", "plan", "next"}
    /\ (pc' = "next" => started') /\ (pc' = "plan" => ~started')
    /\ started' = started \/ started'
    /\ \/ UNCHANGED <<answers, results>>
       \/ \E status, name, e : Answers(status, name, e) /\ UNCHANGED results
       \/ /\ started
          /\ \E status, name, e : Answers(status, name, e)
          /\ \E r : results' = Append(results, r)

LEMMA GetNextDoes ==
    ASSUME IterInv, GetNext
    PROVE  GetNextEffect
<1>1. CASE GetNextPlans
  <2>1. CASE Reader!Call
    BY <1>1, <2>1 DEF GetNextPlans, Reader!Call, Reader!NeedsPlan, GetNextEffect
  <2>2. CASE Reader!Plan
    BY <1>1, <2>2 DEF GetNextPlans, Reader!Plan, GetNextEffect
  <2>3. CASE Reader!Skip
    BY <1>1, <2>3 DEF GetNextPlans, Reader!Skip, GetNextEffect, IterInv
  <2>4. QED
    BY <1>1, <2>1, <2>2, <2>3 DEF GetNextPlans
<1>2. CASE GetNextEntry
  <2>1. /\ iteration = "run" /\ pc = "next" /\ UNCHANGED <<vars, serdes, begun>>
        /\ UNCHANGED <<selection, started>>
    BY <1>2 DEF GetNextEntry, Reader!ReadEntry
  <2>2. \E status, name, e : Answers(status, name, e)
    BY <1>2 DEF GetNextEntry, Reader!ReadEntry, Reader!Return, Answers
  <2>3. /\ iteration' \in {"run", "raised"}
        /\ UNCHANGED results \/ \E r : results' = Append(results, r)
    BY <1>2, <2>1 DEF GetNextEntry, FromNentry, Generate, Raise
  <2>4. pc' = "idle"
    BY <2>2 DEF Answers
  <2>5. started
    BY <2>1 DEF IterInv
  <2>6. QED
    BY <2>1, <2>2, <2>3, <2>4, <2>5 DEF GetNextEffect
<1>3. CASE GetNextThrows
  <2>1. /\ iteration = "run" /\ iteration' = "raised" /\ UNCHANGED <<vars, serdes, begun, results>>
        /\ UNCHANGED <<selection, started>>
    BY <1>3 DEF GetNextThrows, Raise, Reader!ReadError, Reader!PlanFails
  <2>2. \E status, name, e : Answers(status, name, e)
    BY <1>3 DEF GetNextThrows, Reader!ReadError, Reader!PlanFails, Reader!Return, Answers
  <2>3. pc' = "idle"
    BY <2>2 DEF Answers
  <2>4. QED
    BY <2>1, <2>2, <2>3 DEF GetNextEffect
<1>4. CASE GetNextNone
  <2>1. /\ iteration = "run" /\ iteration' = "ended" /\ UNCHANGED <<vars, serdes, begun, results>>
        /\ UNCHANGED <<selection, started>>
    BY <1>4 DEF GetNextNone, Reader!EndOfSequence, Reader!NotFound
  <2>2. \E status, name, e : Answers(status, name, e)
    BY <1>4 DEF GetNextNone, Reader!EndOfSequence, Reader!NotFound, Reader!Return, Answers
  <2>3. pc' = "idle"
    BY <2>2 DEF Answers
  <2>4. QED
    BY <2>1, <2>2, <2>3 DEF GetNextEffect
<1>5. QED
  BY <1>1, <1>2, <1>3, <1>4 DEF GetNext

LEMMA InitIterInv == InitBag => IterInv
<1> SUFFICES ASSUME InitBag PROVE IterInv
  OBVIOUS
<1>1. <<>> \in Seq(RangeOf(<<>>)) /\ Len(<<>>) = 0
  BY EmptySeq
<1>2. QED
  BY <1>1 DEF InitBag, IterInv, Settled

LEMMA StepKeepsIter ==
    WriteInv /\ GoneInv /\ IterInv /\ [NextBag]_bagvars => IterInv'
<1> SUFFICES ASSUME WriteInv, GoneInv, IterInv, [NextBag]_bagvars PROVE IterInv'
  OBVIOUS
<1>0. iteration # "none" => Grows
  BY StepGrows DEF IterInv
<1>1. iteration # "none" => \A f \in serdes : FactoryOK(f)'
  BY <1>0, FactoryStays DEF IterInv
<1>2. iteration # "none" /\ UNCHANGED begun =>
        \A i \in DOMAIN begun' : i \in DOMAIN archive' /\ archive'[i] = begun'[i]
  BY <1>0 DEF IterInv, Grows
<1>3. ASSUME NEW s \in Sessions, PyWriter(s) PROVE IterInv'
  <2>1. /\ UNCHANGED <<selection, pc, started, plan, answers, index>>
        /\ UNCHANGED <<serdes, iteration, results, begun>>
    BY <1>3 DEF PyWriter, readvars
  <2>2. Settled'
    <3>1. /\ UNCHANGED kind
          /\ session[s] = "open" \/ (~finished' /\ (InPlace(kind) \/ iteration # "run"))
      BY <1>3, WriterStep
    <3>2. iteration = "run" => InPlace(kind)
      BY <3>1 DEF GoneInv, IterInv, Settled
    <3>3. QED
      BY <2>1, <3>1, <3>2 DEF Settled, InPlace
  <2>3. QED
    BY <2>1, <2>2, <1>1, <1>2 DEF IterInv
<1>4. CASE IterEntries
  <2>1. /\ iteration = "none" /\ begun' = archive /\ Visible = archive
        /\ UNCHANGED <<vars, selection, pc, started, plan, answers, index, results>>
    BY <1>4 DEF IterEntries, readvars
  <2>2. CASE LatestIndexes = {} /\ iteration' = "raised" /\ UNCHANGED serdes
    BY <2>1, <2>2 DEF IterInv, Settled, vars
  <2>3. CASE RegisterDynamicTypesFromIndex /\ iteration' = "run"
    <3>1. PICK r \in LatestIndexes : serdes' = {DescriptorPoolData(r.by)}
      BY <2>3 DEF RegisterDynamicTypesFromIndex
    <3>2. PICK f : f = DescriptorPoolData(r.by)
      OBVIOUS
    <3>3. FactoryOK(f)
      BY <3>2, NewFactoryOK
    <3>4. FactoryOK(f)'
      BY <2>1, <3>3 DEF vars, FactoryOK, LastPinned, Pinned
    <3>5. InPlace(kind) \/ finished
      <4>1. \E i \in DOMAIN archive : TRUE
        BY IndexRecords DEF LatestIndexes
      <4>2. archive # <<>>
        BY <4>1
      <4>3. QED
        BY <2>1, <4>2 DEF Visible
    <3>6. Settled'
      BY <2>1, <3>5 DEF vars, Settled, InPlace
    <3>7. QED
      BY <2>1, <2>3, <3>1, <3>2, <3>4, <3>6 DEF IterInv, vars
  <2>4. QED
    BY <1>4, <2>2, <2>3 DEF IterEntries
<1>5. CASE IterElsewhere
  <2>1. /\ iteration = "run"
        /\ UNCHANGED <<vars, selection, pc, started, plan, answers, index>>
        /\ UNCHANGED <<iteration, results, begun>>
    BY <1>5 DEF IterElsewhere, readvars
  <2>2. PICK r \in LatestIndexes : serdes' = {DescriptorPoolData(r.by)}
    BY <1>5 DEF IterElsewhere, RegisterDynamicTypesFromIndex
  <2>3. PICK f : f = DescriptorPoolData(r.by)
    OBVIOUS
  <2>4. FactoryOK(f)'
    BY <2>1, <2>3, <1>0, NewFactoryOK, FactoryStays
  <2>5. Settled'
    BY <2>1 DEF IterInv, vars, Settled, InPlace
  <2>6. QED
    BY <2>1, <2>2, <2>3, <2>4, <2>5, <1>2 DEF IterInv
<1>6. CASE GetNext
  <2>1. GetNextEffect
    BY <1>6, GetNextDoes
  <2>2. Settled'
    BY <2>1 DEF GetNextEffect, IterInv, vars, Settled, InPlace
  <2>3. /\ results' \in Seq(RangeOf(results')) /\ answers' \in Seq(RangeOf(answers'))
        /\ Len(results') <= Len(answers')
    <3>1. Len(results) \in Nat /\ Len(answers) \in Nat
      BY DEF IterInv
    <3>2. \A a : answers' = Append(answers, a) =>
            answers' \in Seq(RangeOf(answers')) /\ Len(answers') = Len(answers) + 1
      BY AppendRecord DEF IterInv
    <3>3. \A a : results' = Append(results, a) =>
            results' \in Seq(RangeOf(results')) /\ Len(results') = Len(results) + 1
      BY AppendRecord DEF IterInv
    <3>4. QED
      BY <2>1, <3>1, <3>2, <3>3 DEF GetNextEffect, Answers, IterInv
  <2>4. ~started' => results' = <<>>
    BY <2>1 DEF GetNextEffect, Answers, IterInv
  <2>5. QED
    BY <2>1, <2>2, <2>3, <2>4, <1>1, <1>2 DEF GetNextEffect, IterInv
<1>7. CASE UNCHANGED bagvars
  <2>1. /\ UNCHANGED <<selection, pc, started, plan, answers, index>>
        /\ UNCHANGED <<serdes, iteration, results, begun, kind, finished>>
    BY <1>7 DEF bagvars, readvars, vars
  <2>2. QED
    BY <2>1, <1>1, <1>2 DEF IterInv, Settled, InPlace
<1>8. QED
  BY <1>3, <1>4, <1>5, <1>6, <1>7 DEF NextBag

BInv == WriteInv /\ GoneInv /\ IterInv

LEMMA InitBInv == InitBag => BInv
<1>1. InitBag => GoneInv
  BY DEF InitBag, Init, GoneInv
<1>2. QED
  BY <1>1, InitWriteInv, InitIterInv DEF BInv

LEMMA StepKeepsBInv == BInv /\ [NextBag]_bagvars => BInv'
BY StepKeepsWriteInv, StepKeepsGone, StepKeepsIter DEF BInv

(* Whoever writes, iterates or crashes, Protobag has at most one factory,  *)
(* it has one while it iterates, and that is of an index in the bag.       *)
THEOREM BagsAreWellTyped == SpecBag => []BagTypeOK
<1>1. BInv => BagTypeOK
  <2> SUFFICES ASSUME BInv PROVE BagTypeOK
    OBVIOUS
  <2>1. Cardinality(serdes) <= 1
    <3>1. CASE serdes = {}
      BY <3>1, FS_EmptySet
    <3>2. ASSUME NEW f \in serdes PROVE Cardinality(serdes) = 1
      BY <3>2, FS_Singleton DEF BInv, IterInv
    <3>3. QED
      BY <3>1, <3>2
  <2>2. \A f \in serdes : f.by \in Sessions /\ archive # <<>>
    BY DEF BInv, IterInv, FactoryOK
  <2>3. QED
    BY <2>1, <2>2 DEF BInv, IterInv, BagTypeOK
<1>2. QED
  BY InitBInv, StepKeepsBInv, <1>1, PTL DEF SpecBag

-----------------------------------------------------------------------------
(* What is generated keeps its type, and names that are ambiguous stay so. *)

LEMMA AmbiguousStays ==
    ASSUME NEW name, Grows, Ambiguous(name)
    PROVE  Ambiguous(name)'
<1>1. \A i \in Records(name) : i \in Records(name)' /\ archive'[i] = archive[i]
  BY DEF Records, Grows
<1>2. InPlace(kind)' = InPlace(kind)
  BY DEF Grows, InPlace
<1>3. QED
  BY <1>1, <1>2 DEF Ambiguous

(* Of a name that is not ambiguous, the type that the factory has is that  *)
(* of the record that is read: in a directory both are the last.           *)
LEMMA PinnedTypeFits ==
    ASSUME BInv, NEW name, NEW r \in ReadAsStr(kind, archive, name),
           NEW f \in serdes, name \in DOMAIN f.types, ~Ambiguous(name)
    PROVE  f.types[name] = r.entry.msg /\ f.by = r.by
<1>1. FactoryOK(f)
  BY DEF BInv, IterInv
<1>2. PICK i \in Pinned(f.by) : LastPinned(f, name, i)
  BY <1>1 DEF FactoryOK
<1>3. PICK j \in DOMAIN archive :
        /\ r = archive[j] /\ SameEntry(kind, archive[j].name, name)
        /\ \A k \in DOMAIN archive :
             SameEntry(kind, archive[k].name, name) =>
                IF InPlace(kind) THEN k <= j ELSE j <= k
  BY DEF ReadAsStr
<1>4. /\ i \in DOMAIN archive /\ archive[i].by = f.by /\ archive[i].index = {}
      /\ archive[i].name = name /\ Pins(archive[i].entry) /\ spec[f.by].descriptors
      /\ f.types[name] = archive[i].entry.msg
  BY <1>2 DEF Pinned, LastPinned
<1>5. i \in Records(name) /\ j \in Records(name)
  BY <1>3, <1>4 DEF Records, SameEntry
<1>6. /\ archive[j].by = f.by /\ (Pins(archive[j].entry) = Pins(archive[i].entry))
      /\ archive[j].name = name
      /\ ~InPlace(kind) => archive[j].entry.msg = archive[i].entry.msg
  BY <1>4, <1>5 DEF Ambiguous
<1>7. CASE ~InPlace(kind)
  BY <1>3, <1>4, <1>6, <1>7
<1>8. CASE InPlace(kind)
  <2>1. archive[j].index = {}
    <3>1. NamedOK(archive[i]) /\ NamedOK(archive[j])
      BY <1>4, BagFacts DEF BInv
    <3>2. archive[i].name.topic.base # IndexTopic.base
      BY <1>4, <3>1 DEF NamedOK
    <3>3. archive[j].name = archive[i].name
      BY <1>4, <1>6
    <3>4. ASSUME archive[j].index # {} PROVE archive[j].name.topic = IndexTopic
      <4>1. PICK t \in IndexTimes : archive[j].name = StampedName(IndexTopic, t)
        BY <3>1, <3>4 DEF NamedOK
      <4>2. QED
        BY <4>1 DEF StampedName
    <3>5. QED
      BY <3>2, <3>3, <3>4
  <2>2. j \in Pinned(f.by)
    BY <1>4, <1>6, <2>1 DEF Pinned
  <2>3. j <= i /\ i <= j
    BY <1>2, <1>3, <1>4, <1>6, <1>8, <2>2 DEF LastPinned, SameEntry
  <2>4. i = j
    BY <1>3, <1>4, <2>3, BagFacts DEF BInv
  <2>5. QED
    BY <1>3, <1>4, <2>4
<1>9. QED
  BY <1>7, <1>8

DecodedOK(res) ==
    res.type \notin {"none", "BagIndex"} /\ ~Ambiguous(res.name) =>
        res.type = res.record.entry.msg /\ res.by = res.record.by

LEMMA GeneratedDecodes ==
    ASSUME BInv, GetNextEntry, ~UNCHANGED results
    PROVE  \E res : /\ results' = Append(results, res) /\ iteration' = "run"
                    /\ res.name = Head(plan.entries_to_read)
                    /\ res.record \in ReadAsStr(kind, archive, res.name)
                    /\ DecodedOK(res)
<1> DEFINE name == Head(plan.entries_to_read)
<1>1. PICK r \in ReadAsStr(kind, archive, name) : FromNentry(name, r)
  BY DEF GetNextEntry
<1>2. iteration = "run"
  BY DEF GetNextEntry
<1>3. ASSUME NEW type, NEW by, Generate(name, r, type, by),
             type \notin {"none", "BagIndex"} /\ ~Ambiguous(name) =>
                type = r.entry.msg /\ by = r.by
      PROVE  \E res : /\ results' = Append(results, res) /\ iteration' = "run"
                      /\ res.name = name
                      /\ res.record \in ReadAsStr(kind, archive, res.name)
                      /\ DecodedOK(res)
  <2> DEFINE res == [name |-> name, record |-> r, type |-> type, by |-> by]
  <2>1. results' = Append(results, res) /\ iteration' = "run"
    BY <1>2, <1>3 DEF Generate
  <2>2. res.name = name /\ res.record = r /\ res.type = type /\ res.by = by
    OBVIOUS
  <2> HIDE DEF res
  <2>3. QED
    BY <1>3, <2>1, <2>2 DEF DecodedOK
<1>4. CASE Generate(name, r, TypeUrl(r), r.by)
  <2>1. TypeUrl(r) \in {"none", "BagIndex"} \/ TypeUrl(r) = r.entry.msg
    BY DEF TypeUrl
  <2>2. QED
    BY <1>3, <1>4, <2>1
<1>5. ASSUME NEW f \in serdes, name \in DOMAIN f.types, Generate(name, r, f.types[name], f.by)
      PROVE  \E res : /\ results' = Append(results, res) /\ iteration' = "run"
                      /\ res.name = name
                      /\ res.record \in ReadAsStr(kind, archive, res.name)
                      /\ DecodedOK(res)
  BY <1>1, <1>3, <1>5, PinnedTypeFits
<1>6. QED
  BY <1>1, <1>4, <1>5 DEF FromNentry, Raise

LEMMA StepKeepsDecoded ==
    BInv /\ DecodedAsWritten /\ [NextBag]_bagvars => DecodedAsWritten'
<1> SUFFICES ASSUME BInv, DecodedAsWritten, [NextBag]_bagvars PROVE DecodedAsWritten'
  OBVIOUS
<1>0. iteration # "none" => Grows
  BY StepGrows DEF BInv, IterInv
<1>1. \A k \in DOMAIN results : DecodedOK(results[k])
  BY DEF DecodedAsWritten, DecodedOK
<1>2. ASSUME NEW res, DecodedOK(res), iteration # "none" PROVE DecodedOK(res)'
  BY <1>0, <1>2, AmbiguousStays DEF DecodedOK
<1>3. CASE UNCHANGED results
  <2>1. CASE iteration = "none"
    BY <1>3, <2>1 DEF BInv, IterInv, DecodedAsWritten
  <2>2. CASE iteration # "none"
    <3>1. \A k \in DOMAIN results' : \E q : q = results'[k] /\ DecodedOK(q)'
      BY <1>1, <1>2, <1>3, <2>2
    <3>2. QED
      BY <3>1 DEF DecodedAsWritten, DecodedOK
  <2>3. QED
    BY <2>1, <2>2
<1>4. CASE GetNextEntry /\ ~UNCHANGED results
  <2>1. PICK res : results' = Append(results, res) /\ DecodedOK(res)
    BY <1>4, GeneratedDecodes
  <2>2. /\ Len(results) \in Nat /\ DOMAIN results = 1 .. Len(results)
        /\ DOMAIN results' = 1 .. Len(results) + 1
        /\ \A k \in 1 .. Len(results) : results'[k] = results[k]
        /\ results'[Len(results) + 1] = res
    BY <2>1, AppendRecord DEF BInv, IterInv
  <2>3. iteration # "none"
    BY <1>4 DEF GetNextEntry
  <2>4. \A k \in DOMAIN results' : DecodedOK(results'[k])
    BY <1>1, <2>1, <2>2
  <2>5. \A k \in DOMAIN results' : \E q : q = results'[k] /\ DecodedOK(q)'
    BY <1>2, <2>3, <2>4
  <2>6. QED
    BY <2>5 DEF DecodedAsWritten, DecodedOK
<1>5. UNCHANGED results \/ GetNextEntry
  <2>1. ASSUME NEW s \in Sessions, PyWriter(s) PROVE UNCHANGED results
    BY <2>1 DEF PyWriter
  <2>2. CASE IterEntries \/ IterElsewhere
    BY <2>2 DEF IterEntries, IterElsewhere
  <2>3. CASE GetNextPlans \/ GetNextThrows \/ GetNextNone
    BY <2>3 DEF GetNextPlans, GetNextThrows, GetNextNone, Raise
  <2>4. CASE UNCHANGED bagvars
    BY <2>4 DEF bagvars
  <2>5. QED
    BY <2>1, <2>2, <2>3, <2>4 DEF NextBag, GetNext
<1>6. QED
  BY <1>3, <1>4, <1>5

(* An entry is decoded as what its record is, with the definitions of the  *)
(* program that wrote it, whatever is written meanwhile and however often  *)
(* the types are registered anew, unless its name is ambiguous.            *)
THEOREM EntriesDecodeAsWritten == SpecBag => []DecodedAsWritten
<1>1. InitBag => DecodedAsWritten
  BY DEF InitBag, DecodedAsWritten
<1>2. QED
  BY InitBInv, StepKeepsBInv, StepKeepsDecoded, <1>1, PTL DEF SpecBag

-----------------------------------------------------------------------------
(* The ReadSession reads archives as they are written here.                *)

LEMMA ReaderReads ==
    ASSUME NEW n
    PROVE  Reader!ReadAsStr(kind, archive, n) = ReadAsStr(kind, archive, n)
BY DEF Reader!ReadAsStr, ReadAsStr, Reader!SameEntry, SameEntry, Reader!InPlace, InPlace,
       Reader!CanonEntryname, CanonEntryname

LEMMA ReaderSublist ==
    ASSUME NEW list, NEW S
    PROVE  Reader!Sublist(list, S) = Sublist(list, S)
BY DEF Reader!Sublist, Sublist, Reader!Cardinality, Cardinality

LEMMA ReaderNamelist == Reader!GetNamelist(kind, archive) = GetNamelist(kind, archive)
BY DEF Reader!GetNamelist, GetNamelist, Reader!NamesIn, NamesIn, Reader!InPlace, InPlace,
       Reader!Listed, Listed, Reader!Cardinality, Cardinality

Names == [topic : [rooted : BOOLEAN, base : Nat], leaf : Int]

LEMMA ListedName ==
    ASSUME NEW n \in Names
    PROVE  /\ Listed(n) \in Names /\ Listed(Listed(n)) = Listed(n)
           /\ CanonEntryname(Listed(n)) = CanonEntryname(n)
BY DEF Names, Listed, CanonEntryname

(* Names that a directory lists are the same if they are the same entry.   *)
LEMMA ListedOnce ==
    ASSUME NEW n \in Names, NEW m \in Names, Listed(n) = n, Listed(m) = m,
           CanonEntryname(n) = CanonEntryname(m)
    PROVE  n = m
<1>1. n.topic.rooted = TRUE /\ m.topic.rooted = TRUE
  BY DEF Names, Listed
<1>2. n.leaf = m.leaf /\ n.topic.base = m.topic.base
  BY DEF Names, CanonEntryname
<1>3. n.topic \in [rooted : BOOLEAN, base : Nat] /\ m.topic \in [rooted : BOOLEAN, base : Nat]
  BY DEF Names
<1>4. n.topic = m.topic
  BY <1>1, <1>2, <1>3
<1>5. QED
  BY <1>2, <1>4 DEF Names

LEMMA NamesAreFinite ==
    ASSUME WriteInv
    PROVE  IsFiniteSet(NamesIn(kind, archive))
<1> DEFINE Name(i) == IF InPlace(kind) THEN Listed(archive[i].name) ELSE archive[i].name
           names == NamesIn(kind, archive)
           f == [i \in DOMAIN archive |-> Name(i)]
<1>1. names = {Name(i) : i \in DOMAIN archive}
  BY DEF NamesIn
<1>2. IsFiniteSet(DOMAIN archive)
  BY BagFacts, FS_Interval
<1> HIDE DEF Name
<1>3. f \in [DOMAIN archive -> names] /\ \A n \in names : \E i \in DOMAIN archive : f[i] = n
  BY <1>1
<1> HIDE DEF f, names
<1>4. f \in Surjection(DOMAIN archive, names)
  BY <1>3 DEF Surjection
<1>5. QED
  BY <1>2, <1>4, FS_Surjection DEF names

LEMMA NamelistFacts ==
    ASSUME WriteInv, NEW list \in GetNamelist(kind, archive)
    PROVE  /\ list \in Seq(Names) /\ RangeOf(list) = NamesIn(kind, archive)
           /\ \A n \in RangeOf(list) : InPlace(kind) => Listed(n) = n
           /\ \A n \in RangeOf(list) : \E i \in DOMAIN archive :
                SameEntry(kind, archive[i].name, n)
           /\ \A i \in DOMAIN archive : \E n \in RangeOf(list) :
                SameEntry(kind, n, archive[i].name)
<1>1. /\ archive \in Seq(RangeOf(archive)) /\ Len(archive) \in Nat
      /\ DOMAIN archive = 1 .. Len(archive)
      /\ \A i \in DOMAIN archive : archive[i].name \in Names
  BY BagFacts DEF NamedOK, Names
<1> DEFINE Name(i) == IF InPlace(kind) THEN Listed(archive[i].name) ELSE archive[i].name
<1>2. NamesIn(kind, archive) = {Name(i) : i \in DOMAIN archive}
  BY DEF NamesIn
<1>3. \A i \in DOMAIN archive :
        /\ Name(i) \in Names /\ (InPlace(kind) => Listed(Name(i)) = Name(i))
        /\ SameEntry(kind, archive[i].name, Name(i)) /\ SameEntry(kind, Name(i), archive[i].name)
  BY <1>1, ListedName DEF SameEntry
<1> HIDE DEF Name
<1>4. list \in Seq(Names) /\ RangeOf(list) = NamesIn(kind, archive)
  <2>1. CASE InPlace(kind)
    <3> DEFINE names == NamesIn(kind, archive)
    <3>2. IsFiniteSet(names)
      BY NamesAreFinite
    <3>3. Cardinality(names) \in Nat
      BY <3>2, FS_CardinalityType
    <3>4. /\ list \in [1 .. Cardinality(names) -> names]
          /\ \A n \in names : \E i \in DOMAIN list : list[i] = n
      BY <2>1 DEF GetNamelist
    <3>5. names \subseteq Names
      BY <1>2, <1>3
    <3> HIDE DEF names
    <3>6. list \in Seq(Names)
      BY <3>3, <3>4, <3>5
    <3>7. RangeOf(list) = names
      BY <3>4 DEF RangeOf
    <3>8. QED
      BY <3>6, <3>7 DEF names
  <2>2. CASE ~InPlace(kind)
    <3>1. list = [i \in 1 .. Len(archive) |-> archive[i].name]
      BY <1>1, <2>2 DEF GetNamelist
    <3>2. list \in [1 .. Len(archive) -> Names]
      BY <1>1, <3>1
    <3>3. list \in Seq(Names)
      BY <1>1, <3>2
    <3>4. \A i \in DOMAIN archive : Name(i) = list[i]
      BY <1>1, <2>2, <3>1 DEF Name
    <3>5. DOMAIN list = DOMAIN archive
      BY <1>1, <3>1
    <3>6. RangeOf(list) = {Name(i) : i \in DOMAIN archive}
      BY <3>4, <3>5 DEF RangeOf
    <3>7. QED
      BY <1>2, <3>3, <3>6
  <2>3. QED
    BY <2>1, <2>2
<1>5. QED
  BY <1>2, <1>3, <1>4

-----------------------------------------------------------------------------
(* What the plan of a running iteration still holds, beside what was       *)
(* generated of it.                                                        *)
Requested == selection.criteria = "entrynames" /\ AllThere

PlanShape ==
    /\ plan = [entries_to_read |-> plan.entries_to_read, require_all |-> plan.require_all,
               raw_mode |-> plan.raw_mode]
    /\ plan.entries_to_read \in Seq(Names)

Planned == RangeOf(plan.entries_to_read)

HasRecord(n) == \E i \in DOMAIN archive : SameEntry(kind, archive[i].name, n)

(* A name comes from the list of names, from an index or from the user.    *)
NameOK(n) ==
    \/ InPlace(kind) => Listed(n) = n
    \/ \E i \in DOMAIN archive : archive[i].name = n /\ Lists(archive[i]) # {}
    \/ selection.criteria = "entrynames" /\ n \in RangeOf(selection.entrynames)

NamesOK ==
    /\ \A n \in Planned : NameOK(n)
    /\ selection.criteria \in {"select_all", "window"} =>
         ~plan.require_all /\ \A n \in Planned : HasRecord(n)

EverythingPlanned ==
    selection.criteria = "select_all" =>
        \A i \in DOMAIN begun :
            Generated(begun[i].name) \/ \E n \in Planned : SameEntry(kind, n, begun[i].name)

WindowOf(s, i) ==
    /\ archive[i].by = s /\ session[s] = "gone" /\ archive[i].index = index
    /\ spec[s].timeseries =>
         \A j \in WrittenBy(archive, s, i) : \A tt \in Lists(archive[j]) :
            Reader!Selects(selection, tt) =>
                Generated(tt.entryname) \/ tt.entryname \in Planned

WindowPlanned ==
    selection.criteria = "window" => \E s \in Sessions : \E i \in DOMAIN archive : WindowOf(s, i)

RestPlanned ==
    Requested =>
        /\ LeftOf(plan.entries_to_read, selection.entrynames, Len(results))
        /\ \A k \in DOMAIN results : results[k].name = selection.entrynames[k]

PlanInv ==
    iteration = "run" /\ started =>
        PlanShape /\ NamesOK /\ EverythingPlanned /\ WindowPlanned /\ RestPlanned

LEMMA PopStep ==
    ASSUME PlanShape, NEW name, Reader!Pop(name)
    PROVE  /\ PlanShape' /\ name \in Names /\ name \in Planned
           /\ plan.entries_to_read # <<>> /\ name = Head(plan.entries_to_read)
           /\ plan'.entries_to_read = Tail(plan.entries_to_read)
           /\ plan'.require_all = plan.require_all
           /\ Planned = {name} \cup Planned'
<1>1. PICK left : left = plan.entries_to_read
  OBVIOUS
<1>2. left # <<>> /\ name = Head(left) /\ left \in Seq(Names)
  BY <1>1 DEF Reader!Pop, PlanShape
<1>3. /\ Len(left) \in Nat /\ Len(left) # 0 /\ DOMAIN left = 1 .. Len(left)
      /\ name = left[1] /\ Tail(left) \in Seq(Names)
      /\ DOMAIN Tail(left) = 1 .. Len(left) - 1
      /\ \A k \in 1 .. Len(left) - 1 : Tail(left)[k] = left[k + 1]
  <2>1. Len(left) \in Nat /\ Len(left) # 0 /\ DOMAIN left = 1 .. Len(left)
    BY <1>2, EmptySeq, LenProperties
  <2>2. /\ Tail(left) \in Seq(Names) /\ Len(Tail(left)) = Len(left) - 1
        /\ \A k \in 1 .. Len(left) - 1 : Tail(left)[k] = left[k + 1]
    BY <1>2, HeadTailProperties
  <2>3. DOMAIN Tail(left) = 1 .. Len(left) - 1
    BY <2>2, LenProperties
  <2>4. QED
    BY <1>2, <2>1, <2>2, <2>3
<1>4. RangeOf(left) = {name} \cup RangeOf(Tail(left))
  <2>1. ASSUME NEW k \in DOMAIN left, k # 1 PROVE left[k] \in RangeOf(Tail(left))
    <3>1. k - 1 \in DOMAIN Tail(left) /\ Tail(left)[k - 1] = left[k]
      BY <1>3, <2>1
    <3>2. QED
      BY <3>1 DEF RangeOf
  <2>2. \A k \in DOMAIN Tail(left) : k + 1 \in DOMAIN left /\ Tail(left)[k] = left[k + 1]
    BY <1>3
  <2>3. {name} \cup RangeOf(Tail(left)) \subseteq RangeOf(left)
    BY <1>3, <2>2 DEF RangeOf
  <2>4. RangeOf(left) \subseteq {name} \cup RangeOf(Tail(left))
    BY <1>3, <2>1 DEF RangeOf
  <2>5. QED
    BY <2>3, <2>4
<1>5. plan' = [entries_to_read |-> Tail(left), require_all |-> plan.require_all,
               raw_mode |-> plan.raw_mode]
  <2>1. PICK all, raw : all = plan.require_all /\ raw = plan.raw_mode
    OBVIOUS
  <2>2. plan = [entries_to_read |-> left, require_all |-> all, raw_mode |-> raw]
    BY <1>1, <2>1 DEF PlanShape
  <2>3. plan' = [plan EXCEPT !.entries_to_read = Tail(left)]
    BY <1>1 DEF Reader!Pop
  <2>4. QED
    BY <2>1, <2>2, <2>3
<1>6. name \in Names
  BY <1>2, <1>3
<1>7. QED
  BY <1>1, <1>2, <1>3, <1>4, <1>5, <1>6 DEF PlanShape, Planned

(* A step that takes names from the plan, if any, and loses none.          *)
LEMMA PlanKeeps ==
    ASSUME WriteInv, PlanInv, iteration = "run", started, Grows,
           UNCHANGED <<selection, begun, index>>,
           PlanShape', Planned' \subseteq Planned, plan'.require_all = plan.require_all,
           \A k \in DOMAIN results : k \in DOMAIN results' /\ results'[k] = results[k],
           selection.criteria \in {"select_all", "window"} =>
             \A n \in Planned : n \in Planned' \/ \E k \in DOMAIN results' : results'[k].name = n,
           RestPlanned'
    PROVE  PlanInv'
<1>0. NamesOK /\ EverythingPlanned /\ WindowPlanned
  BY DEF PlanInv
<1>1. UNCHANGED kind /\ InPlace(kind)' = InPlace(kind)
  BY DEF Grows, InPlace
<1>2. \A n, m : SameEntry(kind, n, m)' = SameEntry(kind, n, m)
  BY <1>1 DEF SameEntry
<1>3. \A i \in DOMAIN archive : i \in DOMAIN archive' /\ archive'[i] = archive[i]
  BY DEF Grows
<1>4. ASSUME NEW n, Generated(n) PROVE Generated(n)'
  BY <1>1, <1>4 DEF Generated, SameEntry
<1>5. ASSUME NEW k \in DOMAIN results', NEW n, SameEntry(kind, results'[k].name, n)
      PROVE  Generated(n)'
  BY <1>1, <1>5 DEF Generated, SameEntry
<1>6. NamesOK'
  <2>1. \A n : NameOK(n) => NameOK(n)'
    BY <1>1, <1>3 DEF NameOK
  <2>2. \A n : HasRecord(n) => HasRecord(n)'
    BY <1>1, <1>3 DEF HasRecord, SameEntry
  <2>3. QED
    BY <1>0, <2>1, <2>2 DEF NamesOK
<1>7. EverythingPlanned'
  <2> SUFFICES ASSUME selection.criteria = "select_all", NEW i \in DOMAIN begun
               PROVE  Generated(begun[i].name)' \/
                      \E n \in Planned' : SameEntry(kind, n, begun[i].name)
    BY <1>1 DEF EverythingPlanned, SameEntry, Generated
  <2>1. CASE Generated(begun[i].name)
    <3>1. PICK m : m = begun[i].name
      OBVIOUS
    <3>2. Generated(m)'
      BY <2>1, <3>1, <1>4
    <3>3. QED
      BY <3>1, <3>2 DEF Generated
  <2>2. ASSUME NEW n \in Planned, SameEntry(kind, n, begun[i].name)
        PROVE  Generated(begun[i].name)' \/
               \E m \in Planned' : SameEntry(kind, m, begun[i].name)
    <3>1. CASE n \in Planned'
      BY <2>2, <3>1
    <3>2. ASSUME NEW k \in DOMAIN results', results'[k].name = n
          PROVE  Generated(begun[i].name)'
      <4>1. SameEntry(kind, results'[k].name, begun[i].name)
        BY <2>2, <3>2
      <4>2. QED
        BY <4>1, <1>1 DEF Generated, SameEntry
    <3>3. QED
      BY <3>1, <3>2
  <2>3. QED
    BY <1>0, <2>1, <2>2 DEF EverythingPlanned
<1>8. WindowPlanned'
  <2> SUFFICES ASSUME selection.criteria = "window"
               PROVE  \E s \in Sessions : \E i \in DOMAIN archive' : WindowOf(s, i)'
    BY DEF WindowPlanned
  <2>1. PICK s \in Sessions, i \in DOMAIN archive : WindowOf(s, i)
    BY <1>0 DEF WindowPlanned
  <2>2. /\ i \in DOMAIN archive' /\ archive'[i] = archive[i]
        /\ session'[s] = "gone" /\ spec'[s] = spec[s]
    BY <1>3, <2>1 DEF WindowOf, Grows
  <2>3. DOMAIN archive = 1 .. Len(archive) /\ Len(archive) \in Nat
    BY BagFacts
  <2>4. \A j \in 1 .. i : archive'[j] = archive[j]
    BY <1>3, <2>3
  <2>5. WrittenBy(archive, s, i)' = WrittenBy(archive, s, i)
    BY <2>4 DEF WrittenBy
  <2>6. \A j \in WrittenBy(archive, s, i) : archive'[j] = archive[j]
    BY <2>4 DEF WrittenBy
  <2>7. ASSUME NEW n, Generated(n) \/ n \in Planned
        PROVE  Generated(n)' \/ n \in Planned'
    <3>1. ASSUME NEW k \in DOMAIN results', results'[k].name = n
          PROVE  Generated(n)'
      BY <3>1 DEF Generated, SameEntry
    <3>2. QED
      BY <1>4, <2>7, <3>1
  <2>8. spec[s].timeseries =>
          \A j \in WrittenBy(archive, s, i) : \A tt \in Lists(archive[j]) :
            Reader!Selects(selection, tt) => Generated(tt.entryname) \/ tt.entryname \in Planned
    BY <2>1 DEF WindowOf
  <2>9. spec'[s].timeseries =>
          \A j \in WrittenBy(archive, s, i)' : \A tt \in Lists(archive'[j]) :
            Reader!Selects(selection', tt) => Generated(tt.entryname)' \/ tt.entryname \in Planned'
    <3> SUFFICES ASSUME spec[s].timeseries, NEW j \in WrittenBy(archive, s, i),
                        NEW tt \in Lists(archive[j]), Reader!Selects(selection, tt)
                 PROVE  Generated(tt.entryname)' \/ tt.entryname \in Planned'
      BY <2>2, <2>5, <2>6
    <3>1. Generated(tt.entryname) \/ tt.entryname \in Planned
      BY <2>8
    <3>2. QED
      BY <3>1, <2>7
  <2>10. WindowOf(s, i)'
    BY <2>1, <2>2, <2>9 DEF WindowOf
  <2>11. QED
    BY <2>2, <2>10
<1>9. QED
  BY <1>6, <1>7, <1>8 DEF PlanInv

(* The index that a plan is made from.                                     *)
PlanIndex(idx, i) ==
    /\ i \in DOMAIN archive /\ archive[i].index = {idx}
    /\ archive[i].by \in Sessions /\ session[archive[i].by] = "gone"
    /\ Listing(idx)
    /\ RangeOf(idx.time_ordered_entries) =
         IF spec[archive[i].by].timeseries THEN ShouldList(archive, archive[i].by, i) ELSE {}

LEMMA PlanHasIndex ==
    ASSUME WriteInv, GoneInv, NEW idx \in Reader!ReadLatestIndex
    PROVE  \E i : PlanIndex(idx, i)
<1>1. PICK r \in Reader!IndexEntries : idx \in r.index
  BY DEF Reader!ReadLatestIndex
<1>2. PICK i \in DOMAIN archive : r = archive[i] /\ archive[i].index # {}
  BY IndexRecords
<1>3. archive[i].by \in Sessions
  BY BagFacts
<1>4. PICK idx2 \in archive[i].index : archive[i].index = {idx2} /\ Listing(idx2)
  BY <1>2 DEF GoneInv, IndexOfGone, WriteInv, StatsInv, IndexesAgree, IndexStats
<1>5. session[archive[i].by] = "gone"
  BY <1>2 DEF GoneInv, IndexOfGone
<1>6. idx = idx2
  BY <1>1, <1>2, <1>4
<1>7. RangeOf(idx.time_ordered_entries) =
         IF spec[archive[i].by].timeseries THEN ShouldList(archive, archive[i].by, i) ELSE {}
  BY <1>1, <1>2 DEF WriteInv, IInv, IndexMatchesArchive
<1>8. QED
  BY <1>2, <1>3, <1>4, <1>5, <1>6, <1>7 DEF PlanIndex

(* The names of the entries of an index that are asked for.                *)
LEMMA IndexedNames ==
    ASSUME WriteInv, NEW idx, NEW i, PlanIndex(idx, i), NEW keep,
           NEW left, left = Reader!NamesOf(Reader!Sublist(idx.time_ordered_entries, keep))
    PROVE  /\ left \in Seq(Names)
           /\ \A n \in RangeOf(left) : \E j \in DOMAIN archive :
                archive[j].name = n /\ Lists(archive[j]) # {}
           /\ \A tt \in RangeOf(idx.time_ordered_entries) :
                tt \in keep => tt.entryname \in RangeOf(left)
<1> DEFINE tts == idx.time_ordered_entries
           sub == Sublist(tts, keep)
           S == RangeOf(tts)
<1>1. tts \in Seq(S)
  BY DEF PlanIndex, Listing
<1>2. /\ sub \in Seq(S) /\ Len(sub) \in Nat /\ DOMAIN sub = 1 .. Len(sub)
      /\ RangeOf(sub) = {x \in S : x \in keep}
  <2> HIDE DEF tts, sub, S
  <2>1. sub = Sublist(tts, keep) /\ S = RangeOf(tts)
    BY DEF sub, S
  <2>2. QED
    BY <1>1, <2>1, SublistFacts
<1>3. left = [k \in DOMAIN sub |-> sub[k].entryname]
  BY ReaderSublist DEF Reader!NamesOf
<1>4. \A tt \in S : \E j \in DOMAIN archive :
        tt.entryname = archive[j].name /\ Lists(archive[j]) # {} /\ archive[j].name \in Names
  <2> SUFFICES ASSUME NEW tt \in S
               PROVE  \E j \in DOMAIN archive :
                        /\ tt.entryname = archive[j].name /\ Lists(archive[j]) # {}
                        /\ archive[j].name \in Names
    OBVIOUS
  <2>1. PICK j \in WrittenBy(archive, archive[i].by, i) : tt \in Lists(archive[j])
    BY DEF PlanIndex, ShouldList
  <2>2. j \in DOMAIN archive
    BY BagFacts DEF WrittenBy, PlanIndex
  <2>3. tt.entryname = archive[j].name
    BY <2>1 DEF Lists, TopicTime
  <2>4. archive[j].name \in Names
    BY <2>2, BagFacts DEF NamedOK, Names
  <2>5. QED
    BY <2>1, <2>2, <2>3, <2>4
<1> HIDE DEF sub, tts
<1>5. \A k \in DOMAIN sub : sub[k] \in S /\ sub[k] \in keep
  BY <1>2 DEF RangeOf
<1> HIDE DEF S
<1>6. \A k \in DOMAIN sub : sub[k].entryname \in Names
  BY <1>4, <1>5
<1>7. left \in [1 .. Len(sub) -> Names]
  BY <1>2, <1>3, <1>6
<1>8. left \in Seq(Names) /\ DOMAIN left = DOMAIN sub
  BY <1>2, <1>3, <1>7
<1>9. ASSUME NEW n \in RangeOf(left)
      PROVE  \E j \in DOMAIN archive : archive[j].name = n /\ Lists(archive[j]) # {}
  <2>1. PICK k \in DOMAIN sub : n = sub[k].entryname
    BY <1>3, <1>8 DEF RangeOf
  <2>2. QED
    BY <1>4, <1>5, <2>1
<1>10. ASSUME NEW tt \in S, tt \in keep PROVE tt.entryname \in RangeOf(left)
  <2>1. PICK k \in DOMAIN sub : sub[k] = tt
    BY <1>2, <1>10 DEF RangeOf
  <2>2. QED
    BY <1>3, <1>8, <2>1 DEF RangeOf
<1>11. QED
  BY <1>8, <1>9, <1>10 DEF S, tts

LEMMA SelectsInWindow ==
    ASSUME NEW window, NEW tt, Reader!Selects(window, tt)
    PROVE  Reader!InWindow(window, tt)
BY DEF Reader!Selects, Reader!InWindow

(* A plan, by what was asked for.                                          *)
FromIndex(left) ==
    \A n \in RangeOf(left) : \E j \in DOMAIN archive :
        archive[j].name = n /\ Lists(archive[j]) # {}

WholeWindow(idx, left) ==
    \A tt \in RangeOf(idx.time_ordered_entries) :
        Reader!Selects(selection, tt) => tt.entryname \in RangeOf(left)

PlanFor(idx, left, all) ==
    \/ selection.criteria = "select_all" /\ ~all /\ left \in GetNamelist(kind, archive)
    \/ selection.criteria = "entrynames" /\ left = selection.entrynames
    \/ selection.criteria = "events" /\ FromIndex(left)
    \/ selection.criteria = "window" /\ ~all /\ FromIndex(left) /\ WholeWindow(idx, left)

PlanOf(idx, p, left, all, raw) ==
    /\ p = [entries_to_read |-> left, require_all |-> all, raw_mode |-> raw]
    /\ left \in Seq(Names)
    /\ PlanFor(idx, left, all)

LEMMA PlansMade ==
    ASSUME WriteInv, GoneInv, selection \in Selections,
           NEW idx \in Reader!ReadLatestIndex, NEW p \in Reader!GetEntriesToRead(idx)
    PROVE  \E left, all, raw : PlanOf(idx, p, left, all, raw)
<1>1. PICK i : PlanIndex(idx, i)
  BY PlanHasIndex
<1>2. CASE selection.criteria = "select_all"
  <2>1. PICK left \in GetNamelist(kind, archive) :
          p = [entries_to_read |-> left, require_all |-> FALSE, raw_mode |-> selection.raw]
    BY <1>2, ReaderNamelist DEF Reader!GetEntriesToRead
  <2>2. left \in Seq(Names)
    BY NamelistFacts
  <2>3. PlanOf(idx, p, left, FALSE, selection.raw)
    BY <1>2, <2>1, <2>2 DEF PlanOf, PlanFor
  <2>4. QED
    BY <2>3
<1>3. CASE selection.criteria = "entrynames"
  <2>1. p = [entries_to_read |-> selection.entrynames,
             require_all |-> ~selection.ignore_missing, raw_mode |-> selection.raw]
    BY <1>3 DEF Reader!GetEntriesToRead
  <2>2. selection.entrynames \in Seq(Names)
    BY <1>3, ProtobagAssumption DEF Names
  <2>3. PlanOf(idx, p, selection.entrynames, ~selection.ignore_missing, selection.raw)
    BY <1>3, <2>1, <2>2 DEF PlanOf, PlanFor
  <2>4. QED
    BY <2>3
<1>4. CASE selection.criteria = "events"
  <2> DEFINE keep == {tt \in Reader!RangeOf(idx.time_ordered_entries) :
                        Reader!Event(tt) \in selection.events}
             left == Reader!NamesOf(Reader!Sublist(idx.time_ordered_entries, keep))
  <2>1. p = [entries_to_read |-> left, require_all |-> selection.require_all,
             raw_mode |-> FALSE]
    BY <1>4 DEF Reader!GetEntriesToRead
  <2>2. left \in Seq(Names) /\ FromIndex(left)
    <3> HIDE DEF keep
    <3> QED
      BY <1>1, IndexedNames DEF FromIndex
  <2> HIDE DEF left
  <2>3. PlanOf(idx, p, left, selection.require_all, FALSE)
    BY <1>4, <2>1, <2>2 DEF PlanOf, PlanFor
  <2>4. QED
    BY <2>3
<1>5. CASE selection.criteria = "window"
  <2> DEFINE keep == {tt \in Reader!RangeOf(idx.time_ordered_entries) :
                        Reader!InWindow(selection, tt)}
             left == Reader!NamesOf(Reader!Sublist(idx.time_ordered_entries, keep))
  <2>1. p = [entries_to_read |-> left, require_all |-> FALSE, raw_mode |-> FALSE]
    BY <1>5 DEF Reader!GetEntriesToRead
  <2>2. \A tt \in RangeOf(idx.time_ordered_entries) :
          Reader!Selects(selection, tt) => tt \in keep
    BY SelectsInWindow DEF RangeOf, Reader!RangeOf
  <2>3. left \in Seq(Names) /\ FromIndex(left) /\ WholeWindow(idx, left)
    <3> HIDE DEF keep
    <3> QED
      BY <1>1, <2>2, IndexedNames DEF FromIndex, WholeWindow
  <2> HIDE DEF left
  <2>4. PlanOf(idx, p, left, FALSE, FALSE)
    BY <1>5, <2>1, <2>3 DEF PlanOf, PlanFor
  <2>5. QED
    BY <2>4
<1>6. QED
  BY <1>2, <1>3, <1>4, <1>5 DEF Reader!GetEntriesToRead

LEMMA PlanMakes ==
    ASSUME BInv, iteration = "run", Reader!Plan,
           UNCHANGED <<vars, iteration, results, begun>>
    PROVE  PlanInv'
<1>1. PICK idx \in Reader!ReadLatestIndex : \E p \in Reader!GetEntriesToRead(idx) :
        plan' = p /\ index' = {idx}
  BY DEF Reader!Plan
<1>2. /\ UNCHANGED <<kind, archive, session, spec, selection, results, begun, iteration>>
      /\ results = <<>> /\ selection \in Selections
      /\ \A i \in DOMAIN begun : i \in DOMAIN archive /\ archive[i] = begun[i]
  BY DEF Reader!Plan, vars, BInv, IterInv
<1>3. PICK left, all, raw : PlanOf(idx, plan', left, all, raw)
  BY <1>1, <1>2, PlansMade DEF BInv
<1>4. /\ plan' = [entries_to_read |-> left, require_all |-> all, raw_mode |-> raw]
      /\ left \in Seq(Names) /\ PlanFor(idx, left, all)
  BY <1>3 DEF PlanOf
<1>5. PlanShape' /\ Planned' = RangeOf(left) /\ plan'.require_all = all
      /\ plan'.entries_to_read = left
  BY <1>4 DEF PlanShape, Planned
<1>6. NamesOK'
  <2>1. \A n : NameOK(n) => NameOK(n)'
    BY <1>2 DEF NameOK, InPlace
  <2>2. \A n : HasRecord(n) => HasRecord(n)'
    BY <1>2 DEF HasRecord, SameEntry, InPlace
  <2>3. ASSUME FromIndex(left)
        PROVE  \A n \in RangeOf(left) : NameOK(n) /\ HasRecord(n)
    BY <2>3 DEF FromIndex, NameOK, HasRecord, SameEntry
  <2>4. ASSUME left \in GetNamelist(kind, archive)
        PROVE  \A n \in RangeOf(left) : NameOK(n) /\ HasRecord(n)
    BY <2>4, NamelistFacts DEF NameOK, HasRecord, BInv
  <2>5. ASSUME left = selection.entrynames, selection.criteria = "entrynames"
        PROVE  \A n \in RangeOf(left) : NameOK(n)
    BY <2>5 DEF NameOK
  <2>6. /\ \A n \in RangeOf(left) : NameOK(n)
        /\ selection.criteria \in {"select_all", "window"} =>
             ~all /\ \A n \in RangeOf(left) : HasRecord(n)
    BY <1>4, <2>3, <2>4, <2>5 DEF PlanFor
  <2>7. QED
    BY <1>2, <1>5, <2>1, <2>2, <2>6 DEF NamesOK
<1>7. EverythingPlanned'
  <2> SUFFICES ASSUME selection.criteria = "select_all", NEW i \in DOMAIN begun
               PROVE  \E n \in RangeOf(left) : SameEntry(kind, n, begun[i].name)
    BY <1>2, <1>5 DEF EverythingPlanned, SameEntry, InPlace
  <2>1. left \in GetNamelist(kind, archive)
    BY <1>4 DEF PlanFor
  <2>2. i \in DOMAIN archive /\ archive[i] = begun[i]
    BY <1>2
  <2>3. QED
    BY <2>1, <2>2, NamelistFacts DEF BInv
<1>8. WindowPlanned'
  <2> SUFFICES ASSUME selection.criteria = "window"
               PROVE  \E s \in Sessions : \E i \in DOMAIN archive' : WindowOf(s, i)'
    BY <1>2 DEF WindowPlanned
  <2>1. PICK i : PlanIndex(idx, i)
    BY PlanHasIndex DEF BInv
  <2>2. PICK s : s = archive[i].by
    OBVIOUS
  <2>3. WholeWindow(idx, left)
    BY <1>4 DEF PlanFor
  <2>4. spec[s].timeseries =>
          \A j \in WrittenBy(archive, s, i) : \A tt \in Lists(archive[j]) :
            tt \in RangeOf(idx.time_ordered_entries)
    BY <2>1, <2>2 DEF PlanIndex, ShouldList
  <2>5. s \in Sessions /\ i \in DOMAIN archive /\ session[s] = "gone"
        /\ archive[i].by = s /\ archive[i].index = {idx}
    BY <2>1, <2>2 DEF PlanIndex
  <2>6. spec[s].timeseries =>
          \A j \in WrittenBy(archive, s, i) : \A tt \in Lists(archive[j]) :
            Reader!Selects(selection, tt) => tt.entryname \in RangeOf(left)
    BY <2>3, <2>4 DEF WholeWindow
  <2>7. WindowOf(s, i)'
    <3>1. WrittenBy(archive, s, i)' = WrittenBy(archive, s, i)
      BY <1>2 DEF WrittenBy
    <3>2. QED
      BY <1>1, <1>2, <1>5, <2>5, <2>6, <3>1 DEF WindowOf
  <2>8. QED
    BY <1>2, <2>5, <2>7
<1>9. RestPlanned'
  <2> SUFFICES ASSUME selection.criteria = "entrynames"
               PROVE  LeftOf(left, selection.entrynames, 0)
    BY <1>2, <1>5, EmptySeq DEF RestPlanned, Requested
  <2>1. left = selection.entrynames
    BY <1>4 DEF PlanFor
  <2>2. left \in Seq(RangeOf(left)) /\ Len(left) \in Nat
    BY <1>4, RangeTyped
  <2>3. QED
    BY <2>1, <2>2 DEF LeftOf
<1>10. QED
  BY <1>5, <1>6, <1>7, <1>8, <1>9 DEF PlanInv

(* What was asked for is asked for as long as the iteration runs.          *)
LEMMA RequestStays ==
    ASSUME Grows, UNCHANGED <<selection, begun>>
    PROVE  Requested' = Requested
<1>1. \A n, m : SameEntry(kind, n, m)' = SameEntry(kind, n, m)
  BY DEF Grows, SameEntry, InPlace
<1>2. AllThere' = AllThere
  BY <1>1 DEF AllThere
<1>3. QED
  BY <1>2 DEF Requested

(* Names that were all in the bag when the iteration began are found.      *)
LEMMA RequestedIsFound ==
    ASSUME BInv, iteration = "run", PlanShape, RestPlanned, Requested,
           NEW name, Reader!Pop(name)
    PROVE  Reader!ReadAsStr(kind, archive, name) # {}
<1>1. plan.entries_to_read # <<>> /\ name = Head(plan.entries_to_read)
  BY PopStep
<1>2. LeftOf(plan.entries_to_read, selection.entrynames, Len(results))
  BY DEF RestPlanned
<1>3. name \in RangeOf(selection.entrynames)
  BY <1>1, <1>2, RestIsLeft
<1>4. PICK i \in DOMAIN begun : SameEntry(kind, begun[i].name, name)
  BY <1>3 DEF Requested, AllThere
<1>5. i \in DOMAIN archive /\ SameEntry(kind, archive[i].name, name)
  BY <1>4 DEF BInv, IterInv
<1>6. QED
  BY <1>5, NameIsFound, BagFacts, ReaderReads DEF BInv

LEMMA PlanStays ==
    ASSUME BInv, PlanInv, [NextBag]_bagvars,
           UNCHANGED <<selection, started, plan, index, iteration, results, begun>>
    PROVE  PlanInv'
<1> SUFFICES ASSUME iteration = "run", started PROVE PlanInv'
  BY DEF PlanInv
<1>1. Grows
  BY StepGrows DEF BInv, IterInv
<1>2. PlanShape' /\ Planned' = Planned /\ RestPlanned'
  <2>1. Requested' = Requested
    BY <1>1, RequestStays
  <2>2. QED
    BY <2>1 DEF PlanInv, PlanShape, Planned, RestPlanned
<1>3. QED
  BY <1>1, <1>2, PlanKeeps DEF BInv

(* An entry that was in the bag when it was planned is not missing.        *)
LEMMA PlanSkips ==
    ASSUME BInv, PlanInv, [NextBag]_bagvars, GetNextPlans, Reader!Skip
    PROVE  PlanInv'
<1>1. /\ iteration = "run" /\ pc = "next" /\ ~plan.require_all
      /\ UNCHANGED <<vars, selection, started, index, results, begun>>
  BY DEF GetNextPlans, Reader!Skip
<1>2. started /\ Grows
  BY <1>1, StepGrows DEF BInv, IterInv
<1>3. PlanShape /\ NamesOK /\ RestPlanned
  BY <1>1, <1>2 DEF PlanInv
<1>4. PICK name : Reader!Pop(name) /\ Reader!ReadAsStr(kind, archive, name) = {}
  BY DEF Reader!Skip
<1>5. /\ PlanShape' /\ Planned = {name} \cup Planned' /\ name \in Planned
      /\ plan'.require_all = plan.require_all
  BY <1>3, <1>4, PopStep
<1>6. selection.criteria \notin {"select_all", "window"}
  <2> SUFFICES ASSUME selection.criteria \in {"select_all", "window"} PROVE FALSE
    OBVIOUS
  <2>1. PICK i \in DOMAIN archive : SameEntry(kind, archive[i].name, name)
    BY <1>3, <1>5 DEF NamesOK, HasRecord
  <2>2. ReadAsStr(kind, archive, name) # {}
    BY <2>1, NameIsFound, BagFacts DEF BInv
  <2>3. QED
    BY <1>4, <2>2, ReaderReads
<1>7. ~Requested
  BY <1>1, <1>3, <1>4, RequestedIsFound
<1>8. RestPlanned'
  BY <1>1, <1>2, <1>7, RequestStays DEF RestPlanned
<1>9. QED
  BY <1>1, <1>2, <1>5, <1>6, <1>8, PlanKeeps DEF BInv

LEMMA PlanGenerates ==
    ASSUME BInv, PlanInv, [NextBag]_bagvars, GetNextEntry, iteration' = "run"
    PROVE  PlanInv'
<1>1. /\ iteration = "run" /\ pc = "next"
      /\ UNCHANGED <<vars, selection, started, index, begun>>
  BY DEF GetNextEntry, Reader!ReadEntry
<1>2. started /\ Grows
  BY <1>1, StepGrows DEF BInv, IterInv
<1>3. PlanShape /\ NamesOK /\ RestPlanned
  BY <1>1, <1>2 DEF PlanInv
<1>4. \A res : results' = Append(results, res) =>
        /\ Len(results) \in Nat /\ DOMAIN results = 1 .. Len(results)
        /\ DOMAIN results' = 1 .. Len(results) + 1 /\ Len(results') = Len(results) + 1
        /\ \A k \in 1 .. Len(results) : results'[k] = results[k]
        /\ results'[Len(results) + 1] = res
  BY AppendRecord DEF BInv, IterInv
<1>5. ~UNCHANGED results
  <2>1. PICK res : results' = Append(results, res)
    BY DEF GetNextEntry, FromNentry, Generate, Raise
  <2>2. Len(results') # Len(results)
    BY <1>4, <2>1
  <2>3. QED
    BY <2>2
<1>6. PICK res : results' = Append(results, res) /\ res.name = Head(plan.entries_to_read)
  BY <1>5, GeneratedDecodes
<1>7. PICK name : Reader!Pop(name)
  BY DEF GetNextEntry, Reader!ReadEntry
<1>8. /\ PlanShape' /\ Planned = {name} \cup Planned'
      /\ plan.entries_to_read # <<>> /\ name = Head(plan.entries_to_read)
      /\ plan'.entries_to_read = Tail(plan.entries_to_read)
      /\ plan'.require_all = plan.require_all
  BY <1>3, <1>7, PopStep
<1>9. /\ Len(results) \in Nat /\ DOMAIN results = 1 .. Len(results)
      /\ DOMAIN results' = 1 .. Len(results) + 1 /\ Len(results') = Len(results) + 1
      /\ \A k \in 1 .. Len(results) : results'[k] = results[k]
      /\ results'[Len(results) + 1].name = name
  BY <1>4, <1>6, <1>8
<1>10. \A n \in Planned : n \in Planned' \/ \E k \in DOMAIN results' : results'[k].name = n
  <2>1. Len(results) + 1 \in DOMAIN results'
    BY <1>9
  <2>2. QED
    BY <1>8, <1>9, <2>1
<1>11. RestPlanned'
  <2> SUFFICES ASSUME Requested
               PROVE  /\ LeftOf(plan'.entries_to_read, selection.entrynames, Len(results) + 1)
                      /\ \A k \in DOMAIN results' : results'[k].name = selection.entrynames[k]
    BY <1>1, <1>2, <1>9, RequestStays DEF RestPlanned
  <2>1. /\ LeftOf(plan.entries_to_read, selection.entrynames, Len(results))
        /\ \A k \in DOMAIN results : results[k].name = selection.entrynames[k]
    BY <1>3 DEF RestPlanned
  <2>2. /\ LeftOf(plan'.entries_to_read, selection.entrynames, Len(results) + 1)
        /\ name = selection.entrynames[Len(results) + 1]
    BY <1>8, <2>1, RestIsLeft
  <2>3. \A k \in DOMAIN results' : k \in DOMAIN results \/ k = Len(results) + 1
    BY <1>9
  <2>4. QED
    BY <1>9, <2>1, <2>2, <2>3
<1>12. \A k \in DOMAIN results : k \in DOMAIN results' /\ results'[k] = results[k]
  BY <1>9
<1>13. QED
  BY <1>1, <1>2, <1>8, <1>10, <1>11, <1>12, PlanKeeps DEF BInv

LEMMA StepKeepsPlan == BInv /\ PlanInv /\ [NextBag]_bagvars => PlanInv'
<1> SUFFICES ASSUME BInv, PlanInv, [NextBag]_bagvars, iteration' = "run", started'
             PROVE  PlanInv'
  BY DEF PlanInv
<1>1. ASSUME NEW s \in Sessions, PyWriter(s) PROVE PlanInv'
  BY <1>1, PlanStays DEF PyWriter, readvars
<1>2. CASE IterEntries
  <2>1. ~started
    BY <1>2 DEF IterEntries, BInv, IterInv
  <2>2. QED
    BY <1>2, <2>1 DEF IterEntries, readvars
<1>3. CASE IterElsewhere
  BY <1>3, PlanStays DEF IterElsewhere, readvars
<1>4. CASE GetNextPlans
  <2>1. CASE Reader!Call
    BY <1>4, <2>1, PlanStays DEF GetNextPlans, Reader!Call
  <2>2. CASE Reader!Plan
    BY <1>4, <2>2, PlanMakes DEF GetNextPlans
  <2>3. CASE Reader!Skip
    BY <1>4, <2>3, PlanSkips
  <2>4. QED
    BY <1>4, <2>1, <2>2, <2>3 DEF GetNextPlans
<1>5. CASE GetNextEntry
  BY <1>5, PlanGenerates
<1>6. CASE GetNextThrows \/ GetNextNone
  BY <1>6 DEF GetNextThrows, GetNextNone, Raise
<1>7. CASE UNCHANGED bagvars
  BY <1>7, PlanStays DEF bagvars, readvars
<1>8. QED
  BY <1>1, <1>2, <1>3, <1>4, <1>5, <1>6, <1>7 DEF NextBag, GetNext

LEMMA InitPlanInv == InitBag => PlanInv
BY DEF InitBag, PlanInv

(* What was answered when a plan is at its end.                            *)
Answered == [k \in DOMAIN results |-> results[k].name] = selection.entrynames

LEMMA RequestedAnswered ==
    ASSUME BInv, RestPlanned, Requested, plan.entries_to_read = <<>>
    PROVE  Answered
<1> DEFINE names == selection.entrynames
           n == Len(results)
<1>1. names \in Seq(Names)
  BY ProtobagAssumption DEF Requested, BInv, IterInv, Names
<1>2. n \in Nat /\ DOMAIN results = 1 .. n
  BY DEF BInv, IterInv
<1>3. n = Len(names) /\ \A k \in 1 .. n : results[k].name = names[k]
  BY <1>2, EmptySeq DEF RestPlanned, LeftOf
<1> HIDE DEF names, n
<1>4. names = [k \in 1 .. n |-> names[k]]
  BY <1>1, <1>3
<1>5. QED
  BY <1>2, <1>3, <1>4 DEF Answered, names, n

LEMMA EndIsComplete ==
    ASSUME BInv, PlanInv, GetNextNone
    PROVE  IterationComplete'
<1>1. /\ iteration = "run" /\ pc = "next"
      /\ UNCHANGED <<kind, archive, spec, selection, index, results, begun>>
  BY DEF GetNextNone, Reader!EndOfSequence, Reader!NotFound, vars
<1>2. started
  BY <1>1 DEF BInv, IterInv
<1>3. PlanShape /\ NamesOK /\ EverythingPlanned /\ WindowPlanned /\ RestPlanned
  BY <1>1, <1>2 DEF PlanInv
<1>4. CASE Reader!EndOfSequence
  <2>1. plan.entries_to_read = <<>> /\ Planned = {}
    BY <1>4, EmptySeq DEF Reader!EndOfSequence, Planned, RangeOf
  <2>2. selection.criteria = "select_all" => \A i \in DOMAIN begun : Generated(begun[i].name)
    BY <1>3, <2>1 DEF EverythingPlanned
  <2>3. selection.criteria = "window" =>
          \E s \in Sessions : \E i \in DOMAIN archive :
            /\ archive[i].by = s /\ archive[i].index = index
            /\ spec[s].timeseries =>
                 \A j \in WrittenBy(archive, s, i) : \A tt \in Lists(archive[j]) :
                    Reader!Selects(selection, tt) => Generated(tt.entryname)
    BY <1>3, <2>1 DEF WindowPlanned, WindowOf
  <2>4. Requested => Answered
    BY <1>3, <2>1, RequestedAnswered
  <2>5. QED
    BY <1>1, <2>2, <2>3, <2>4 DEF IterationComplete, Requested, AllThere, Answered, Generated,
       SameEntry, InPlace, WrittenBy
<1>5. CASE Reader!NotFound
  <2>1. PICK name : Reader!Pop(name) /\ Reader!ReadAsStr(kind, archive, name) = {}
    BY <1>5 DEF Reader!NotFound
  <2>2. selection.criteria \notin {"select_all", "window"}
    BY <1>3, <1>5 DEF NamesOK, Reader!NotFound
  <2>3. ~Requested
    BY <1>1, <1>3, <2>1, RequestedIsFound
  <2>4. QED
    BY <1>1, <2>2, <2>3 DEF IterationComplete, Requested, AllThere, SameEntry, InPlace
<1>6. QED
  BY <1>4, <1>5 DEF GetNextNone

(* When an iteration ends, what was asked for of the bag that it began     *)
(* with has been generated: every entry, every message of the window, or   *)
(* the names in the order asked, if they were all there; whatever was      *)
(* written meanwhile and whatever the factories were replaced by.          *)
THEOREM IterationsAreComplete == SpecBag => []IterationComplete
<1>1. InitBag => IterationComplete
  BY DEF InitBag, IterationComplete
<1>2. BInv /\ PlanInv /\ IterationComplete /\ [NextBag]_bagvars => IterationComplete'
  <2> SUFFICES ASSUME BInv, PlanInv, IterationComplete, [NextBag]_bagvars,
                      iteration' = "ended"
               PROVE  IterationComplete'
    BY DEF IterationComplete
  <2>1. CASE UNCHANGED bagvars
    <3>1. /\ UNCHANGED <<kind, archive, spec, selection, index>>
          /\ UNCHANGED <<iteration, results, begun>>
      BY <2>1 DEF bagvars, vars, readvars
    <3>2. \A n : Generated(n)' = Generated(n)
      BY <3>1 DEF Generated, SameEntry, InPlace
    <3>3. QED
      BY <3>1, <3>2 DEF IterationComplete, AllThere, SameEntry, InPlace
  <2>2. CASE GetNextNone
    BY <2>2, EndIsComplete
  <2>3. ASSUME NEW s \in Sessions, PyWriter(s) PROVE FALSE
    BY <2>3 DEF PyWriter
  <2>4. ~IterEntries /\ ~IterElsewhere /\ ~GetNextPlans /\ ~GetNextThrows
    BY DEF IterEntries, IterElsewhere, GetNextPlans, GetNextThrows, Raise
  <2>5. ~GetNextEntry
    BY DEF GetNextEntry, FromNentry, Generate, Raise
  <2>6. QED
    BY <2>1, <2>2, <2>3, <2>4, <2>5 DEF NextBag, GetNext
<1>3. QED
  BY InitBInv, StepKeepsBInv, InitPlanInv, StepKeepsPlan, <1>1, <1>2, PTL DEF SpecBag

-----------------------------------------------------------------------------
(* A bag that one session wrote, with an index, and what it is asked for.  *)
Sole(s) ==
    /\ s \in Sessions /\ spec[s].descriptors /\ Answerable
    /\ \A i \in DOMAIN archive : archive[i].by = s /\ Decodable(archive[i])
    /\ \E i \in DOMAIN archive : archive[i].index # {}

LEMMA SoleIndex ==
    ASSUME WriteInv, GoneInv, NEW s, Sole(s)
    PROVE  LatestIndexes # {} /\ Reader!ReadLatestIndex # {}
<1>1. PICK i \in DOMAIN archive : archive[i].index # {}
  BY DEF Sole
<1>2. \A j \in DOMAIN archive : archive[j].index # {} => j = i
  BY <1>1 DEF Sole, WriteInv, OneInv, OneIndexPerSession
<1> DEFINE n == archive[i].name
           r == archive[i]
<1>3. /\ n \in Names /\ n.topic = IndexTopic
      /\ \A j \in DOMAIN archive :
           archive[j].name \in Names /\ (archive[j].index = {} => archive[j].name.topic.base # 1)
  <2>1. NamedOK(archive[i]) /\ \A j \in DOMAIN archive : NamedOK(archive[j])
    BY BagFacts
  <2>2. PICK t \in IndexTimes : n = StampedName(IndexTopic, t)
    BY <1>1, <2>1 DEF NamedOK
  <2>3. n.topic = IndexTopic
    BY <2>2 DEF StampedName
  <2>4. \A j \in DOMAIN archive :
          archive[j].name \in Names /\ (archive[j].index = {} => archive[j].name.topic.base # 1)
    BY <2>1 DEF NamedOK, Names, IndexTopic
  <2>5. QED
    BY <2>3, <2>4
<1>4. n.topic.base = 1 /\ n.topic.rooted = TRUE
  BY <1>3 DEF IndexTopic
<1>5. Listed(n) = n
  BY <1>3, <1>4 DEF Listed, Names
<1>6. ASSUME NEW j \in DOMAIN archive, SameEntry(kind, archive[j].name, n) PROVE j = i
  <2>1. archive[j].name.topic.base = 1
    <3>1. CASE archive[j].name = n
      BY <1>4, <3>1
    <3>2. CASE CanonEntryname(archive[j].name) = CanonEntryname(n)
      BY <1>3, <1>4, <3>2 DEF CanonEntryname, Names
    <3>3. QED
      BY <1>6, <3>1, <3>2 DEF SameEntry
  <2>2. QED
    BY <1>2, <1>3, <2>1
<1>7. r \in ReadAsStr(kind, archive, n)
  <2>1. SameEntry(kind, n, n)
    BY DEF SameEntry
  <2>2. i <= i
    BY BagFacts
  <2>3. QED
    BY <1>6, <2>1, <2>2 DEF ReadAsStr
<1>8. n \in Reader!NamesIn(kind, archive) /\ Reader!EntryIsInTopic(n, Reader!IndexTopic)
  BY <1>3, <1>5 DEF Reader!NamesIn, Reader!InPlace, Reader!Listed, Listed,
     Reader!EntryIsInTopic, Reader!IndexTopic, IndexTopic
<1>9. r.whole /\ r.index # {} /\ r.entry.stamp \in Int
  BY <1>1 DEF Sole, Decodable, GoneInv, IndexOfGone
<1>10. r \in Reader!IndexEntries
  <2>1. r \in Reader!ReadAsStr(kind, archive, n)
    BY <1>7, ReaderReads
  <2>2. QED
    BY <1>8, <1>9, <2>1 DEF Reader!IndexEntries
<1>11. \A q \in Reader!IndexEntries : q = r
  BY <1>2, IndexRecords
<1> HIDE DEF r
<1>12. \A q \in Reader!IndexEntries : r.entry.stamp <= q.entry.stamp
  BY <1>9, <1>11
<1>13. r \in LatestIndexes
  BY <1>10, <1>12 DEF LatestIndexes
<1>14. r.index \subseteq Reader!ReadLatestIndex
  BY <1>10, <1>12 DEF Reader!ReadLatestIndex
<1>15. QED
  BY <1>9, <1>13, <1>14

(* There is a list of the names, and a plan for what can be answered.      *)
LEMMA NamelistExists ==
    ASSUME WriteInv
    PROVE  GetNamelist(kind, archive) # {}
<1>1. CASE ~InPlace(kind)
  BY <1>1 DEF GetNamelist
<1>2. CASE InPlace(kind)
  <2> DEFINE names == NamesIn(kind, archive)
             n == Cardinality(names)
  <2>1. IsFiniteSet(names)
    BY NamesAreFinite
  <2>2. PICK f \in Bijection(1 .. n, names) : TRUE
    BY <2>1, FS_CardinalityType DEF ExistsBijection
  <2>3. f \in [1 .. n -> names] /\ \A m \in names : \E k \in 1 .. n : f[k] = m
    BY <2>2 DEF Bijection, Surjection
  <2>4. \A m \in names : \E k \in DOMAIN f : f[k] = m
    BY <2>3
  <2>5. f \in GetNamelist(kind, archive)
    BY <1>2, <2>3, <2>4 DEF GetNamelist
  <2>6. QED
    BY <2>5
<1>3. QED
  BY <1>1, <1>2

LEMMA SolePlans ==
    ASSUME BInv, NEW s, Sole(s)
    PROVE  ~Reader!PlanFails
<1> SUFFICES ASSUME Reader!PlanFails PROVE FALSE
  OBVIOUS
<1>1. PICK idx \in Reader!ReadLatestIndex : TRUE
  BY SoleIndex DEF BInv
<1>2. Reader!GetEntriesToRead(idx) = {}
  BY DEF Reader!PlanFails
<1>3. CASE selection.criteria = "select_all"
  <2>1. PICK names \in GetNamelist(kind, archive) : TRUE
    BY NamelistExists DEF BInv
  <2>2. names \in Reader!GetNamelist(kind, archive)
    BY ReaderNamelist
  <2>3. QED
    BY <1>2, <1>3, <2>2 DEF Reader!GetEntriesToRead
<1>4. CASE selection.criteria = "entrynames"
  BY <1>2, <1>4 DEF Reader!GetEntriesToRead
<1>5. CASE selection.criteria = "events"
  <2>1. ~selection.require_all
    BY <1>5 DEF Sole, Answerable
  <2>2. QED
    BY <1>2, <1>5, <2>1 DEF Reader!GetEntriesToRead
<1>6. CASE selection.criteria = "window"
  BY <1>2, <1>6 DEF Reader!GetEntriesToRead
<1>7. QED
  BY <1>3, <1>4, <1>5, <1>6 DEF Sole, Answerable

LEMMA SoleParses ==
    ASSUME BInv, NEW s, Sole(s)
    PROVE  ~Reader!ReadError
<1> SUFFICES ASSUME Reader!ReadError PROVE FALSE
  OBVIOUS
<1>1. PICK name : \E r \in Reader!ReadAsStr(kind, archive, name) : FALSE \in Reader!Parses(r)
  BY DEF Reader!ReadError
<1>2. PICK r \in ReadAsStr(kind, archive, name) : FALSE \in Reader!Parses(r)
  BY <1>1, ReaderReads
<1>3. PICK i \in DOMAIN archive : r = archive[i]
  BY DEF ReadAsStr
<1>4. Decodable(r) /\ (r.index # {} => r.entry.type = "StampedMessage")
  BY <1>3 DEF Sole, BInv, GoneInv, IndexOfGone
<1>5. r.whole /\ r.entry.type # "empty"
  BY <1>4 DEF Decodable
<1>6. QED
  BY <1>2, <1>5 DEF Reader!Parses

(* Names that an index lists, or that are asked for, are as they are       *)
(* listed: a message is found under the name its descriptors have.         *)
LEMMA SoleNames ==
    ASSUME BInv, NEW s, Sole(s), NEW n, NameOK(n), InPlace(kind)
    PROVE  Listed(n) = n
<1>1. ASSUME NEW i \in DOMAIN archive, archive[i].name = n, Lists(archive[i]) # {}
      PROVE  Listed(n) = n
  <2>1. /\ archive[i].index = {} /\ IsStampedMessage(archive[i].entry)
        /\ Decodable(archive[i])
    BY <1>1 DEF Lists, Sole
  <2>2. archive[i].entry \in UserEntries
    BY <2>1 DEF BInv, WriteInv, IInv, TypeOK
  <2>3. archive[i].entry.type # "raw"
    BY <2>1, <2>2, ProtobagAssumption DEF IsStampedMessage, HasTopic, GetTopicTime
  <2>4. archive[i].name \in NamesIn(kind, <<archive[i]>>)
    BY <2>1, <2>3 DEF Decodable
  <2>5. QED
    BY <1>1, <2>4, ListedName, BagFacts DEF NamesIn, BInv, NamedOK, Names
<1>2. CASE selection.criteria = "entrynames" /\ n \in RangeOf(selection.entrynames)
  BY <1>2 DEF Sole, Answerable
<1>3. QED
  BY <1>1, <1>2 DEF NameOK

LEMMA SoleDecodes ==
    ASSUME BInv, PlanInv, NEW s, Sole(s), GetNextEntry
    PROVE  iteration' # "raised"
<1>1. iteration = "run" /\ pc = "next"
  BY DEF GetNextEntry, Reader!ReadEntry
<1>2. started
  BY <1>1 DEF BInv, IterInv
<1>3. PlanShape /\ NamesOK
  BY <1>1, <1>2 DEF PlanInv
<1>4. PICK name : /\ name = Head(plan.entries_to_read) /\ name \in Planned /\ name \in Names
  <2>1. PICK name : Reader!Pop(name)
    BY DEF GetNextEntry, Reader!ReadEntry
  <2>2. QED
    BY <1>3, <2>1, PopStep
<1>5. PICK r \in ReadAsStr(kind, archive, name) : FromNentry(name, r)
  BY <1>4 DEF GetNextEntry
<1>6. PICK j \in DOMAIN archive : r = archive[j] /\ SameEntry(kind, archive[j].name, name)
  BY DEF ReadAsStr
<1>7. CASE TypeUrl(r) = "none" \/ TypeUrl(r) \in Registered
  BY <1>1, <1>5, <1>7 DEF FromNentry, Generate
<1>8. CASE ~(TypeUrl(r) = "none" \/ TypeUrl(r) \in Registered)
  <2>1. r.index = {} /\ r.entry.type \notin {"raw", "empty"}
    BY <1>8, ProtobagAssumption DEF TypeUrl
  <2>2. /\ r.by = s /\ Pins(r.entry) /\ r.name \in NamesIn(kind, <<r>>)
        /\ spec[s].descriptors /\ r.name \in Names
    BY <1>6, <2>1, BagFacts DEF Sole, Decodable, BInv, NamedOK, Names
  <2>3. r.name = name
    <3>1. CASE ~InPlace(kind)
      BY <1>6, <3>1 DEF SameEntry
    <3>2. CASE InPlace(kind)
      <4>1. Listed(name) = name
        BY <1>3, <1>4, <3>2, SoleNames DEF NamesOK
      <4>2. Listed(r.name) = r.name
        BY <2>2, <3>2, ListedName DEF NamesIn
      <4>3. CanonEntryname(r.name) = CanonEntryname(name)
        BY <1>6, <3>2 DEF SameEntry
      <4>4. QED
        BY <1>4, <2>2, <4>1, <4>2, <4>3, ListedOnce
    <3>3. QED
      BY <3>1, <3>2
  <2>4. ASSUME NEW f \in serdes PROVE name \in DOMAIN f.types
    <3>1. FactoryOK(f)
      BY DEF BInv, IterInv
    <3>2. f.by = s
      BY <3>1 DEF FactoryOK, Sole
    <3>3. j \in Pinned(s)
      BY <1>6, <2>1, <2>2 DEF Pinned
    <3>4. QED
      BY <1>6, <2>3, <3>1, <3>2, <3>3 DEF FactoryOK
  <2>5. QED
    BY <1>1, <1>5, <1>8, <2>4 DEF FromNentry, Generate
<1>9. QED
  BY <1>7, <1>8

DecodesOf(s) ==
    /\ \E i \in DOMAIN begun : begun[i].by = s /\ begun[i].index # {}
    /\ spec[s].descriptors
    /\ \A i \in DOMAIN archive : archive[i].by = s /\ Decodable(archive[i])
    /\ Answerable

LEMMA RaisingStep ==
    ASSUME BInv, [NextBag]_bagvars, iteration # "raised", iteration' = "raised"
    PROVE  /\ UNCHANGED <<kind, archive, spec, selection>>
           /\ \A i \in DOMAIN begun' : i \in DOMAIN archive /\ begun'[i] = archive[i]
           /\ \/ LatestIndexes = {} \/ Reader!PlanFails \/ Reader!ReadError
              \/ GetNextEntry
<1>1. CASE IterEntries
  BY <1>1 DEF IterEntries, vars, readvars
<1>2. CASE GetNextThrows
  BY <1>2 DEF GetNextThrows, Reader!PlanFails, Reader!ReadError, vars, BInv, IterInv
<1>3. CASE GetNextEntry
  BY <1>3 DEF GetNextEntry, Reader!ReadEntry, vars, BInv, IterInv
<1>4. \A s \in Sessions : ~PyWriter(s)
  BY DEF PyWriter
<1>5. ~IterElsewhere /\ ~GetNextPlans /\ ~GetNextNone /\ ~UNCHANGED bagvars
  BY DEF IterElsewhere, GetNextPlans, GetNextNone, bagvars
<1>6. QED
  BY <1>1, <1>2, <1>3, <1>4, <1>5 DEF NextBag, GetNext

(* A bag that one session wrote and closed with an index is read without   *)
(* an error, if its entries can be decoded at all: every plan is made, and *)
(* every name that it reads is one the index has a type for.               *)
THEOREM OneSessionsBagsDecode == SpecBag => []OneSessionDecodes
<1>1. InitBag => OneSessionDecodes
  BY DEF InitBag, OneSessionDecodes
<1>2. BInv /\ PlanInv /\ OneSessionDecodes /\ [NextBag]_bagvars => OneSessionDecodes'
  <2> SUFFICES ASSUME BInv, PlanInv, OneSessionDecodes, [NextBag]_bagvars,
                      NEW s \in Sessions, DecodesOf(s)'
               PROVE  iteration' # "raised"
    BY DEF OneSessionDecodes, DecodesOf
  <2>1. CASE iteration = "raised"
    <3>1. UNCHANGED bagvars
      BY <2>1 DEF NextBag, PyWriter, IterEntries, IterElsewhere, GetNext, GetNextPlans,
         GetNextEntry, GetNextThrows, GetNextNone
    <3>2. DecodesOf(s)' = DecodesOf(s)
      BY <3>1 DEF bagvars, vars, readvars, DecodesOf, Decodable, NamesIn, InPlace, Answerable
    <3>3. QED
      BY <2>1, <3>2 DEF OneSessionDecodes, DecodesOf
  <2>2. CASE iteration # "raised"
    <3> SUFFICES ASSUME iteration' = "raised" PROVE FALSE
      OBVIOUS
    <3>1. /\ UNCHANGED <<kind, archive, spec, selection>>
          /\ \A i \in DOMAIN begun' : i \in DOMAIN archive /\ begun'[i] = archive[i]
          /\ \/ LatestIndexes = {} \/ Reader!PlanFails \/ Reader!ReadError
             \/ GetNextEntry
      BY <2>2, RaisingStep
    <3>2. Sole(s)
      <4>1. Answerable' = Answerable /\ \A r : Decodable(r)' = Decodable(r)
        BY <3>1 DEF Answerable, Decodable, NamesIn, InPlace
      <4>2. QED
        BY <3>1, <4>1 DEF DecodesOf, Sole
    <3>3. QED
      BY <3>1, <3>2, SoleIndex, SolePlans, SoleParses, SoleDecodes DEF BInv
  <2>3. QED
    BY <2>1, <2>2
<1>3. QED
  BY InitBInv, StepKeepsBInv, InitPlanInv, StepKeepsPlan, <1>1, <1>2, PTL DEF SpecBag

=============================================================================

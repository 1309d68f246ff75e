---------------------------- MODULE ReadSession ----------------------------
(***************************************************************************)
(* protobag/ReadSession.cpp: a session that plans, at its first GetNext,   *)
(* which entries of an archive a Selection asks for, and reads them one    *)
(* call at a time.  Nothing is locked: entries of a directory may be       *)
(* deleted between the steps.                                              *)
(***************************************************************************)
EXTENDS Archives

CONSTANTS Contents,    \* the archives read, with their formats
          Selections,  \* the selections considered
          MaxAnswers   \* bound: what the caller has GetNext return

ASSUME ReadSessionAssumption ==
    /\ MaxAnswers \in Nat
    /\ \A sel \in Selections : sel.criteria = "entrynames" =>
         /\ sel.entrynames \in Seq(RangeOf(sel.entrynames))
         /\ NoName \notin RangeOf(sel.entrynames)

(* The archives are such as sessions write.                                *)
ASSUME ContentsAssumption == \A c \in Contents : Playable(c.archive)

VARIABLES kind,       \* the format of the archive
          archive,    \* its records, in the order they were written
          selection,  \* ReadSession::Spec::selection
          pc,         \* where GetNext is: "idle", to "plan", at the "next" entry
          started,    \* ReadSession::_started
          plan,       \* ReadSession::_plan
          answers,    \* history: what GetNext returned, in order
          index       \* history: the index the plan was made from

vars == <<kind, archive, selection, pc, started, plan, answers, index>>

NoPlan == [entries_to_read |-> <<>>, require_all |-> FALSE, raw_mode |-> FALSE]

Answer(status, name, entry) == [status |-> status, name |-> name, entry |-> entry]

Init ==
    /\ \E c \in Contents : kind = c.kind /\ archive = c.archive
    /\ selection \in Selections
    /\ pc = "idle"
    /\ started = FALSE
    /\ plan = NoPlan
    /\ answers = <<>>
    /\ index = {}

-----------------------------------------------------------------------------
(* The index entries that can be read; one cut short is passed over.       *)
IndexEntries ==
    {r \in UNION {ReadAsStr(kind, archive, n) : n \in
                    {m \in NamesIn(kind, archive) : EntryIsInTopic(m, IndexTopic)}} :
        r.whole /\ r.index # {}}

(* The comparison keeps the one with the earliest stamp.                   *)
ReadLatestIndex ==
    UNION {r.index : r \in {i \in IndexEntries :
                               \A k \in IndexEntries : i.entry.stamp <= k.entry.stamp}}

Event(tt) == [topic |-> tt.topic, stamp |-> tt.stamp]

ExclusiveEnd(window, tt) ==                                  \* mutant
    /\ tt.topic \notin window.exclude_topics
    /\ window.topics = {} \/ tt.topic \in window.topics
    /\ \A start \in window.start : start <= tt.stamp
    /\ \A end \in window.end : tt.stamp < end

InWindow(window, tt) ==
    /\ tt.topic \notin window.exclude_topics
    /\ window.topics = {} \/ tt.topic \in window.topics
    /\ \A start \in window.start : start <= tt.stamp
    /\ \A end \in window.end : tt.stamp <= end

NamesOf(tts) == [i \in DOMAIN tts |-> tts[i].entryname]

(* Some entry of the INDEX was not asked for.                              *)
EventsMissing(idx) ==
    \E tt \in RangeOf(idx.time_ordered_entries) : Event(tt) \notin selection.events

(* The plans for a selection; none if it is refused.                       *)
GetEntriesToRead(idx) ==
    CASE selection.criteria = "select_all" ->
            {[entries_to_read |-> names, require_all |-> FALSE,
              raw_mode |-> selection.raw] : names \in GetNamelist(kind, archive)}
      [] selection.criteria = "entrynames" ->
            {[entries_to_read |-> selection.entrynames,
              require_all |-> ~selection.ignore_missing, raw_mode |-> selection.raw]}
      [] selection.criteria = "events" ->
            IF selection.require_all /\ EventsMissing(idx) THEN {}
            ELSE {[entries_to_read |-> NamesOf(Sublist(idx.time_ordered_entries,
                     {tt \in RangeOf(idx.time_ordered_entries) :
                         Event(tt) \in selection.events})),
                   require_all |-> selection.require_all, raw_mode |-> FALSE]}
      [] selection.criteria = "window" ->
            {[entries_to_read |-> NamesOf(Sublist(idx.time_ordered_entries,
                {tt \in RangeOf(idx.time_ordered_entries) : InWindow(selection, tt)})),
              require_all |-> FALSE, raw_mode |-> FALSE]}
      [] OTHER -> {}

-----------------------------------------------------------------------------
PlansAgain == ~started \/ plan.entries_to_read = <<>>        \* mutant

NeedsPlan == ~started

Call ==
    /\ pc = "idle"
    /\ Len(answers) < MaxAnswers
    /\ pc' = IF NeedsPlan THEN "plan" ELSE "next"
    /\ UNCHANGED <<kind, archive, selection, started, plan, answers, index>>

Return(status, name, entry) ==
    /\ answers' = Append(answers, Answer(status, name, entry))
    /\ pc' = "idle"

(* No index, or a selection that is refused: the next call plans again.    *)
PlanFails ==
    /\ pc = "plan"
    /\ \A idx \in ReadLatestIndex : GetEntriesToRead(idx) = {}
    /\ Return("error", NoName, {})
    /\ UNCHANGED <<kind, archive, selection, started, plan, index>>

PlanNotKept ==                                               \* mutant
    /\ pc = "plan"
    /\ \E idx \in ReadLatestIndex : \E p \in GetEntriesToRead(idx) :
        /\ plan' = p
        /\ index' = {idx}
    /\ pc' = "next"
    /\ UNCHANGED <<kind, archive, selection, started, answers>>

Plan ==
    /\ pc = "plan"
    /\ \E idx \in ReadLatestIndex : \E p \in GetEntriesToRead(idx) :
        /\ plan' = p
        /\ index' = {idx}
    /\ started' = TRUE
    /\ pc' = "next"
    /\ UNCHANGED <<kind, archive, selection, answers>>

EndOfSequence ==
    /\ pc = "next"
    /\ plan.entries_to_read = <<>>
    /\ Return("end", NoName, {})
    /\ UNCHANGED <<kind, archive, selection, started, plan, index>>

PopLast(name) ==                                             \* mutant
    LET q == plan.entries_to_read
    IN  /\ q # <<>>
        /\ name = q[Len(q)]
        /\ plan' = [plan EXCEPT !.entries_to_read = SubSeq(@, 1, Len(@) - 1)]

Peek(name) ==                                                \* mutant
    /\ plan.entries_to_read # <<>>
    /\ name = Head(plan.entries_to_read)
    /\ UNCHANGED plan

(* An entry is popped whatever becomes of it.                              *)
Pop(name) ==
    /\ plan.entries_to_read # <<>>
    /\ name = Head(plan.entries_to_read)
    /\ plan' = [plan EXCEPT !.entries_to_read = Tail(@)]

(* What ReadEntryFrom makes of a record: the path gives the topic, and the *)
(* message the stamp.                                                      *)
EntryRead(r, name) ==
    IF r.entry.type = "StampedMessage" /\ ~plan.raw_mode
    THEN {UnpackFromStamped(Packed(name, r.entry.stamp))}
    ELSE {CreateRaw(name)}

(* PBFactory::LoadFromArray: a record that is not whole may still parse,   *)
(* as another message; one of no bytes is refused before it is parsed.     *)
Parses(r) ==
    IF r.entry.type = "empty" THEN {FALSE}
    ELSE IF r.whole THEN {TRUE} ELSE BOOLEAN

ReadEntry ==
    /\ pc = "next"
    /\ \E name \in RangeOf(plan.entries_to_read) :
        /\ Pop(name)
        /\ \E r \in ReadAsStr(kind, archive, name) :
            /\ plan.raw_mode \/ TRUE \in Parses(r)
            /\ Return("ok", name, EntryRead(r, name))
    /\ UNCHANGED <<kind, archive, selection, started, index>>

ReadError ==
    /\ pc = "next"
    /\ ~plan.raw_mode
    /\ \E name \in RangeOf(plan.entries_to_read) :
        /\ Pop(name)
        /\ \E r \in ReadAsStr(kind, archive, name) : FALSE \in Parses(r)
        /\ Return("error", name, {})
    /\ UNCHANGED <<kind, archive, selection, started, index>>

NotFoundSkips ==                                             \* mutant
    /\ pc = "next"
    /\ plan.require_all
    /\ \E name \in RangeOf(plan.entries_to_read) :
        /\ Pop(name)
        /\ ReadAsStr(kind, archive, name) = {}
    /\ UNCHANGED <<kind, archive, selection, pc, started, answers, index>>

NotFound ==
    /\ pc = "next"
    /\ plan.require_all
    /\ \E name \in RangeOf(plan.entries_to_read) :
        /\ Pop(name)
        /\ ReadAsStr(kind, archive, name) = {}
        /\ Return("not found", name, {})
    /\ UNCHANGED <<kind, archive, selection, started, index>>

(* Entries that are missing are passed over, by a recursive call.          *)
Skip ==
    /\ pc = "next"
    /\ ~plan.require_all
    /\ \E name \in RangeOf(plan.entries_to_read) :
        /\ Pop(name)
        /\ ReadAsStr(kind, archive, name) = {}
    /\ UNCHANGED <<kind, archive, selection, pc, started, answers, index>>

GetNext == PlanFails \/ Plan \/ EndOfSequence \/ ReadEntry \/ ReadError \/ NotFound \/ Skip

(* A file of a directory is deleted, by anyone.                            *)
Delete ==
    /\ kind = "directory"
    /\ \E name \in NamesIn(kind, archive) :
        archive' = Sublist(archive,
                       {r \in RangeOf(archive) : ~SameEntry(kind, r.name, name)})
    /\ UNCHANGED <<kind, selection, pc, started, plan, answers, index>>

Next == Call \/ GetNext \/ Delete

Spec == Init /\ [][Next]_vars

(* GetNext runs on the caller's thread: once called, it keeps going.       *)
FairSpec == Spec /\ WF_vars(GetNext)

-----------------------------------------------------------------------------
Answered == {i \in DOMAIN answers : answers[i].name # NoName}

AnsweredNames == {answers[i].name : i \in Answered}

(* Types; a session has a plan and the index it is from once it started.   *)
TypeOK ==
    /\ kind \in {c.kind : c \in Contents}
    /\ selection \in Selections
    /\ pc \in {"idle", "plan", "next"}
    /\ started = (index # {}) /\ (pc = "next" => started)
    /\ started \/ plan = NoPlan
    /\ Len(answers) <= MaxAnswers
    /\ \A i \in DOMAIN answers :
        answers[i].status \in {"ok", "error", "not found", "end"}

Indexed == UNION {RangeOf(idx.time_ordered_entries) : idx \in index}

(* Playback by window or events is in the order of the indexed timestamps, *)
(* whatever order the entries were written in.                             *)
PlaybackInTimeOrder ==
    selection.criteria \in {"window", "events"} =>
        \A i, j \in Answered : i < j =>
            \E tt, uu \in Indexed :
                /\ tt.entryname = answers[i].name /\ uu.entryname = answers[j].name
                /\ tt.stamp <= uu.stamp

(* ProtobagMsg.proto:69-82: a window selects the messages of its topics    *)
(* from its start to its end, both inclusive, less the excluded topics.    *)
Selects(window, tt) ==
    /\ \A t \in window.start \cup window.end :
        (t \in window.start => tt.stamp >= t) /\ (t \in window.end => tt.stamp <= t)
    /\ tt.topic \in (IF window.topics = {} THEN {tt.topic} ELSE window.topics)
                       \ window.exclude_topics

(* When a window has been played back, every message it selects has been   *)
(* answered, except those that were deleted, and no other message.         *)
PlaybackComplete ==
    (selection.criteria = "window" /\ started /\ plan.entries_to_read = <<>>) =>
        LET wanted == {tt.entryname : tt \in {tt \in Indexed : Selects(selection, tt)}}
        IN  /\ AnsweredNames \subseteq wanted
            /\ \A n \in wanted \ AnsweredNames : ReadAsStr(kind, archive, n) = {}

(* A caller that asks for entries by name, and not to ignore missing ones, *)
(* gets one answer for each name, in the order asked, whatever is deleted  *)
(* meanwhile and whichever answers are errors.                             *)
RequestedAnswered ==
    (selection.criteria = "entrynames" /\ ~selection.ignore_missing /\ started) =>
        LET n == Cardinality(Answered)
        IN  /\ n + Len(plan.entries_to_read) = Len(selection.entrynames)
            /\ \A i \in Answered : answers[i].name =
                  selection.entrynames[Cardinality({j \in Answered : j <= i})]

(* The end is the end: no call after EndOfSequence returns anything else.  *)
EndIsFinal ==
    \A i, j \in DOMAIN answers :
        i < j /\ answers[i].status = "end" => answers[j].status = "end"

(* Every call returns, however many entries it has to pass over.           *)
CallReturns == (pc # "idle") ~> (pc = "idle")

(* The name ReadLatestIndex, and protobag.py:387 "Get the (latest)         *)
(* `BagIndex`", promise the index that was written last.                   *)
LatestIndexRead ==
    [][Plan => \A r \in IndexEntries : \E i \in IndexEntries :
                 index' = i.index /\ r.entry.stamp <= i.entry.stamp]_vars

=============================================================================

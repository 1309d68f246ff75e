------------------------------ MODULE Protobag ------------------------------
(***************************************************************************)
(* python/protobag/protobag.py on protobag_native.cpp: sessions write to a *)
(* bag, in C++ or through PyWriter, while a Protobag iterates over it: its *)
(* PBSerdes takes the descriptors of the index, and PyReader's ReadSession *)
(* finds the entries, which are decoded one by one.                        *)
(*                                                                         *)
(* An entry also has the type of its message, `msg`, and the call that     *)
(* wrote it, `api`.  A session stands for one version of each type.        *)
(***************************************************************************)
EXTENDS WriteSession

CONSTANTS Selections,   \* what the user may ask iter_entries for
          Registered,   \* PBSerdes::_type_url_to_cls: types with generated code
          MaxAnswers    \* bound: what the ReadSession has GetNext return

(* A path is a topic and a leaf.  PBSerdes comes with the generated code of *)
(* the BagIndex (DEFAULT_MSG_TYPES); raw entries have no context.          *)
ASSUME ProtobagAssumption ==
    /\ MaxAnswers \in Nat
    /\ "BagIndex" \in Registered
    /\ \A sel \in Selections : sel.criteria = "entrynames" =>
         sel.entrynames \in Seq([topic : [rooted : BOOLEAN, base : Nat], leaf : Int])
    /\ \A e \in UserEntries : e.type = "raw" => e.ctx = {}

VARIABLES selection, pc, started, plan, answers, index,   \* of the ReadSession
          serdes,     \* PBSerdes::_dynamic_factory, of an index; or none
          iteration,  \* "none", "run", and then "ended" or "raised"
          results,    \* history: what the iteration generated, from what record
          begun       \* history: the bag when it began

Reader == INSTANCE ReadSession WITH Contents <- {}

readvars == <<selection, pc, started, plan, answers, index>>
bagvars == <<vars, readvars, serdes, iteration, results, begun>>

InitBag ==
    /\ Init
    /\ selection \in Selections
    /\ pc = "idle" /\ started = FALSE /\ plan = Reader!NoPlan
    /\ answers = <<>> /\ index = {}
    /\ serdes = {}
    /\ iteration = "none"
    /\ results = <<>>
    /\ begun = <<>>

-----------------------------------------------------------------------------
(* The index of a session                                                  *)

(* The builder pins an entry that comes with a context, files or a         *)
(* descriptor, and a type: not one of WriteMsg, which gives no type, nor   *)
(* one that was read from a bag.                                           *)
Pins(e) == e.api \in {"Create", "CreateStamped", "WriteStampedMsg"} /\ e.ctx # {}

FirstPin(n, log) ==                                          \* mutant
    CHOOSE i \in log :
        archive[i].name = n /\ \A j \in log : archive[j].name = n => i <= j

LastPin(n, log) ==
    CHOOSE i \in log :
        archive[i].name = n /\ \A j \in log : archive[j].name = n => j <= i

Pinned(s) ==
    {i \in DOMAIN archive :
        /\ archive[i].by = s /\ archive[i].index = {}
        /\ spec[s].descriptors /\ Pins(archive[i].entry)}

(* DynamicMessageFactory of the index of s: entryname_to_type_url, and the *)
(* session whose definitions it registers.                                 *)
DescriptorPoolData(s) ==
    [by |-> s,
     types |-> [n \in {archive[i].name : i \in Pinned(s)} |->
                   archive[LastPin(n, Pinned(s))].entry.msg]]

(* get_bag_index: the entries that ReadLatestIndex may choose.             *)
LatestIndexes ==
    {r \in Reader!IndexEntries :
        \A i \in Reader!IndexEntries : r.entry.stamp <= i.entry.stamp}

-----------------------------------------------------------------------------
(* Writing.  PyWriter::Close closes the session and lets go of it at once; *)
(* so does a writer that goes out of use.  A zip is not written anew while *)
(* it is read.  Bounds: nothing is written once the iteration is over, and *)
(* of sessions that have yet to begin, which are all alike, one begins.    *)

PyStart(s) ==
    /\ session[s] = "none" /\ s = CHOOSE r \in Sessions : session[r] = "none"
    /\ Create(s)
    /\ InPlace(kind) \/ iteration # "run"

PyClose(s) == Destroy(s)

PyWrite(s) ==
    \E e \in UserEntries : WriteEntry(s, e) \/ WriteEntryFails(s, e)

PyCrash(s) == Crash(s) \/ \E e \in UserEntries : CrashInWriteEntry(s, e)

PyWriter(s) ==
    /\ iteration \in {"none", "run"}
    /\ PyStart(s) \/ PyWrite(s) \/ PyClose(s) \/ PyCrash(s)
    /\ UNCHANGED <<readvars, serdes, iteration, results, begun>>

-----------------------------------------------------------------------------
(* Reading                                                                 *)

RegisterMoreTypes ==                                         \* mutant
    \E r \in LatestIndexes : serdes' = serdes \cup {DescriptorPoolData(r.by)}

(* register_dynamic_types_from_index replaces what was there.              *)
RegisterDynamicTypesFromIndex ==
    \E r \in LatestIndexes : serdes' = {DescriptorPoolData(r.by)}

(* iter_entries needs an index, whatever it is asked for.                  *)
IterEntries ==
    /\ iteration = "none"
    /\ Visible = archive
    /\ begun' = archive
    /\ \/ /\ LatestIndexes = {}
          /\ iteration' = "raised"
          /\ UNCHANGED serdes
       \/ /\ RegisterDynamicTypesFromIndex
          /\ iteration' = "run"
    /\ UNCHANGED <<vars, readvars, results>>

(* Somebody else iterates over the same Protobag.  (The pool of the        *)
(* process refuses definitions that differ from those it has: then that    *)
(* call raises and nothing is replaced.)                                   *)
IterElsewhere ==
    /\ iteration = "run"
    /\ RegisterDynamicTypesFromIndex
    /\ UNCHANGED <<vars, readvars, iteration, results, begun>>

Generate(name, r, type, by) ==
    /\ results' = Append(results, [name |-> name, record |-> r, type |-> type, by |-> by])
    /\ UNCHANGED iteration

Raise ==
    /\ iteration' = "raised"
    /\ UNCHANGED results

TypeUrl(r) ==
    IF plan.raw_mode \/ r.entry.type \in {"raw", "empty"} THEN "none"
    ELSE IF r.index # {} THEN "BagIndex" ELSE r.entry.msg

RawByType(name, r) ==                                        \* mutant
    IF TypeUrl(r) \in Registered THEN Generate(name, r, TypeUrl(r), r.by)
    ELSE \E factory \in serdes :
            IF name \in DOMAIN factory.types
            THEN Generate(name, r, factory.types[name], factory.by)
            ELSE Raise

(* Entry.from_nentry and PBSerdes.msg_from_typed_bytes: generated code is  *)
(* preferred, and the type pinned to the entry is to the entry's own.      *)
FromNentry(name, r) ==
    IF TypeUrl(r) = "none" \/ TypeUrl(r) \in Registered
    THEN Generate(name, r, TypeUrl(r), r.by)
    ELSE \E factory \in serdes :
            IF name \in DOMAIN factory.types
            THEN Generate(name, r, factory.types[name], factory.by)
            ELSE Raise

(* The steps of PyReader::GetNext.  An entry that was asked for and is not *)
(* found ends the iteration as the end does.                               *)
GetNextPlans ==
    /\ iteration = "run"
    /\ Reader!Call \/ Reader!Plan \/ Reader!Skip
    /\ UNCHANGED <<vars, serdes, iteration, results, begun>>

GetNextEntry ==
    /\ iteration = "run"
    /\ Reader!ReadEntry
    /\ LET name == Head(plan.entries_to_read)
       IN  \E r \in ReadAsStr(kind, archive, name) : FromNentry(name, r)
    /\ UNCHANGED <<vars, serdes, begun>>

ErrorEndsIteration ==                                        \* mutant
    /\ iteration = "run"
    /\ Reader!PlanFails \/ Reader!ReadError
    /\ iteration' = "ended"
    /\ UNCHANGED <<vars, serdes, results, begun>>

GetNextThrows ==
    /\ iteration = "run"
    /\ Reader!PlanFails \/ Reader!ReadError
    /\ Raise
    /\ UNCHANGED <<vars, serdes, begun>>

EndIsPassedOver ==                                           \* mutant
    /\ iteration = "run"
    /\ Reader!NotFound
    /\ iteration' = "ended"
    /\ UNCHANGED <<vars, serdes, results, begun>>

GetNextNone ==
    /\ iteration = "run"
    /\ Reader!EndOfSequence \/ Reader!NotFound
    /\ iteration' = "ended"
    /\ UNCHANGED <<vars, serdes, results, begun>>

GetNext == GetNextPlans \/ GetNextEntry \/ GetNextThrows \/ GetNextNone

NextBag ==
    \/ \E s \in Sessions : PyWriter(s)
    \/ IterEntries
    \/ IterElsewhere
    \/ GetNext

(* A caller that iterates takes all there is.                              *)
SpecBag == InitBag /\ [][NextBag]_bagvars /\ WF_bagvars(GetNext)

-----------------------------------------------------------------------------
(* Properties                                                              *)

(* Types; there is one factory once an iteration runs.                     *)
BagTypeOK ==
    /\ iteration \in {"none", "run", "ended", "raised"}
    /\ Cardinality(serdes) <= 1
    /\ \A factory \in serdes :
        factory.by \in Sessions /\ archive # <<>>
    /\ iteration \in {"run", "ended"} => serdes # {}
    /\ iteration = "none" => results = <<>> /\ pc = "idle"
    /\ Len(results) <= Len(answers)

Records(name) == {i \in DOMAIN archive : SameEntry(kind, archive[i].name, name)}

(* An entry is decoded as what its record is, with the definitions of the  *)
(* program that wrote it, however often it was written: unless sessions    *)
(* wrote the same entry, one of its records came without descriptors, a    *)
(* directory has it under names that differ in the leading '/', or a zip   *)
(* has it with several types.                                              *)
Ambiguous(name) ==
    \E i, j \in Records(name) :
        \/ archive[i].by # archive[j].by
        \/ Pins(archive[i].entry) # Pins(archive[j].entry)
        \/ archive[i].name # archive[j].name
        \/ ~InPlace(kind) /\ archive[i].entry.msg # archive[j].entry.msg

DecodedAsWritten ==
    \A k \in DOMAIN results :
        LET r == results[k].record
        IN  results[k].type \notin {"none", "BagIndex"} /\ ~Ambiguous(results[k].name) =>
                results[k].type = r.entry.msg /\ results[k].by = r.by

(* A bag that one session wrote and closed with an index is read without   *)
(* an error, if all its bytes are there, its messages were written with    *)
(* files or a descriptor, none is a raw entry of no bytes, each is listed  *)
(* under the name it has, and who asks for names asks for listed ones, and *)
(* does not require all events.                                            *)
Decodable(r) ==
    /\ r.whole
    /\ \/ r.index # {}
       \/ r.entry.type = "raw"
       \/ Pins(r.entry) /\ r.entry.type # "empty" /\ r.name \in NamesIn(kind, <<r>>)

Answerable ==
    /\ selection.criteria \in {"select_all", "entrynames", "events", "window"}
    /\ selection.criteria = "entrynames" /\ InPlace(kind) =>
          \A n \in RangeOf(selection.entrynames) : Listed(n) = n
    /\ selection.criteria = "events" => ~selection.require_all

OneSessionDecodes ==
    \A s \in Sessions :
        /\ \E i \in DOMAIN begun : begun[i].by = s /\ begun[i].index # {}
        /\ spec[s].descriptors
        /\ \A i \in DOMAIN archive : archive[i].by = s /\ Decodable(archive[i])
        /\ Answerable
        => iteration # "raised"

(* What an iteration has to have answered when it ends: of everything, all *)
(* the bag had when it began; of a window, the messages it selects of the  *)
(* session whose index it was planned by; of names that were all in the    *)
(* bag then, each of them as often as it was asked for and in that order.  *)
Generated(name) == \E k \in DOMAIN results : SameEntry(kind, results[k].name, name)

AllThere ==
    \A name \in RangeOf(selection.entrynames) :
        \E i \in DOMAIN begun : SameEntry(kind, begun[i].name, name)

IterationComplete ==
    iteration = "ended" =>
        /\ selection.criteria = "select_all" =>
              \A i \in DOMAIN begun : Generated(begun[i].name)
        /\ selection.criteria = "window" =>
              \E s \in Sessions : \E i \in DOMAIN archive :
                /\ archive[i].by = s /\ archive[i].index = index
                /\ spec[s].timeseries =>
                     \A j \in WrittenBy(archive, s, i) : \A tt \in Lists(archive[j]) :
                        Reader!Selects(selection, tt) => Generated(tt.entryname)
        /\ selection.criteria = "entrynames" /\ AllThere =>
              [k \in DOMAIN results |-> results[k].name] = selection.entrynames

(* No name that was asked for is missing silently ("By default, a "file    *)
(* not found" causes an error", ProtobagMsg.proto): it is, for PyReader    *)
(* takes "not found" for the end of the sequence.                          *)
RequiredNamesRead ==
    iteration = "ended" /\ selection.criteria = "entrynames" /\ ~selection.ignore_missing =>
        \A name \in RangeOf(selection.entrynames) : Generated(name)

(* An iteration comes to an end, whatever is written in the meantime.      *)
IterationEnds == iteration = "run" ~> iteration \in {"ended", "raised"}
=============================================================================

------------------------- MODULE DescriptorIndexer -------------------------
(***************************************************************************)
(* BagIndexBuilder::DescriptorIndexer of protobag/BagIndexBuilder.cpp: for *)
(* each type written, the .proto files a reader needs to decode it.        *)
(*                                                                         *)
(* A C++ entry has the descriptor of its message, whose files the indexer  *)
(* searches.  A Python writer runs the same search (build_fds_for_msg of   *)
(* protobag.py) before the call and passes the files it found.             *)
(***************************************************************************)
EXTENDS Descriptors, FiniteSets

CONSTANTS Generated,     \* the pool of the protobag library itself
          StampedType,   \* the type of protobag's StampedMessage
          StampedEntry,  \* "_protobag.StampedMessage", a name for an entry
          NoType,        \* an empty type URL
          UserEntries,   \* what may be written, see Entries
          MaxEntries     \* bound: entries written

Apis == {"Create", "CreateStamped", "Copy", "WriteMsg", "WriteStampedMsg"}

(* An entry: a message of some type, from a program with some pool, and    *)
(* the call that made it.  "Copy" is one read from an archive; the last    *)
(* two are those of a Python writer.                                       *)
Entries == [entryname : STRING, type : Types, pool : Pools, api : Apis]

ASSUME DescriptorIndexerAssumption ==
    /\ Generated \in Pools
    /\ StampedType \in Types
    /\ NoType \notin Types
    /\ StampedEntry \in STRING \ {""}
    /\ UserEntries \subseteq Entries
    /\ MaxEntries \in Nat

VARIABLES type_url_to_fds,        \* the files of each type indexed
          entryname_to_type_url,  \* the type of each entry indexed
          pc,       \* "idle", "build" (Python), "observe" or "search"
          entry,    \* the entry being written
          todo,     \* the calls of Observe it still needs
          q,        \* the files a search has yet to look at
          visited,  \* the names of those it has visited
          fds,      \* the copies it collected
          written   \* history: the entries written

index == <<type_url_to_fds, entryname_to_type_url>>
search == <<q, visited, fds>>
vars == <<index, pc, entry, todo, search, written>>

EmptyMap == [x \in {} |-> 0]
Put(map, key, value) ==
    [k \in DOMAIN map \cup {key} |-> IF k = key THEN value ELSE map[k]]

Init ==
    /\ type_url_to_fds = EmptyMap
    /\ entryname_to_type_url = EmptyMap
    /\ pc = "idle"
    /\ entry \in UserEntries
    /\ todo = <<>>
    /\ q = <<>>
    /\ visited = {}
    /\ fds = <<>>
    /\ written = {}

-----------------------------------------------------------------------------
(* What an entry brings along.  PyWriter::WriteMsg gives no type URL, and  *)
(* a copy has neither files nor a descriptor.                              *)

IsPython(e) == e.api \in {"WriteMsg", "WriteStampedMsg"}
IsStamped(e) == e.api \in {"CreateStamped", "Copy", "WriteStampedMsg"}
InnerTypeUrl(e) == IF e.api = "WriteMsg" THEN NoType ELSE e.type
Source(e) == IF IsPython(e) THEN "fds"
             ELSE IF e.api = "Copy" THEN "none" ELSE "descriptor"

Observation(entryname, type_url, source, pool) ==
    [entryname |-> entryname, type_url |-> type_url,
     source |-> source, pool |-> pool]

EntryOnly(e) ==                                              \* mutant
    <<Observation(e.entryname, InnerTypeUrl(e), Source(e), e.pool)>>

(* The calls of Observe that BagIndexBuilder::Observe makes for an entry.  *)
Observations(e) ==
    <<Observation(e.entryname, InnerTypeUrl(e), Source(e), e.pool)>> \o
    IF IsStamped(e)
    THEN <<Observation(StampedEntry, StampedType, "descriptor", Generated)>>
    ELSE <<>>

StartSearch(type) ==
    /\ q' = <<FileOf[type]>>
    /\ visited' = {}
    /\ fds' = <<>>

(* WriteEntry with an entry of C++: the builder observes it.               *)
WriteFromCpp(e) ==
    /\ pc = "idle"
    /\ Cardinality(written) < MaxEntries
    /\ ~IsPython(e)
    /\ written' = written \cup {e}
    /\ entry' = e
    /\ todo' = Observations(e)
    /\ pc' = "observe"
    /\ UNCHANGED <<index, search>>

(* _maybe_get_serialized_fds: _indexed_type_urls is always empty, so each  *)
(* message is searched.                                                    *)
WriteFromPython(e) ==
    /\ pc = "idle"
    /\ Cardinality(written) < MaxEntries
    /\ IsPython(e)
    /\ written' = written \cup {e}
    /\ entry' = e
    /\ StartSearch(e.type)
    /\ pc' = "build"
    /\ UNCHANGED <<index, todo>>

-----------------------------------------------------------------------------
(* The search for files.  C++ takes the oldest file of q, Python the last. *)

Searching == pc \in {"build", "search"}
Pool == IF pc = "build" THEN entry.pool ELSE todo[1].pool
Current == IF pc = "build" THEN q[Len(q)] ELSE q[1]
Rest == IF pc = "build" THEN SubSeq(q, 1, Len(q) - 1) ELSE Tail(q)

SkipWithoutPop ==                                            \* mutant
    /\ Searching /\ q # <<>>
    /\ Current \in visited
    /\ UNCHANGED vars

Skip ==
    /\ Searching /\ q # <<>>
    /\ Current \in visited
    /\ q' = Rest
    /\ UNCHANGED <<index, pc, entry, todo, visited, fds, written>>

VisitFileOnly ==                                             \* mutant
    /\ Searching /\ q # <<>>
    /\ Current \notin visited
    /\ visited' = visited \cup {Current}
    /\ fds' = Append(fds, FileDescriptorProto(Pool, Current))
    /\ q' = Rest
    /\ UNCHANGED <<index, pc, entry, todo, written>>

Visit ==
    /\ Searching /\ q # <<>>
    /\ Current \notin visited
    /\ visited' = visited \cup {Current}
    /\ fds' = Append(fds, FileDescriptorProto(Pool, Current))
    /\ q' = Rest \o Imports[Pool][Current]
    /\ UNCHANGED <<index, pc, entry, todo, written>>

(* The Python search is over: the entry and its files reach the builder.   *)
PassFds ==
    /\ pc = "build" /\ q = <<>>
    /\ todo' = Observations(entry)
    /\ pc' = "observe"
    /\ UNCHANGED <<index, entry, search, written>>

(* The search of Observe is over.                                          *)
StoreCollected ==
    /\ pc = "search" /\ q = <<>>
    /\ type_url_to_fds' = Put(type_url_to_fds, todo[1].type_url, fds)
    /\ todo' = Tail(todo)
    /\ pc' = "observe"
    /\ UNCHANGED <<entryname_to_type_url, entry, search, written>>

-----------------------------------------------------------------------------
(* DescriptorIndexer::Observe                                              *)

Observing == pc = "observe" /\ todo # <<>>

CanIndexUntyped(o) ==                                        \* mutant
    /\ o.source # "none"
    /\ o.entryname # ""

CanIndex(o) ==
    /\ o.source # "none"
    /\ o.type_url # NoType
    /\ o.entryname # ""

IgnoreObservation ==
    /\ Observing
    /\ ~CanIndex(todo[1])
    /\ todo' = Tail(todo)
    /\ UNCHANGED <<index, pc, entry, search, written>>

(* A type that is known is not indexed again.                              *)
ObserveKnown ==
    /\ Observing
    /\ CanIndex(todo[1])
    /\ entryname_to_type_url' =
         Put(entryname_to_type_url, todo[1].entryname, todo[1].type_url)
    /\ todo[1].type_url \in DOMAIN type_url_to_fds
    /\ todo' = Tail(todo)
    /\ UNCHANGED <<type_url_to_fds, pc, entry, search, written>>

ReplaceFds ==                                                \* mutant
    /\ Observing
    /\ CanIndex(todo[1])
    /\ entryname_to_type_url' =
         Put(entryname_to_type_url, todo[1].entryname, todo[1].type_url)
    /\ todo[1].source = "fds"
    /\ type_url_to_fds' = Put(type_url_to_fds, todo[1].type_url, fds)
    /\ todo' = Tail(todo)
    /\ UNCHANGED <<pc, entry, search, written>>

ObserveFds ==
    /\ Observing
    /\ CanIndex(todo[1])
    /\ entryname_to_type_url' =
         Put(entryname_to_type_url, todo[1].entryname, todo[1].type_url)
    /\ todo[1].type_url \notin DOMAIN type_url_to_fds
    /\ todo[1].source = "fds"
    /\ type_url_to_fds' = Put(type_url_to_fds, todo[1].type_url, fds)
    /\ todo' = Tail(todo)
    /\ UNCHANGED <<pc, entry, search, written>>

ObserveDescriptor ==
    /\ Observing
    /\ CanIndex(todo[1])
    /\ entryname_to_type_url' =
         Put(entryname_to_type_url, todo[1].entryname, todo[1].type_url)
    /\ todo[1].type_url \notin DOMAIN type_url_to_fds
    /\ todo[1].source = "descriptor"
    /\ StartSearch(todo[1].type_url)
    /\ pc' = "search"
    /\ UNCHANGED <<type_url_to_fds, entry, todo, written>>

Return ==
    /\ pc = "observe" /\ todo = <<>>
    /\ pc' = "idle"
    /\ UNCHANGED <<index, entry, todo, search, written>>

Observe ==
    \/ Skip
    \/ Visit
    \/ PassFds
    \/ StoreCollected
    \/ IgnoreObservation
    \/ ObserveKnown
    \/ ObserveFds
    \/ ObserveDescriptor
    \/ Return

Next ==
    \/ \E e \in UserEntries : WriteFromCpp(e) \/ WriteFromPython(e)
    \/ Observe

(* A call runs to its end; nobody has to write.                            *)
Spec == Init /\ [][Next]_vars /\ WF_vars(Observe)
-----------------------------------------------------------------------------
(* Properties                                                              *)

(* The types a session has seen used with a pool.                          *)
Used(type, pool) ==
    \/ type = StampedType /\ pool = Generated
    \/ \E e \in written : e.type = type /\ e.pool = pool

IsClosure(copies, pool, type) ==
    Elements(copies) = {FileDescriptorProto(pool, file) :
                          file \in Dependencies(pool, FileOf[type])}

Distinct(s) == \A i, j \in DOMAIN s : s[i] = s[j] => i = j

(* Every variable has its type.                                            *)
TypeOK ==
    /\ DOMAIN type_url_to_fds \subseteq Types
    /\ \A type \in DOMAIN type_url_to_fds :
          type_url_to_fds[type] \in Seq([pool : Pools, file : Files])
    /\ DOMAIN entryname_to_type_url \subseteq STRING
    /\ \A name \in DOMAIN entryname_to_type_url :
          entryname_to_type_url[name] \in Types
    /\ pc \in {"idle", "build", "observe", "search", "closed"}
    /\ entry \in UserEntries
    /\ q \in Seq(Files)
    /\ visited \subseteq Files
    /\ fds \in Seq([pool : Pools, file : Files])
    /\ written \subseteq UserEntries

(* The search, which looks at one file after the other and may meet a file *)
(* again by another import, stores for a type its file and everything that *)
(* imports, each once, all of the pool of some entry that had the type.    *)
CollectedIsClosure ==
    \A type \in DOMAIN type_url_to_fds :
        /\ Distinct(type_url_to_fds[type])
        /\ \E pool \in Pools : /\ Used(type, pool)
                              /\ IsClosure(type_url_to_fds[type], pool, type)

(* Between two writes, whatever entry the index pins to a type, the index  *)
(* has the files of the type, and any stamped entry brought StampedMessage *)
(* along, which holds its bytes.                                           *)
PinnedTypesKnown ==
    pc = "idle" =>
        /\ \A name \in DOMAIN entryname_to_type_url :
              entryname_to_type_url[name] \in DOMAIN type_url_to_fds
        /\ (\E e \in written : IsStamped(e)) => StampedType \in DOMAIN type_url_to_fds

(* ProtobagMsg.proto says that the index pins an entry "to the actual      *)
(* message definition used to record it": files stored for a type stay, a  *)
(* later entry with another version of them does not replace them.         *)
FirstDefinitionStays ==
    [][\A type \in DOMAIN type_url_to_fds :
          /\ type \in DOMAIN type_url_to_fds'
          /\ type_url_to_fds'[type] = type_url_to_fds[type]]_vars

(* The search of the imports ends, and with it the call to WriteEntry.     *)
WriteReturns == pc # "idle" ~> pc \in {"idle", "closed"}
=============================================================================

----------------------- MODULE DescriptorIndexer_proofs -----------------------
(* The descriptor index, for any files, pools, types and entries, and what *)
(* a reader builds from it.                                                *)
EXTENDS DynamicMsgFactory, OrderLemmas

Copies == [pool : Pools, file : Files]

Calls == [entryname : STRING, type_url : Types \cup {NoType},
          source : {"descriptor", "fds", "none"}, pool : Pools]

SearchType == IF pc = "build" THEN entry.type ELSE todo[1].type_url
Root == FileOf[SearchType]

(* What holds of a search on its way: it has visited only files the type   *)
(* needs, the root is visited or queued, and so is whatever a visited file *)
(* imports.  So when the queue is empty, it has visited all of them.       *)
SearchInv ==
    Searching =>
        /\ Root \in visited \cup Elements(q)
        /\ visited \cup Elements(q) \subseteq Dependencies(Pool, Root)
        /\ \A file \in visited :
              Elements(Imports[Pool][file]) \subseteq visited \cup Elements(q)
        /\ Elements(fds) = {FileDescriptorProto(Pool, file) : file \in visited}
        /\ Distinct(fds)

(* What holds of the calls of Observe to come: the type of each is one the *)
(* session has used, and the files passed are the ones it needs.           *)
TodoOK ==
    /\ todo \in Seq(Calls)
    /\ \A i \in DOMAIN todo :
          CanIndex(todo[i]) => Used(todo[i].type_url, todo[i].pool)
    /\ \A i \in DOMAIN todo :
          CanIndex(todo[i]) /\ todo[i].source = "fds" =>
              /\ i = 1
              /\ pc = "observe"
              /\ Distinct(fds)
              /\ IsClosure(fds, todo[i].pool, todo[i].type_url)
    /\ pc = "build" => Used(entry.type, entry.pool)
    /\ pc = "search" => /\ todo # <<>>
                        /\ CanIndex(todo[1])
                        /\ todo[1].type_url \notin DOMAIN type_url_to_fds

IInv == TypeOK /\ CollectedIsClosure /\ TodoOK /\ SearchInv
-----------------------------------------------------------------------------
(* Sequences as sets of their elements.                                    *)

LEMMA ElementsOfAppend ==
    ASSUME NEW S, NEW s \in Seq(S), NEW x \in S
    PROVE  Elements(Append(s, x)) = Elements(s) \cup {x}
<1>1. \A i \in DOMAIN s : i \in DOMAIN Append(s, x) /\ Append(s, x)[i] = s[i]
  OBVIOUS
<1>2. Append(s, x)[Len(s) + 1] = x /\ Len(s) + 1 \in DOMAIN Append(s, x)
  OBVIOUS
<1>3. \A i \in DOMAIN Append(s, x) : i \in DOMAIN s \/ i = Len(s) + 1
  OBVIOUS
<1> QED BY <1>1, <1>2, <1>3 DEF Elements

LEMMA ElementsOfConcat ==
    ASSUME NEW S, NEW s \in Seq(S), NEW t \in Seq(S)
    PROVE  /\ s \o t \in Seq(S)
           /\ Elements(s \o t) = Elements(s) \cup Elements(t)
<1>1. \A i \in DOMAIN s : i \in DOMAIN (s \o t) /\ (s \o t)[i] = s[i]
  OBVIOUS
<1>2. \A i \in DOMAIN t : Len(s) + i \in DOMAIN (s \o t) /\ (s \o t)[Len(s) + i] = t[i]
  OBVIOUS
<1>3. \A i \in DOMAIN (s \o t) :
         i \in DOMAIN s \/ (i - Len(s) \in DOMAIN t /\ (s \o t)[i] = t[i - Len(s)])
  OBVIOUS
<1>4. Elements(s \o t) \subseteq Elements(s) \cup Elements(t)
  BY <1>1, <1>3 DEF Elements
<1>5. Elements(s) \cup Elements(t) \subseteq Elements(s \o t)
  BY <1>1, <1>2 DEF Elements
<1> QED BY <1>4, <1>5

LEMMA ElementsOfTail ==
    ASSUME NEW S, NEW s \in Seq(S), s # <<>>
    PROVE  /\ Tail(s) \in Seq(S)
           /\ s[1] \in S
           /\ Elements(s) = {s[1]} \cup Elements(Tail(s))
<1>1. \A i \in DOMAIN Tail(s) : i + 1 \in DOMAIN s /\ Tail(s)[i] = s[i + 1]
  OBVIOUS
<1>2. \A i \in DOMAIN s : i = 1 \/ (i - 1 \in DOMAIN Tail(s) /\ Tail(s)[i - 1] = s[i])
  OBVIOUS
<1>3. 1 \in DOMAIN s
  OBVIOUS
<1>4. Elements(Tail(s)) \subseteq Elements(s)
  BY <1>1 DEF Elements
<1>5. Elements(s) \subseteq {s[1]} \cup Elements(Tail(s))
  BY <1>2 DEF Elements
<1>6. s[1] \in Elements(s)
  BY <1>3 DEF Elements
<1> QED BY <1>3, <1>4, <1>5, <1>6

LEMMA ElementsOfFront ==
    ASSUME NEW S, NEW s \in Seq(S), s # <<>>
    PROVE  /\ SubSeq(s, 1, Len(s) - 1) \in Seq(S)
           /\ s[Len(s)] \in S
           /\ Elements(s) = {s[Len(s)]} \cup Elements(SubSeq(s, 1, Len(s) - 1))
<1> DEFINE front == SubSeq(s, 1, Len(s) - 1)
<1>1. Len(s) \in Nat /\ Len(s) >= 1 /\ Len(s) \in DOMAIN s
  OBVIOUS
<1>2. front \in Seq(S) /\ DOMAIN front = 1 .. Len(s) - 1
  BY <1>1
<1>3. \A i \in DOMAIN front : i \in DOMAIN s /\ front[i] = s[i]
  BY <1>1, <1>2
<1>4. \A i \in DOMAIN s : i = Len(s) \/ i \in DOMAIN front
  BY <1>1, <1>2
<1>5. Elements(front) \subseteq Elements(s)
  BY <1>3 DEF Elements
<1>6. Elements(s) \subseteq {s[Len(s)]} \cup Elements(front)
  BY <1>3, <1>4 DEF Elements
<1>7. s[Len(s)] \in Elements(s)
  BY <1>1 DEF Elements
<1> QED BY <1>1, <1>2, <1>5, <1>6, <1>7

LEMMA DistinctAppend ==
    ASSUME NEW S, NEW s \in Seq(S), NEW x \in S, Distinct(s), x \notin Elements(s)
    PROVE  Distinct(Append(s, x))
<1>1. \A i \in DOMAIN Append(s, x) :
         \/ i \in DOMAIN s /\ Append(s, x)[i] = s[i]
         \/ i = Len(s) + 1 /\ Append(s, x)[i] = x
  OBVIOUS
<1>2. \A i \in DOMAIN s : s[i] # x
  BY DEF Elements
<1> QED BY <1>1, <1>2 DEF Distinct

LEMMA ElementsOfEmpty == Elements(<<>>) = {}
BY DEF Elements

LEMMA ElementsOfOne ==
    ASSUME NEW x
    PROVE  Elements(<<x>>) = {x}
BY DOMAIN <<x>> = {1} DEF Elements

-----------------------------------------------------------------------------
(* What a type needs contains its file and is closed under imports, and is *)
(* in every such set.                                                      *)

LEMMA DependenciesClosed ==
    ASSUME NEW pool \in Pools, NEW root \in Files
    PROVE  /\ root \in Dependencies(pool, root)
           /\ \A file \in Dependencies(pool, root) :
                 Elements(Imports[pool][file]) \subseteq Dependencies(pool, root)
<1>1. root \in Dependencies(pool, root)
  BY DEF Dependencies
<1>2. ASSUME NEW file \in Dependencies(pool, root),
             NEW dep \in Elements(Imports[pool][file])
      PROVE  dep \in Dependencies(pool, root)
  <2>1. file \in Files /\ Imports[pool][file] \in Seq(Files)
    BY DescriptorsAssumption DEF Dependencies
  <2>2. dep \in Files
    BY <2>1 DEF Elements
  <2>3. ASSUME NEW S \in SUBSET Files, root \in S, Closed(pool, S)
        PROVE  dep \in S
    <3>1. file \in S
      BY <2>3 DEF Dependencies
    <3> QED BY <3>1, <2>3 DEF Closed
  <2> QED BY <2>2, <2>3 DEF Dependencies
<1> QED BY <1>1, <1>2

LEMMA DependenciesLeast ==
    ASSUME NEW pool \in Pools, NEW root \in Files, NEW S \in SUBSET Files,
           root \in S, Closed(pool, S)
    PROVE  Dependencies(pool, root) \subseteq S
BY DEF Dependencies

-----------------------------------------------------------------------------
(* One step of a search.                                                   *)

LEMMA CurrentAndRest ==
    ASSUME q \in Seq(Files), q # <<>>
    PROVE  /\ Current \in Files
           /\ Rest \in Seq(Files)
           /\ Elements(q) = {Current} \cup Elements(Rest)
<1>1. CASE pc = "build"
  BY <1>1, ElementsOfFront DEF Current, Rest
<1>2. CASE pc # "build"
  BY <1>2, ElementsOfTail DEF Current, Rest
<1> QED BY <1>1, <1>2

LEMMA SearchIsTyped ==
    ASSUME TypeOK, TodoOK, Searching
    PROVE  /\ SearchType \in Types
           /\ Pool \in Pools
           /\ Root \in Files
           /\ Used(SearchType, Pool)
<1>1. CASE pc = "build"
  <2>1. entry.type \in Types /\ entry.pool \in Pools
    BY DescriptorIndexerAssumption DEF TypeOK, Entries
  <2>2. Used(entry.type, entry.pool)
    BY <1>1 DEF TodoOK
  <2> QED BY <1>1, <2>1, <2>2, DescriptorsAssumption DEF SearchType, Pool, Root
<1>2. CASE pc = "search"
  <2>1. todo # <<>> /\ CanIndex(todo[1]) /\ 1 \in DOMAIN todo
    BY <1>2 DEF TodoOK
  <2>5. todo[1] \in Calls
    BY <2>1 DEF TodoOK
  <2>2. todo[1].type_url \in Types \cup {NoType} /\ todo[1].pool \in Pools
    BY <2>5 DEF Calls
  <2>3. Used(todo[1].type_url, todo[1].pool)
    BY <2>1 DEF TodoOK
  <2>4. todo[1].type_url \in Types
    BY <2>1, <2>2 DEF CanIndex
  <2> QED BY <1>2, <2>2, <2>3, <2>4, DescriptorsAssumption DEF SearchType, Pool, Root
<1> QED BY <1>1, <1>2 DEF Searching

(* The search is over when nothing is queued, and has then found all.      *)
LEMMA SearchFindsClosure ==
    ASSUME TypeOK, TodoOK, SearchInv, Searching, q = <<>>
    PROVE  IsClosure(fds, Pool, SearchType) /\ Distinct(fds)
<1>1. /\ Pool \in Pools
      /\ Root \in Files
      /\ visited \subseteq Files
  BY SearchIsTyped DEF TypeOK
<1>2. Elements(q) = {}
  BY ElementsOfEmpty
<1>3. /\ Root \in visited
      /\ visited \subseteq Dependencies(Pool, Root)
      /\ Closed(Pool, visited)
  BY <1>2 DEF SearchInv, Closed
<1>4. visited = Dependencies(Pool, Root)
  BY <1>1, <1>3, DependenciesLeast
<1> QED BY <1>4 DEF SearchInv, IsClosure, Root

-----------------------------------------------------------------------------
(* IInv holds at first and every step keeps it.                            *)

LEMMA InitIInv == Init => IInv
<1> SUFFICES ASSUME Init PROVE IInv
  OBVIOUS
<1>1. TypeOK
  BY DEF Init, TypeOK, EmptyMap
<1>2. CollectedIsClosure
  BY DEF Init, CollectedIsClosure, EmptyMap
<1>3. TodoOK
  BY DEF Init, TodoOK
<1>4. SearchInv
  BY DEF Init, SearchInv, Searching
<1> QED BY <1>1, <1>2, <1>3, <1>4 DEF IInv

LEMMA ConcatOfOnes ==
    ASSUME NEW S, NEW x \in S, NEW y \in S
    PROVE  /\ <<x>> \o <<y>> \in Seq(S)
           /\ DOMAIN (<<x>> \o <<y>>) = {1, 2}
           /\ (<<x>> \o <<y>>)[1] = x
           /\ (<<x>> \o <<y>>)[2] = y
<1>1. <<x>> \in Seq(S) /\ <<y>> \in Seq(S) /\ Len(<<x>>) = 1 /\ Len(<<y>>) = 1
  OBVIOUS
<1> QED BY <1>1

(* The calls made for an entry are about its own type, with its files or   *)
(* descriptor, and about StampedMessage.                                   *)
LEMMA ObservationsAreCalls ==
    ASSUME NEW e \in UserEntries
    PROVE  /\ Observations(e) \in Seq(Calls)
           /\ \A i \in DOMAIN Observations(e) :
                 LET o == Observations(e)[i]
                 IN  /\ CanIndex(o) =>
                          \/ o.type_url = e.type /\ o.pool = e.pool
                          \/ o.type_url = StampedType /\ o.pool = Generated
                     /\ CanIndex(o) /\ o.source = "fds" =>
                          i = 1 /\ IsPython(e) /\ o.type_url = e.type /\ o.pool = e.pool
<1> DEFINE first == Observation(e.entryname, InnerTypeUrl(e), Source(e), e.pool)
           second == Observation(StampedEntry, StampedType, "descriptor", Generated)
<1>0. e \in Entries
  BY DescriptorIndexerAssumption
<1>1. e.entryname \in STRING /\ e.type \in Types /\ e.pool \in Pools
  BY <1>0 DEF Entries
<1>2. first \in Calls
  BY <1>1 DEF Calls, Observation, InnerTypeUrl, Source
<1>3. second \in Calls
  BY DescriptorIndexerAssumption DEF Calls, Observation
<1>4. CanIndex(first) => first.type_url = e.type /\ first.pool = e.pool
  BY DEF CanIndex, Observation, InnerTypeUrl
<1>5. second.type_url = StampedType /\ second.pool = Generated
  BY DEF Observation
<1>6. second.source # "fds" /\ (first.source = "fds" => IsPython(e))
  BY DEF Observation, Source
<1> HIDE DEF first, second
<1>7. CASE IsStamped(e)
  <2>1. Observations(e) = <<first>> \o <<second>>
    BY <1>7, Zenon DEF Observations, first, second
  <2>2. /\ Observations(e) \in Seq(Calls)
        /\ DOMAIN Observations(e) = {1, 2}
        /\ Observations(e)[1] = first
        /\ Observations(e)[2] = second
    BY <1>2, <1>3, <2>1, ConcatOfOnes
  <2> QED BY <2>2, <1>4, <1>5, <1>6
<1>8. CASE ~IsStamped(e)
  <2>1. Observations(e) = <<first>> \o <<>>
    BY <1>8, Zenon DEF Observations, first
  <2>2. <<first>> \in Seq(Calls)
    BY <1>2
  <2>3. /\ Observations(e) \in Seq(Calls)
        /\ DOMAIN Observations(e) = {1}
        /\ Observations(e)[1] = first
    BY <2>1, <2>2
  <2> QED BY <2>3, <1>4, <1>6
<1> QED BY <1>7, <1>8

(* A pool a type was used with stays one.                                  *)
LEMMA UsedStays ==
    ASSUME written \subseteq written', NEW type, NEW pool, Used(type, pool)
    PROVE  Used(type, pool)'
BY DEF Used

(* The calls of an entry that was written are as TodoOK says, once the     *)
(* files of a Python entry are there.                                      *)
LEMMA ObservationsTodoOK ==
    ASSUME NEW e \in UserEntries, Used(e.type, e.pool)', pc' = "observe",
           todo' = Observations(e),
           IsPython(e) => IsClosure(fds, e.pool, e.type)' /\ Distinct(fds)'
    PROVE  TodoOK'
<1> DEFINE obs == Observations(e)
<1>1. /\ obs \in Seq(Calls)
      /\ \A i \in DOMAIN obs :
           /\ CanIndex(obs[i]) =>
                \/ obs[i].type_url = e.type /\ obs[i].pool = e.pool
                \/ obs[i].type_url = StampedType /\ obs[i].pool = Generated
           /\ CanIndex(obs[i]) /\ obs[i].source = "fds" =>
                i = 1 /\ IsPython(e) /\ obs[i].type_url = e.type /\ obs[i].pool = e.pool
  BY ObservationsAreCalls
<1>2. Used(StampedType, Generated)'
  BY DEF Used
<1> HIDE DEF obs
<1>3. \A i \in DOMAIN obs : CanIndex(obs[i]) => Used(obs[i].type_url, obs[i].pool)'
  BY <1>1, <1>2
<1>4. \A i \in DOMAIN obs : CanIndex(obs[i]) /\ obs[i].source = "fds" =>
         i = 1 /\ Distinct(fds)' /\ IsClosure(fds, obs[i].pool, obs[i].type_url)'
  BY <1>1
<1>5. todo' = obs
  BY DEF obs
<1> QED BY <1>1, <1>3, <1>4, <1>5 DEF TodoOK

(* One call of Observe is done.                                            *)
LEMMA TailTodoOK ==
    ASSUME TodoOK, todo # <<>>, todo' = Tail(todo), pc' = "observe",
           written' = written
    PROVE  TodoOK'
<1>1. todo' \in Seq(Calls) /\ todo \in Seq(Calls)
  BY ElementsOfTail DEF TodoOK
<1>2. \A i \in DOMAIN todo' :
         i + 1 \in DOMAIN todo /\ todo'[i] = todo[i + 1] /\ i + 1 # 1
  BY <1>1
<1>3. (\A i \in DOMAIN todo :
          CanIndex(todo[i]) => Used(todo[i].type_url, todo[i].pool))'
  <2>1. ASSUME NEW i \in DOMAIN todo', CanIndex(todo'[i])
        PROVE  Used(todo[i].type_url, todo[i].pool)'
    <3>1. i + 1 \in DOMAIN todo /\ todo'[i] = todo[i + 1]
      BY <1>2
    <3>2. Used(todo[i + 1].type_url, todo[i + 1].pool)
      BY <2>1, <3>1 DEF TodoOK
    <3> QED BY <3>1, <3>2 DEF Used
  <2> QED BY <2>1 DEF CanIndex
<1>4. \A i \in DOMAIN todo' : ~(CanIndex(todo'[i]) /\ todo'[i].source = "fds")
  BY <1>2 DEF TodoOK
<1> QED BY <1>1, <1>3, <1>4 DEF TodoOK, CanIndex

(* A type is stored with its closure.                                      *)
LEMMA StoreKeeps ==
    ASSUME CollectedIsClosure, written' = written,
           NEW type \in Types, NEW pool \in Pools, Used(type, pool),
           IsClosure(fds, pool, type), Distinct(fds),
           type_url_to_fds' = Put(type_url_to_fds, type, fds)
    PROVE  CollectedIsClosure'
<1>1. Used(type, pool)'
  BY DEF Used
<1>2. /\ DOMAIN type_url_to_fds' = DOMAIN type_url_to_fds \cup {type}
      /\ type_url_to_fds'[type] = fds
      /\ \A t \in DOMAIN type_url_to_fds \ {type} :
            type_url_to_fds'[t] = type_url_to_fds[t]
  BY DEF Put
<1>3. ASSUME NEW t \in DOMAIN type_url_to_fds'
      PROVE  /\ Distinct(type_url_to_fds'[t])
             /\ \E p \in Pools : Used(t, p)' /\ IsClosure(type_url_to_fds'[t], p, t)
  <2>1. CASE t = type
    BY <2>1, <1>1, <1>2
  <2>2. CASE t # type
    BY <2>2, <1>2, <1>3 DEF CollectedIsClosure, Used
  <2> QED BY <2>1, <2>2
<1> QED BY <1>3 DEF CollectedIsClosure

LEMMA PutIsTyped ==
    ASSUME TypeOK, NEW type \in Types,
           type_url_to_fds' = Put(type_url_to_fds, type, fds)
    PROVE  /\ DOMAIN type_url_to_fds' \subseteq Types
           /\ \A t \in DOMAIN type_url_to_fds' :
                 type_url_to_fds'[t] \in Seq([pool : Pools, file : Files])
BY DEF TypeOK, Put

LEMMA PinIsTyped ==
    ASSUME TypeOK, TodoOK, Observing, CanIndex(todo[1]),
           entryname_to_type_url' =
             Put(entryname_to_type_url, todo[1].entryname, todo[1].type_url)
    PROVE  /\ todo[1] \in Calls
           /\ todo[1].type_url \in Types
           /\ todo[1].pool \in Pools
           /\ 1 \in DOMAIN todo
           /\ todo # <<>>
           /\ DOMAIN entryname_to_type_url' \subseteq STRING
           /\ \A name \in DOMAIN entryname_to_type_url' :
                 entryname_to_type_url'[name] \in Types
<1>1. todo \in Seq(Calls) /\ todo # <<>> /\ 1 \in DOMAIN todo
  BY DEF Observing, TodoOK
<1>2. todo[1] \in Calls
  BY <1>1
<1>3. /\ todo[1].type_url \in Types
      /\ todo[1].pool \in Pools
      /\ todo[1].entryname \in STRING
  BY <1>2 DEF Calls, CanIndex
<1> QED BY <1>1, <1>2, <1>3 DEF TypeOK, Put

(* A search starts with the root in the queue and nothing visited.         *)
LEMMA StartOfSearch ==
    ASSUME Root' \in Files, Pool' \in Pools,
           q' = <<Root'>>, visited' = {}, fds' = <<>>
    PROVE  SearchInv'
<1>1. Elements(q)' = {Root'}
  BY ElementsOfOne DEF Elements
<1>2. Elements(fds)' = {}
  BY ElementsOfEmpty DEF Elements
<1>3. Root' \in Dependencies(Pool', Root')
  BY DependenciesClosed
<1>4. Distinct(fds)'
  BY DEF Distinct
<1> QED BY <1>1, <1>2, <1>3, <1>4 DEF SearchInv

-----------------------------------------------------------------------------
(* Each action keeps IInv.                                                 *)

LEMMA WritesKeepIInv ==
    ASSUME IInv, NEW e \in UserEntries, WriteFromCpp(e) \/ WriteFromPython(e)
    PROVE  IInv'
<1>1. written' = written \cup {e} /\ type_url_to_fds' = type_url_to_fds
  BY DEF WriteFromCpp, WriteFromPython, index
<1>2. Used(e.type, e.pool)'
  BY <1>1 DEF Used
<1>3. CollectedIsClosure'
  BY <1>1, UsedStays DEF IInv, CollectedIsClosure
<1>4. e.type \in Types /\ e.pool \in Pools /\ FileOf[e.type] \in Files
  BY DescriptorIndexerAssumption, DescriptorsAssumption DEF Entries
<1>5. CASE WriteFromCpp(e)
  <2>1. TypeOK'
    BY <1>5 DEF WriteFromCpp, index, search, IInv, TypeOK
  <2>2. TodoOK'
    BY <1>2, <1>5, ObservationsTodoOK DEF WriteFromCpp
  <2>3. SearchInv'
    BY <1>5 DEF WriteFromCpp, SearchInv, Searching
  <2> QED BY <1>3, <2>1, <2>2, <2>3 DEF IInv
<1>6. CASE WriteFromPython(e)
  <2>1. /\ pc = "idle" /\ pc' = "build"
        /\ entry' = e /\ todo' = todo
        /\ entryname_to_type_url' = entryname_to_type_url
        /\ q' = <<FileOf[e.type]>> /\ visited' = {} /\ fds' = <<>>
    BY <1>6 DEF WriteFromPython, StartSearch, index
  <2>2. TypeOK'
    <3>1. q' \in Seq(Files) /\ fds' \in Seq([pool : Pools, file : Files])
      BY <1>4, <2>1
    <3> QED BY <1>1, <2>1, <3>1 DEF IInv, TypeOK
  <2>3. TodoOK'
    <3>1. (\A i \in DOMAIN todo :
              CanIndex(todo[i]) => Used(todo[i].type_url, todo[i].pool))'
      BY <1>1, <2>1 DEF IInv, TodoOK, Used, CanIndex
    <3>2. \A i \in DOMAIN todo : ~(CanIndex(todo[i]) /\ todo[i].source = "fds")
      BY <2>1 DEF IInv, TodoOK
    <3> QED BY <1>2, <2>1, <3>1, <3>2 DEF IInv, TodoOK, CanIndex
  <2>4. Pool' = e.pool /\ Root' = FileOf[e.type]
    BY <2>1 DEF Pool, Root, SearchType
  <2>5. SearchInv'
    BY <1>4, <2>1, <2>4, StartOfSearch
  <2> QED BY <1>3, <2>2, <2>3, <2>5 DEF IInv
<1> QED BY <1>5, <1>6

LEMMA SearchStepsKeepIInv ==
    ASSUME IInv, Skip \/ Visit
    PROVE  IInv'
<1>1. /\ Searching /\ q # <<>>
      /\ type_url_to_fds' = type_url_to_fds
      /\ entryname_to_type_url' = entryname_to_type_url
      /\ pc' = pc /\ entry' = entry /\ todo' = todo /\ written' = written
  BY DEF Skip, Visit, index
<1>2. /\ SearchType \in Types /\ Pool \in Pools /\ Root \in Files
      /\ Pool' = Pool /\ Root' = Root /\ Searching' = Searching
  BY <1>1, SearchIsTyped DEF IInv, Pool, Root, SearchType, Searching
<1>3. /\ q \in Seq(Files) /\ visited \subseteq Files
      /\ fds \in Seq([pool : Pools, file : Files])
  BY DEF IInv, TypeOK
<1>4. /\ Current \in Files /\ Rest \in Seq(Files)
      /\ Elements(q) = {Current} \cup Elements(Rest)
  BY <1>1, <1>3, CurrentAndRest
<1>5. CollectedIsClosure'
  BY <1>1, UsedStays DEF IInv, CollectedIsClosure
<1>6. TodoOK'
  <2>1. pc # "observe"
    BY <1>1 DEF Searching
  <2>2. (\A i \in DOMAIN todo :
            CanIndex(todo[i]) => Used(todo[i].type_url, todo[i].pool))'
    BY <1>1 DEF IInv, TodoOK, Used, CanIndex
  <2>3. \A i \in DOMAIN todo : ~(CanIndex(todo[i]) /\ todo[i].source = "fds")
    BY <2>1 DEF IInv, TodoOK
  <2>4. (pc = "build" => Used(entry.type, entry.pool))'
    BY <1>1 DEF IInv, TodoOK, Used
  <2> QED BY <1>1, <2>2, <2>3, <2>4 DEF IInv, TodoOK, CanIndex
<1>7. /\ Root \in visited \cup Elements(q)
      /\ visited \cup Elements(q) \subseteq Dependencies(Pool, Root)
      /\ \A file \in visited :
            Elements(Imports[Pool][file]) \subseteq visited \cup Elements(q)
      /\ Elements(fds) = {FileDescriptorProto(Pool, file) : file \in visited}
      /\ Distinct(fds)
  BY <1>1 DEF IInv, SearchInv
<1>8. CASE Skip
  <2>1. /\ Current \in visited /\ q' = Rest
        /\ visited' = visited /\ fds' = fds
    BY <1>8 DEF Skip
  <2>2. TypeOK'
    BY <1>1, <1>4, <2>1 DEF IInv, TypeOK
  <2>3. visited' \cup Elements(q)' = visited \cup Elements(q)
    BY <1>4, <2>1 DEF Elements
  <2>4. Elements(fds)' = Elements(fds) /\ Distinct(fds)'
    BY <1>7, <2>1 DEF Elements, Distinct
  <2>5. SearchInv'
    BY <1>2, <1>7, <2>1, <2>3, <2>4 DEF SearchInv
  <2> QED BY <1>5, <1>6, <2>2, <2>5 DEF IInv
<1>9. CASE Visit
  <2> DEFINE copy == FileDescriptorProto(Pool, Current)
             imports == Imports[Pool][Current]
  <2>1. /\ Current \notin visited
        /\ visited' = visited \cup {Current}
        /\ fds' = Append(fds, copy)
        /\ q' = Rest \o imports
    BY <1>9 DEF Visit
  <2>2. imports \in Seq(Files) /\ copy \in [pool : Pools, file : Files]
    BY <1>2, <1>4, DescriptorsAssumption DEF FileDescriptorProto
  <2>3. copy \notin Elements(fds)
    BY <1>7, <2>1 DEF FileDescriptorProto
  <2>4. Current \in Dependencies(Pool, Root)
    BY <1>4, <1>7
  <2>5. Elements(imports) \subseteq Dependencies(Pool, Root)
    BY <1>2, <2>4, DependenciesClosed
  <2> HIDE DEF copy, imports
  <2>6. Rest \o imports \in Seq(Files)
        /\ Elements(Rest \o imports) = Elements(Rest) \cup Elements(imports)
    BY <1>4, <2>2, ElementsOfConcat
  <2>7. Elements(q)' = Elements(Rest) \cup Elements(imports)
    BY <2>1, <2>6 DEF Elements
  <2>8. visited' \cup Elements(q)' = visited \cup Elements(q) \cup Elements(imports)
    BY <1>4, <2>1, <2>7
  <2>9. TypeOK'
    <3>1. fds' \in Seq([pool : Pools, file : Files])
      BY <1>3, <2>1, <2>2
    <3> QED BY <1>1, <1>4, <2>1, <2>6, <3>1 DEF IInv, TypeOK
  <2>10. Elements(fds)' = Elements(fds) \cup {copy}
    <3>1. fds \in Seq(Copies) /\ copy \in Copies
      BY <1>3, <2>2 DEF Copies
    <3>2. Elements(Append(fds, copy)) = Elements(fds) \cup {copy}
      BY <3>1, ElementsOfAppend
    <3> QED BY <2>1, <3>2 DEF Elements
  <2>11. Elements(fds)' = {FileDescriptorProto(Pool, file) : file \in visited'}
    BY <1>7, <2>1, <2>10 DEF copy
  <2>12. Distinct(fds)'
    <3>1. fds \in Seq(Copies) /\ copy \in Copies
      BY <1>3, <2>2 DEF Copies
    <3>2. Distinct(Append(fds, copy))
      BY <1>7, <2>3, <3>1, DistinctAppend
    <3> QED BY <2>1, <3>2 DEF Distinct
  <2>13. \A file \in visited' :
            Elements(Imports[Pool][file]) \subseteq visited' \cup Elements(q)'
    <3>1. \A file \in visited :
             Elements(Imports[Pool][file]) \subseteq visited' \cup Elements(q)'
      BY <1>7, <2>8
    <3>2. Elements(Imports[Pool][Current]) \subseteq visited' \cup Elements(q)'
      BY <2>8 DEF imports
    <3> QED BY <2>1, <3>1, <3>2
  <2>14. visited' \cup Elements(q)' \subseteq Dependencies(Pool, Root)
    BY <1>7, <2>5, <2>8
  <2>15. Root \in visited' \cup Elements(q)'
    BY <1>7, <2>8
  <2>16. SearchInv'
    BY <1>2, <2>11, <2>12, <2>13, <2>14, <2>15 DEF SearchInv
  <2> QED BY <1>5, <1>6, <2>9, <2>16 DEF IInv
<1> QED BY <1>8, <1>9

LEMMA PassFdsKeepsIInv ==
    ASSUME IInv, PassFds
    PROVE  IInv'
<1>1. /\ pc = "build" /\ q = <<>> /\ Searching
      /\ todo' = Observations(entry) /\ pc' = "observe"
      /\ type_url_to_fds' = type_url_to_fds
      /\ entryname_to_type_url' = entryname_to_type_url
      /\ entry' = entry /\ written' = written
      /\ q' = q /\ visited' = visited /\ fds' = fds
  BY DEF PassFds, Searching, index, search
<1>2. IsClosure(fds, entry.pool, entry.type) /\ Distinct(fds)
  BY <1>1, SearchFindsClosure DEF IInv, Pool, SearchType
<1>3. IsClosure(fds, entry.pool, entry.type)' /\ Distinct(fds)'
  BY <1>1, <1>2 DEF IsClosure, Distinct, Elements
<1>4. Used(entry.type, entry.pool)'
  BY <1>1 DEF IInv, TodoOK, Used
<1>5. entry \in UserEntries
  BY DEF IInv, TypeOK
<1>6. TodoOK'
  <2>1. \A e \in UserEntries : e = entry => Used(e.type, e.pool)'
    BY <1>1, <1>4 DEF Used
  <2>2. \A e \in UserEntries : e = entry =>
           IsClosure(fds, e.pool, e.type)' /\ Distinct(fds)'
    BY <1>1, <1>3 DEF IsClosure
  <2>3. PICK e \in UserEntries : e = entry
    BY <1>5
  <2> QED BY <1>1, <2>1, <2>2, <2>3, ObservationsTodoOK
<1>7. TypeOK'
  BY <1>1 DEF IInv, TypeOK
<1>8. CollectedIsClosure'
  BY <1>1, UsedStays DEF IInv, CollectedIsClosure
<1>9. SearchInv'
  BY <1>1 DEF SearchInv, Searching
<1> QED BY <1>6, <1>7, <1>8, <1>9 DEF IInv

LEMMA ObserveStepsKeepIInv ==
    ASSUME IInv,
           StoreCollected \/ IgnoreObservation \/ ObserveKnown \/ ObserveFds
    PROVE  IInv'
<1>1. /\ todo # <<>> /\ todo' = Tail(todo) /\ pc' = "observe"
      /\ entry' = entry /\ written' = written
      /\ q' = q /\ visited' = visited /\ fds' = fds
  BY DEF StoreCollected, IgnoreObservation, ObserveKnown, ObserveFds, Observing,
         index, search, IInv, TodoOK
<1>2. TodoOK'
  BY <1>1, TailTodoOK DEF IInv
<1>3. SearchInv'
  BY <1>1 DEF SearchInv, Searching
<1>4. TypeOK' /\ CollectedIsClosure'
  <2>1. CASE StoreCollected
    <3>1. /\ pc = "search" /\ q = <<>> /\ Searching
          /\ type_url_to_fds' = Put(type_url_to_fds, SearchType, fds)
          /\ entryname_to_type_url' = entryname_to_type_url
      BY <2>1 DEF StoreCollected, Searching, SearchType
    <3>2. SearchType \in Types /\ Pool \in Pools /\ Used(SearchType, Pool)
      BY <3>1, SearchIsTyped DEF IInv
    <3>3. IsClosure(fds, Pool, SearchType) /\ Distinct(fds)
      BY <3>1, SearchFindsClosure DEF IInv
    <3>4. CollectedIsClosure'
      BY <1>1, <3>1, <3>2, <3>3, StoreKeeps DEF IInv
    <3>5. /\ DOMAIN type_url_to_fds' \subseteq Types
          /\ \A t \in DOMAIN type_url_to_fds' :
                type_url_to_fds'[t] \in Seq([pool : Pools, file : Files])
      BY <3>1, <3>2, PutIsTyped DEF IInv
    <3>6. TypeOK'
      BY <1>1, <3>1, <3>5 DEF IInv, TypeOK
    <3> QED BY <3>4, <3>6
  <2>2. CASE IgnoreObservation
    BY <1>1, <2>2, UsedStays
    DEF IInv, TypeOK, CollectedIsClosure, IgnoreObservation, index
  <2>3. CASE ObserveKnown
    <3>1. /\ Observing /\ CanIndex(todo[1])
          /\ entryname_to_type_url' =
               Put(entryname_to_type_url, todo[1].entryname, todo[1].type_url)
          /\ type_url_to_fds' = type_url_to_fds
      BY <2>3 DEF ObserveKnown
    <3>2. /\ DOMAIN entryname_to_type_url' \subseteq STRING
          /\ \A name \in DOMAIN entryname_to_type_url' :
                entryname_to_type_url'[name] \in Types
      BY <3>1, PinIsTyped DEF IInv
    <3> QED BY <1>1, <3>1, <3>2, UsedStays DEF IInv, TypeOK, CollectedIsClosure
  <2>4. CASE ObserveFds
    <3>1. /\ Observing /\ CanIndex(todo[1]) /\ todo[1].source = "fds"
          /\ entryname_to_type_url' =
               Put(entryname_to_type_url, todo[1].entryname, todo[1].type_url)
          /\ type_url_to_fds' = Put(type_url_to_fds, todo[1].type_url, fds)
      BY <2>4 DEF ObserveFds
    <3>2. /\ 1 \in DOMAIN todo /\ todo[1].type_url \in Types /\ todo[1].pool \in Pools
          /\ DOMAIN entryname_to_type_url' \subseteq STRING
          /\ \A name \in DOMAIN entryname_to_type_url' :
                entryname_to_type_url'[name] \in Types
      BY <3>1, PinIsTyped DEF IInv
    <3>3. /\ Used(todo[1].type_url, todo[1].pool) /\ Distinct(fds)
          /\ IsClosure(fds, todo[1].pool, todo[1].type_url)
      BY <3>1, <3>2 DEF IInv, TodoOK
    <3>4. CollectedIsClosure'
      BY <1>1, <3>1, <3>2, <3>3, StoreKeeps DEF IInv
    <3>5. /\ DOMAIN type_url_to_fds' \subseteq Types
          /\ \A t \in DOMAIN type_url_to_fds' :
                type_url_to_fds'[t] \in Seq([pool : Pools, file : Files])
      BY <3>1, <3>2, PutIsTyped DEF IInv
    <3>6. TypeOK'
      BY <1>1, <3>2, <3>5 DEF IInv, TypeOK
    <3> QED BY <3>4, <3>6
  <2> QED BY <2>1, <2>2, <2>3, <2>4
<1> QED BY <1>2, <1>3, <1>4 DEF IInv

LEMMA ObserveDescriptorKeepsIInv ==
    ASSUME IInv, ObserveDescriptor
    PROVE  IInv'
<1>1. /\ Observing /\ CanIndex(todo[1]) /\ todo[1].source = "descriptor"
      /\ entryname_to_type_url' =
           Put(entryname_to_type_url, todo[1].entryname, todo[1].type_url)
      /\ q' = <<FileOf[todo[1].type_url]>> /\ visited' = {} /\ fds' = <<>>
      /\ pc = "observe" /\ pc' = "search"
      /\ todo[1].type_url \notin DOMAIN type_url_to_fds
      /\ type_url_to_fds' = type_url_to_fds
      /\ entry' = entry /\ todo' = todo /\ written' = written
  BY DEF ObserveDescriptor, StartSearch, Observing
<1>2. /\ todo # <<>> /\ 1 \in DOMAIN todo
      /\ todo[1].type_url \in Types /\ todo[1].pool \in Pools
      /\ DOMAIN entryname_to_type_url' \subseteq STRING
      /\ \A name \in DOMAIN entryname_to_type_url' :
            entryname_to_type_url'[name] \in Types
  BY <1>1, PinIsTyped DEF IInv
<1>3. FileOf[todo[1].type_url] \in Files
  BY <1>2, DescriptorsAssumption
<1>4. TypeOK'
  <2>1. q' \in Seq(Files) /\ fds' \in Seq([pool : Pools, file : Files])
    BY <1>1, <1>3
  <2> QED BY <1>1, <1>2, <2>1 DEF IInv, TypeOK
<1>5. CollectedIsClosure'
  BY <1>1, UsedStays DEF IInv, CollectedIsClosure
<1>6. TodoOK'
  <2>1. (\A i \in DOMAIN todo :
            CanIndex(todo[i]) => Used(todo[i].type_url, todo[i].pool))'
    BY <1>1 DEF IInv, TodoOK, Used, CanIndex
  <2>2. \A i \in DOMAIN todo : ~(CanIndex(todo[i]) /\ todo[i].source = "fds")
    BY <1>1 DEF IInv, TodoOK
  <2> QED BY <1>1, <1>2, <2>1, <2>2 DEF IInv, TodoOK, CanIndex
<1>7. Pool' = todo[1].pool /\ Root' = FileOf[todo[1].type_url]
  BY <1>1 DEF Pool, Root, SearchType
<1>8. SearchInv'
  BY <1>1, <1>2, <1>3, <1>7, StartOfSearch
<1> QED BY <1>4, <1>5, <1>6, <1>8 DEF IInv

LEMMA ReturnKeepsIInv ==
    ASSUME IInv, Return
    PROVE  IInv'
<1>1. /\ pc' = "idle" /\ todo = <<>> /\ todo' = todo
      /\ type_url_to_fds' = type_url_to_fds
      /\ entryname_to_type_url' = entryname_to_type_url
      /\ entry' = entry /\ written' = written
      /\ q' = q /\ visited' = visited /\ fds' = fds
  BY DEF Return, index, search
<1>2. TypeOK' /\ CollectedIsClosure'
  BY <1>1, UsedStays DEF IInv, TypeOK, CollectedIsClosure
<1>3. TodoOK'
  BY <1>1 DEF IInv, TodoOK
<1>4. SearchInv'
  BY <1>1 DEF SearchInv, Searching
<1> QED BY <1>2, <1>3, <1>4 DEF IInv

LEMMA StutterKeepsIInv ==
    ASSUME IInv, UNCHANGED vars
    PROVE  IInv'
<1>1. /\ type_url_to_fds' = type_url_to_fds
      /\ entryname_to_type_url' = entryname_to_type_url
      /\ pc' = pc /\ entry' = entry /\ todo' = todo /\ written' = written
      /\ q' = q /\ visited' = visited /\ fds' = fds
  BY DEF vars, index, search
<1>2. TypeOK'
  BY <1>1 DEF IInv, TypeOK
<1>3. CollectedIsClosure'
  BY <1>1, UsedStays DEF IInv, CollectedIsClosure
<1>4. TodoOK'
  <2>1. (\A i \in DOMAIN todo :
            CanIndex(todo[i]) => Used(todo[i].type_url, todo[i].pool))'
    BY <1>1 DEF IInv, TodoOK, Used, CanIndex
  <2>2. (\A i \in DOMAIN todo : CanIndex(todo[i]) /\ todo[i].source = "fds" =>
           /\ i = 1 /\ pc = "observe" /\ Distinct(fds)
           /\ IsClosure(fds, todo[i].pool, todo[i].type_url))'
    <3>1. Distinct(fds)' <=> Distinct(fds)
      BY <1>1 DEF Distinct
    <3>2. \A p, t : IsClosure(fds, p, t)' <=> IsClosure(fds, p, t)
      BY <1>1 DEF IsClosure, Elements
    <3> QED BY <1>1, <3>1, <3>2 DEF IInv, TodoOK, CanIndex
  <2>3. (pc = "build" => Used(entry.type, entry.pool))'
    BY <1>1 DEF IInv, TodoOK, Used
  <2> QED BY <1>1, <2>1, <2>2, <2>3 DEF IInv, TodoOK, CanIndex
<1>5. SearchInv'
  BY <1>1 DEF IInv, SearchInv, Searching, Pool, Root, SearchType, Elements, Distinct
<1> QED BY <1>2, <1>3, <1>4, <1>5 DEF IInv

LEMMA NextKeepsIInv == IInv /\ [Next]_vars => IInv'
<1> SUFFICES ASSUME IInv, [Next]_vars PROVE IInv'
  OBVIOUS
<1>1. CASE \E e \in UserEntries : WriteFromCpp(e) \/ WriteFromPython(e)
  BY <1>1, WritesKeepIInv
<1>2. CASE Observe
  BY <1>2, SearchStepsKeepIInv, PassFdsKeepsIInv, ObserveStepsKeepIInv,
     ObserveDescriptorKeepsIInv, ReturnKeepsIInv DEF Observe
<1>3. CASE UNCHANGED vars
  BY <1>3, StutterKeepsIInv
<1> QED BY <1>1, <1>2, <1>3 DEF Next

(* The session closes, and a reader registers types: the index is as it    *)
(* was.                                                                    *)
LEMMA CloseKeepsIInv ==
    ASSUME IInv, MoveToDescriptorPoolData
    PROVE  IInv'
<1>1. /\ pc = "idle" /\ pc' = "closed"
      /\ type_url_to_fds' = type_url_to_fds
      /\ entryname_to_type_url' = entryname_to_type_url
      /\ entry' = entry /\ todo' = todo /\ written' = written
      /\ q' = q /\ visited' = visited /\ fds' = fds
  BY DEF MoveToDescriptorPoolData, index, search
<1>2. TypeOK' /\ CollectedIsClosure'
  BY <1>1, UsedStays DEF IInv, TypeOK, CollectedIsClosure
<1>3. TodoOK'
  <2>1. (\A i \in DOMAIN todo :
            CanIndex(todo[i]) => Used(todo[i].type_url, todo[i].pool))'
    BY <1>1 DEF IInv, TodoOK, Used, CanIndex
  <2>2. \A i \in DOMAIN todo : ~(CanIndex(todo[i]) /\ todo[i].source = "fds")
    BY <1>1 DEF IInv, TodoOK
  <2> QED BY <1>1, <2>1, <2>2 DEF IInv, TodoOK, CanIndex
<1>4. SearchInv'
  BY <1>1 DEF SearchInv, Searching
<1> QED BY <1>2, <1>3, <1>4 DEF IInv

LEMMA AllKeepIInv == IInv /\ [NextAll]_allvars => IInv'
<1>1. [NextAll]_allvars => [Next]_vars \/ MoveToDescriptorPoolData
  BY DEF NextAll, RegisterTypes, allvars
<1> QED BY <1>1, NextKeepsIInv, CloseKeepsIInv

THEOREM IInvHolds == SpecAll => []IInv
<1>1. InitAll => IInv
  BY InitIInv DEF InitAll
<1> QED BY <1>1, AllKeepIInv, PTL DEF SpecAll

-----------------------------------------------------------------------------
(* Every variable has its type, whatever is written.                       *)
THEOREM TypeCorrect == SpecAll => []TypeOK
<1>1. IInv => TypeOK
  BY DEF IInv
<1> QED BY <1>1, IInvHolds, PTL

(* For every type in the index, the search of BagIndexBuilder.cpp and that *)
(* of protobag.py have found its file and all that is imported, each once. *)
THEOREM IndexHasClosures == SpecAll => []CollectedIsClosure
<1>1. IInv => CollectedIsClosure
  BY DEF IInv
<1> QED BY <1>1, IInvHolds, PTL

(* The files stored for a type never change.                               *)
THEOREM DefinitionsStay == SpecAll => FirstDefinitionStays
<1> DEFINE Stay == \A type \in DOMAIN type_url_to_fds :
                     /\ type \in DOMAIN type_url_to_fds'
                     /\ type_url_to_fds'[type] = type_url_to_fds[type]
<1>1. ASSUME IInv, Next PROVE Stay
  <2>1. CASE UNCHANGED type_url_to_fds
    BY <2>1
  <2>2. ASSUME NEW type, type \notin DOMAIN type_url_to_fds,
               type_url_to_fds' = Put(type_url_to_fds, type, fds)
        PROVE  Stay
    BY <2>2 DEF Put
  <2>3. CASE StoreCollected
    BY <1>1, <2>2, <2>3 DEF StoreCollected, IInv, TodoOK
  <2>4. CASE ObserveFds
    BY <2>2, <2>4 DEF ObserveFds
  <2> QED BY <1>1, <2>1, <2>3, <2>4
      DEF Next, Observe, WriteFromCpp, WriteFromPython, Skip, Visit, PassFds,
          IgnoreObservation, ObserveKnown, ObserveDescriptor, Return, index
<1> HIDE DEF Stay
<1>2. IInv /\ [NextAll]_allvars => [Stay]_vars
  <2>1. MoveToDescriptorPoolData \/ RegisterTypes => UNCHANGED type_url_to_fds
    BY DEF MoveToDescriptorPoolData, RegisterTypes, index, vars
  <2>2. UNCHANGED type_url_to_fds => Stay
    BY DEF Stay
  <2>3. UNCHANGED allvars => UNCHANGED vars
    BY DEF allvars
  <2> QED BY <1>1, <2>1, <2>2, <2>3 DEF NextAll
<1>3. SpecAll => [][Stay]_vars
  BY <1>2, IInvHolds, PTL DEF SpecAll
<1> QED BY <1>3 DEF Stay, FirstDefinitionStays

-----------------------------------------------------------------------------
(* Why every type that the index pins an entry to is in it: the type of a  *)
(* name is stored or is being searched, and the call of Observe for        *)
(* StampedMessage is made, or still to come, once there is a stamped entry.*)

StampedObservation == Observation(StampedEntry, StampedType, "descriptor", Generated)

StampedToCome ==
    \/ pc = "build" /\ IsStamped(entry)
    \/ pc # "idle" /\ \E i \in DOMAIN todo : todo[i] = StampedObservation

PinInv ==
    /\ \A name \in DOMAIN entryname_to_type_url :
          \/ entryname_to_type_url[name] \in DOMAIN type_url_to_fds
          \/ pc = "search" /\ entryname_to_type_url[name] = todo[1].type_url
    /\ (\E e \in written : IsStamped(e)) =>
          StampedType \in DOMAIN type_url_to_fds \/ StampedToCome
    /\ pc \in {"idle", "build"} => todo = <<>>

LEMMA StampedIsObserved ==
    ASSUME NEW e \in UserEntries, IsStamped(e)
    PROVE  \E i \in DOMAIN Observations(e) : Observations(e)[i] = StampedObservation
<1> DEFINE first == Observation(e.entryname, InnerTypeUrl(e), Source(e), e.pool)
<1>1. first \in {first, StampedObservation} /\ StampedObservation \in {first, StampedObservation}
  OBVIOUS
<1>2. Observations(e) = <<first>> \o <<StampedObservation>>
  BY Zenon DEF Observations, StampedObservation
<1> HIDE DEF first
<1> QED BY <1>1, <1>2, ConcatOfOnes

LEMMA StampedCanBeIndexed ==
    CanIndex(StampedObservation) /\ StampedObservation.type_url = StampedType
BY DescriptorIndexerAssumption DEF CanIndex, StampedObservation, Observation

(* A call that is done was not the one for StampedMessage, or has stored   *)
(* its files.                                                              *)
LEMMA TailKeepsStamped ==
    ASSUME TodoOK, PinInv, todo # <<>>, todo' = Tail(todo), pc' = "observe",
           pc # "build", written' = written,
           DOMAIN type_url_to_fds \subseteq DOMAIN type_url_to_fds',
           todo[1] = StampedObservation => StampedType \in DOMAIN type_url_to_fds',
           \E e \in written : IsStamped(e)
    PROVE  StampedType \in DOMAIN type_url_to_fds' \/ StampedToCome'
<1>1. CASE StampedType \in DOMAIN type_url_to_fds
  BY <1>1
<1>2. ASSUME NEW i \in DOMAIN todo, todo[i] = StampedObservation
      PROVE  StampedType \in DOMAIN type_url_to_fds' \/ StampedToCome'
  <2>1. CASE i = 1
    BY <1>2, <2>1
  <2>2. CASE i # 1
    <3>1. todo \in Seq(Calls)
      BY DEF TodoOK
    <3>2. i - 1 \in DOMAIN todo' /\ todo'[i - 1] = todo[i]
      BY <2>2, <3>1
    <3> QED BY <1>2, <3>2 DEF StampedToCome, StampedObservation
  <2> QED BY <2>1, <2>2
<1> QED BY <1>1, <1>2 DEF PinInv, StampedToCome

LEMMA NextKeepsPinInv ==
    ASSUME IInv, PinInv, Next
    PROVE  PinInv'
<1>1. ASSUME NEW e \in UserEntries, WriteFromCpp(e) \/ WriteFromPython(e)
      PROVE  PinInv'
  <2>1. /\ pc = "idle"
        /\ type_url_to_fds' = type_url_to_fds
        /\ entryname_to_type_url' = entryname_to_type_url
        /\ written' = written \cup {e} /\ entry' = e
        /\ \/ pc' = "build" /\ todo' = todo
           \/ pc' = "observe" /\ todo' = Observations(e)
    BY <1>1 DEF WriteFromCpp, WriteFromPython, index
  <2>2. IsStamped(e) => StampedToCome'
    BY <2>1, StampedIsObserved DEF StampedToCome, IsStamped
  <2> QED BY <2>1, <2>2 DEF PinInv, StampedToCome
<1>2. CASE Skip \/ Visit
  BY <1>2 DEF Skip, Visit, index, PinInv, StampedToCome
<1>3. CASE PassFds
  <2>1. /\ pc = "build" /\ pc' = "observe"
        /\ type_url_to_fds' = type_url_to_fds
        /\ entryname_to_type_url' = entryname_to_type_url
        /\ written' = written /\ todo' = Observations(entry)
    BY <1>3 DEF PassFds, index
  <2>2. IsStamped(entry) => StampedToCome'
    BY <2>1, StampedIsObserved DEF IInv, TypeOK, StampedToCome
  <2>3. DOMAIN todo = {}
    BY <2>1 DEF PinInv
  <2> QED BY <2>1, <2>2, <2>3 DEF PinInv, StampedToCome
<1>4. CASE StoreCollected
  <2>1. /\ pc = "search" /\ pc' = "observe" /\ todo # <<>> /\ todo' = Tail(todo)
        /\ type_url_to_fds' = Put(type_url_to_fds, todo[1].type_url, fds)
        /\ entryname_to_type_url' = entryname_to_type_url
        /\ written' = written
    BY <1>4 DEF StoreCollected, IInv, TodoOK
  <2>2. DOMAIN type_url_to_fds' = DOMAIN type_url_to_fds \cup {todo[1].type_url}
    BY <2>1 DEF Put
  <2>3. (\E e \in written : IsStamped(e)) =>
            StampedType \in DOMAIN type_url_to_fds' \/ StampedToCome'
    BY <2>1, <2>2, StampedCanBeIndexed, TailKeepsStamped DEF IInv
  <2> QED BY <2>1, <2>2, <2>3 DEF PinInv
<1>5. CASE IgnoreObservation
  <2>1. /\ pc = "observe" /\ pc' = "observe" /\ todo # <<>> /\ todo' = Tail(todo)
        /\ ~CanIndex(todo[1])
        /\ type_url_to_fds' = type_url_to_fds
        /\ entryname_to_type_url' = entryname_to_type_url
        /\ written' = written
    BY <1>5 DEF IgnoreObservation, Observing, index
  <2>2. (\E e \in written : IsStamped(e)) =>
            StampedType \in DOMAIN type_url_to_fds' \/ StampedToCome'
    BY <2>1, StampedCanBeIndexed, TailKeepsStamped DEF IInv
  <2> QED BY <2>1, <2>2 DEF PinInv
<1>6. CASE ObserveKnown \/ ObserveFds
  <2>1. /\ pc = "observe" /\ pc' = "observe" /\ todo # <<>> /\ todo' = Tail(todo)
        /\ DOMAIN type_url_to_fds' = DOMAIN type_url_to_fds \cup {todo[1].type_url}
        /\ entryname_to_type_url' =
             Put(entryname_to_type_url, todo[1].entryname, todo[1].type_url)
        /\ written' = written
    BY <1>6 DEF ObserveKnown, ObserveFds, Observing, Put
  <2>2. (\E e \in written : IsStamped(e)) =>
            StampedType \in DOMAIN type_url_to_fds' \/ StampedToCome'
    BY <2>1, StampedCanBeIndexed, TailKeepsStamped DEF IInv
  <2>3. \A name \in DOMAIN entryname_to_type_url' :
            entryname_to_type_url'[name] \in DOMAIN type_url_to_fds'
    BY <2>1 DEF PinInv, Put
  <2> QED BY <2>1, <2>2, <2>3 DEF PinInv
<1>7. CASE ObserveDescriptor
  <2>1. /\ pc = "observe" /\ pc' = "search" /\ todo' = todo
        /\ type_url_to_fds' = type_url_to_fds
        /\ entryname_to_type_url' =
             Put(entryname_to_type_url, todo[1].entryname, todo[1].type_url)
        /\ written' = written
    BY <1>7 DEF ObserveDescriptor, Observing
  <2>2. \A name \in DOMAIN entryname_to_type_url' :
            \/ entryname_to_type_url'[name] \in DOMAIN type_url_to_fds
            \/ entryname_to_type_url'[name] = todo[1].type_url
    BY <2>1 DEF PinInv, Put
  <2> QED BY <2>1, <2>2 DEF PinInv, StampedToCome
<1>8. CASE Return
  BY <1>8 DEF Return, index, PinInv, StampedToCome
<1> QED BY <1>1, <1>2, <1>3, <1>4, <1>5, <1>6, <1>7, <1>8 DEF Next, Observe

LEMMA PinInvHolds == SpecAll => []PinInv
<1>1. InitAll => PinInv
  BY DEF InitAll, Init, PinInv, EmptyMap
<1>2. IInv /\ PinInv /\ [NextAll]_allvars => PinInv'
  <2>1. ASSUME PinInv, UNCHANGED vars PROVE PinInv'
    BY <2>1 DEF vars, index, search, PinInv, StampedToCome
  <2>2. ASSUME PinInv, MoveToDescriptorPoolData PROVE PinInv'
    BY <2>2 DEF MoveToDescriptorPoolData, index, search, PinInv, StampedToCome
  <2> QED BY <2>1, <2>2, NextKeepsPinInv DEF NextAll, RegisterTypes, allvars
<1> QED BY <1>1, <1>2, IInvHolds, PTL DEF SpecAll

(* Between writes, every type that an entry is pinned to has its files in  *)
(* the index, StampedMessage with them.                                    *)
THEOREM PinnedTypesAreKnown == SpecAll => []PinnedTypesKnown
<1>1. PinInv => PinnedTypesKnown
  BY DEF PinInv, PinnedTypesKnown, StampedToCome
<1> QED BY <1>1, PinInvHolds, PTL

-----------------------------------------------------------------------------
(* What a reader has registered is the files of types of the index.  Of a  *)
(* name only the first is kept, but that is one file of each name.         *)

LEMMA DatabaseKeepsNames ==
    ASSUME NEW copies \in Seq(Copies)
    PROVE  /\ Database(copies) \subseteq Elements(copies)
           /\ \A fd \in Elements(copies) :
                 \E kept \in Database(copies) : kept.file = fd.file
<1>1. Database(copies) \subseteq Elements(copies)
  BY DEF Database, Elements
<1>2. ASSUME NEW fd \in Elements(copies)
      PROVE  \E kept \in Database(copies) : kept.file = fd.file
  <2> DEFINE Same == {j \in DOMAIN copies : copies[j].file = fd.file}
  <2>1. DOMAIN copies \subseteq Nat
    OBVIOUS
  <2>2. Same \in SUBSET Nat /\ Same # {}
    BY <2>1 DEF Elements
  <2>3. PICK i \in Same : \A j \in Same : i <= j
    BY <2>2, LeastElement
  <2>4. i \in DOMAIN copies /\ copies[i].file = fd.file
    OBVIOUS
  <2>5. ASSUME NEW k \in DOMAIN copies, k < i PROVE copies[k].file # copies[i].file
    <3>1. ~(i <= k) /\ i \in Nat /\ k \in Nat
      BY <2>1, <2>2, <2>5
    <3> QED BY <2>3, <2>4, <3>1
  <2>6. copies[i] \in Database(copies)
    BY <2>4, <2>5 DEF Database
  <2> QED BY <2>4, <2>6
<1> QED BY <1>1, <1>2

(* What holds of a reader: it registers files the index stores, all of     *)
(* them in the end, and a file only together with what it imports.         *)
RegInv ==
    /\ registered \in Seq(Copies)
    /\ left \subseteq DOMAIN type_url_to_fds
    /\ pc # "closed" => left = {} /\ registered = <<>>
    /\ \A fd \in Elements(registered) :
          /\ Imported(fd) \subseteq Names(Elements(registered))
          /\ \E t \in DOMAIN type_url_to_fds : fd \in Elements(type_url_to_fds[t])
    /\ pc = "closed" => \A t \in DOMAIN type_url_to_fds \ left :
                           Elements(type_url_to_fds[t]) \subseteq Elements(registered)

(* The files stored for a type import only files stored for it.            *)
LEMMA StoredIsClosed ==
    ASSUME IInv, NEW type \in DOMAIN type_url_to_fds,
           NEW fd \in Elements(type_url_to_fds[type])
    PROVE  Imported(fd) \subseteq Names(Elements(type_url_to_fds[type]))
<1>1. PICK pool \in Pools : IsClosure(type_url_to_fds[type], pool, type)
  BY DEF IInv, CollectedIsClosure
<1>2. FileOf[type] \in Files
  BY DescriptorsAssumption DEF IInv, TypeOK
<1> DEFINE deps == Dependencies(pool, FileOf[type])
<1>3. PICK file \in deps : fd = FileDescriptorProto(pool, file)
  BY <1>1 DEF IsClosure
<1>4. Imported(fd) \subseteq deps
  BY <1>2, <1>3, DependenciesClosed DEF Imported, FileDescriptorProto
<1>5. \A f \in deps : FileDescriptorProto(pool, f) \in Elements(type_url_to_fds[type])
  BY <1>1 DEF IsClosure
<1>6. \A f : FileDescriptorProto(pool, f).file = f
  BY DEF FileDescriptorProto
<1> QED BY <1>4, <1>5, <1>6 DEF Names

LEMMA RegisterKeepsRegInv ==
    ASSUME IInv, RegInv, RegisterTypes
    PROVE  RegInv'
<1>1. PICK type \in left : /\ left' = left \ {type}
                           /\ registered' = registered \o type_url_to_fds[type]
  BY DEF RegisterTypes
<1>2. /\ pc' = pc /\ type_url_to_fds' = type_url_to_fds /\ pc = "closed"
      /\ type \in DOMAIN type_url_to_fds
  BY DEF RegisterTypes, vars, index, RegInv
<1>3. type_url_to_fds[type] \in Seq(Copies)
  BY <1>2 DEF IInv, TypeOK, Copies
<1>4. /\ registered' \in Seq(Copies)
      /\ Elements(registered') = Elements(registered) \cup Elements(type_url_to_fds[type])
  BY <1>1, <1>3, ElementsOfConcat DEF RegInv
<1>5. ASSUME NEW fd \in Elements(registered')
      PROVE  /\ Imported(fd) \subseteq Names(Elements(registered'))
             /\ \E t \in DOMAIN type_url_to_fds : fd \in Elements(type_url_to_fds[t])
  <2>1. CASE fd \in Elements(registered)
    BY <1>4, <2>1 DEF RegInv, Names
  <2>2. CASE fd \in Elements(type_url_to_fds[type])
    BY <1>2, <1>4, <2>2, StoredIsClosed DEF Names
  <2> QED BY <1>4, <2>1, <2>2
<1>6. \A t \in DOMAIN type_url_to_fds \ left' :
         Elements(type_url_to_fds[t]) \subseteq Elements(registered')
  BY <1>1, <1>2, <1>4 DEF RegInv
<1>7. left' \subseteq DOMAIN type_url_to_fds
  BY <1>1 DEF RegInv
<1> QED BY <1>2, <1>4, <1>5, <1>6, <1>7 DEF RegInv

LEMMA RegInvHolds == SpecAll => []RegInv
<1>1. InitAll => RegInv
  BY ElementsOfEmpty DEF InitAll, Init, RegInv, EmptyMap
<1>2. IInv /\ RegInv /\ [NextAll]_allvars => RegInv'
  <2>1. ASSUME RegInv, Next, UNCHANGED <<left, registered>> PROVE RegInv'
    <3>1. pc # "closed" /\ pc' # "closed"
      BY <2>1 DEF Next, Observe, WriteFromCpp, WriteFromPython, Skip, Visit, Searching,
         PassFds, StoreCollected, IgnoreObservation, ObserveKnown, ObserveFds,
         ObserveDescriptor, Observing, Return
    <3>2. left' = {} /\ registered' = <<>>
      BY <2>1, <3>1 DEF RegInv
    <3> QED BY <3>1, <3>2, ElementsOfEmpty DEF RegInv
  <2>2. ASSUME RegInv, MoveToDescriptorPoolData PROVE RegInv'
    <3>1. /\ left' = DOMAIN type_url_to_fds' /\ registered' = <<>> /\ pc' = "closed"
      BY <2>2 DEF MoveToDescriptorPoolData, index, RegInv
    <3> QED BY <3>1, ElementsOfEmpty DEF RegInv
  <2>3. ASSUME RegInv, UNCHANGED allvars PROVE RegInv'
    BY <2>3 DEF allvars, vars, index, RegInv
  <2> QED BY <2>1, <2>2, <2>3, RegisterKeepsRegInv DEF NextAll
<1> QED BY <1>1, <1>2, IInvHolds, PTL DEF SpecAll

(* Whatever is registered so far, no file waits for one that is missing.   *)
THEOREM NothingIsMissing == SpecAll => []NothingMissing
<1>1. RegInv => NothingMissing
  <2> SUFFICES ASSUME RegInv, NEW fd \in db
               PROVE  Imported(fd) \subseteq Names(db)
    BY DEF NothingMissing
  <2>1. /\ db \subseteq Elements(registered)
        /\ \A copy \in Elements(registered) : copy.file \in Names(db)
    BY DatabaseKeepsNames DEF RegInv, db, Names
  <2>2. Imported(fd) \subseteq Names(Elements(registered))
    BY <2>1 DEF RegInv
  <2> QED BY <2>1, <2>2 DEF Names
<1> QED BY <1>1, RegInvHolds, PTL

-----------------------------------------------------------------------------
(* A database with all that a type needs, and of that only files of `pool`,*)
(* resolves the type: imports have no cycle, so what can be built of the   *)
(* files it needs is closed upwards.                                       *)
LEMMA CompleteResolves ==
    ASSUME NEW files, NEW type \in Types, NEW pool \in Pools,
           \A file \in Dependencies(pool, FileOf[type]) :
              FileDescriptorProto(pool, file) \in files
    PROVE  ResolvesAs(files, type, pool)
<1> DEFINE root == FileOf[type]
           deps == Dependencies(pool, root)
           top == FileDescriptorProto(pool, root)
<1>1. root \in Files
  BY DescriptorsAssumption
<1>2. /\ root \in deps /\ deps \subseteq Files
      /\ \A file \in deps : Elements(Imports[pool][file]) \subseteq deps
  BY <1>1, DependenciesClosed DEF Dependencies
<1>3. \A file : /\ FileDescriptorProto(pool, file).file = file
                /\ Imported(FileDescriptorProto(pool, file)) = Elements(Imports[pool][file])
  BY DEF FileDescriptorProto, Imported
<1>4. ASSUME NEW S \in SUBSET Files,
             \A fd \in files : Imported(fd) \subseteq S => fd.file \in S
      PROVE  root \in S
  <2> DEFINE T == S \cup (Files \ deps)
  <2>1. ASSUME NEW file \in Files, Elements(Imports[pool][file]) \subseteq T
        PROVE  file \in T
    <3>1. CASE file \notin deps
      BY <3>1
    <3>2. CASE file \in deps
      <4>1. Elements(Imports[pool][file]) \subseteq S
        BY <1>2, <2>1, <3>2
      <4>2. FileDescriptorProto(pool, file) \in files
        BY <3>2
      <4> QED BY <1>3, <1>4, <4>1, <4>2
    <3> QED BY <3>1, <3>2
  <2>2. T \in SUBSET Files
    OBVIOUS
  <2> HIDE DEF T
  <2>3. T = Files
    BY <2>1, <2>2, ImportsAssumption
  <2> QED BY <1>1, <1>2, <2>3 DEF T
<1>5. top \in Buildable(files)
  <2>1. top \in files /\ top.file = root
    BY <1>2, <1>3
  <2> HIDE DEF top, root
  <2> QED BY <1>4, <2>1 DEF Buildable
<1>6. Resolves(files, type)
  BY <1>3, <1>5 DEF Resolves
<1> QED BY <1>6 DEF ResolvesAs

(* The pool of the first file stored for a type is one it was used with.   *)
LEMMA PoolOfStored ==
    ASSUME IInv, NEW type \in DOMAIN type_url_to_fds
    PROVE  /\ type \in Types
           /\ type_url_to_fds[type][1].pool \in Pools
           /\ Used(type, type_url_to_fds[type][1].pool)
           /\ IsClosure(type_url_to_fds[type], type_url_to_fds[type][1].pool, type)
<1>1. type \in Types /\ type_url_to_fds[type] \in Seq(Copies)
  BY DEF IInv, TypeOK, Copies
<1>2. PICK pool \in Pools : /\ Used(type, pool)
                            /\ IsClosure(type_url_to_fds[type], pool, type)
  BY DEF IInv, CollectedIsClosure
<1>3. FileOf[type] \in Dependencies(pool, FileOf[type])
  BY <1>1, DescriptorsAssumption, DependenciesClosed
<1>4. Elements(type_url_to_fds[type]) # {}
  BY <1>2, <1>3 DEF IsClosure
<1>5. 1 \in DOMAIN type_url_to_fds[type]
  BY <1>1, <1>4 DEF Elements
<1>6. type_url_to_fds[type][1] \in Elements(type_url_to_fds[type])
  BY <1>5 DEF Elements
<1>7. type_url_to_fds[type][1].pool = pool
  BY <1>2, <1>6 DEF IsClosure, FileDescriptorProto
<1> QED BY <1>1, <1>2, <1>7

(* With all types registered, an entry the index pins is decoded with the  *)
(* files stored for its type, those of a program that used it.             *)
THEOREM PinnedAreDecoded == SpecAll => []DecodedAsWritten
<1>1. IInv /\ PinInv /\ RegInv => DecodedAsWritten
  <2> SUFFICES ASSUME IInv, PinInv, RegInv, pc = "closed", left = {},
                      NEW type \in DOMAIN type_url_to_fds,
                      NEW pool, pool = type_url_to_fds[type][1].pool
               PROVE  /\ Used(type, pool)
                      /\ Unambiguous(type, pool) => ResolvesAs(db, type, pool)
    BY DEF DecodedAsWritten, PinInv
  <2>1. /\ type \in Types /\ pool \in Pools /\ Used(type, pool)
        /\ IsClosure(type_url_to_fds[type], pool, type)
    BY PoolOfStored
  <2>2. ASSUME Unambiguous(type, pool),
               NEW file \in Dependencies(pool, FileOf[type])
        PROVE  FileDescriptorProto(pool, file) \in db
    <3>1. FileDescriptorProto(pool, file) \in Elements(registered)
      BY <2>1 DEF IsClosure, RegInv
    <3>2. FileDescriptorProto(pool, file).file = file
      BY DEF FileDescriptorProto
    <3>3. PICK kept \in db : kept.file = file
      BY <3>1, <3>2, DatabaseKeepsNames DEF RegInv, db
    <3>4. kept \in Elements(registered)
      BY DatabaseKeepsNames DEF RegInv, db
    <3>5. PICK t \in DOMAIN type_url_to_fds : kept \in Elements(type_url_to_fds[t])
      BY <3>4 DEF RegInv
    <3>6. kept.pool = pool
      BY <2>2, <3>3, <3>5 DEF Unambiguous
    <3>7. kept \in Copies
      BY <3>4 DEF RegInv, Elements
    <3>8. kept = FileDescriptorProto(pool, file)
      BY <3>3, <3>6, <3>7 DEF Copies, FileDescriptorProto
    <3> QED BY <3>8
  <2> QED BY <2>1, <2>2, CompleteResolves
<1> QED BY <1>1, IInvHolds, PinInvHolds, RegInvHolds, PTL
=============================================================================

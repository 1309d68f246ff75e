------------------------- MODULE ArchiveUtil_proofs -------------------------
(***************************************************************************)
(* Proofs about ArchiveUtil and the Tempfile it is built on, for any       *)
(* number of processes, names and attempts.                                *)
(***************************************************************************)
EXTENDS ArchiveUtil, FiniteSetTheorems, SequenceTheorems, TLAPS

(* What a process knew when it looked: the names given to others by then   *)
(* existed, so it does not try them.                                       *)
TempInv ==
    /\ temp \in [Procs -> {"look", "create", "ok", "error"}]
    /\ DOMAIN path = Procs /\ DOMAIN seen = Procs
    /\ OldNames \subseteq exists
    /\ \A p \in Procs :
        /\ temp[p] = "ok" => path[p] \in exists
        /\ temp[p] \in {"create", "ok"} =>
             /\ path[p] \notin OldNames
             /\ \A r \in seen[p] : path[p] # path[r]
        /\ seen[p] \subseteq {r \in Procs : temp[r] = "ok"}

LEMMA InitTempInv == InitTemp => TempInv
BY DEF InitTemp, TempInv

LEMMA LookKeeps ==
    ASSUME TempInv, NEW p \in Procs, Look(p)
    PROVE  TempInv'
<1>1. PICK name \in TempNames :
        /\ path' = [path EXCEPT ![p] = name]
        /\ temp' = [temp EXCEPT ![p] = IF name \in exists THEN "look" ELSE "create"]
  BY DEF Look
<1>2. /\ temp[p] = "look" /\ UNCHANGED exists
      /\ seen' = [seen EXCEPT ![p] = {r \in Procs : temp[r] = "ok"}]
  BY DEF Look
<1>3. /\ temp' \in [Procs -> {"look", "create", "ok", "error"}]
      /\ DOMAIN path' = Procs /\ DOMAIN seen' = Procs /\ OldNames \subseteq exists'
  BY <1>1, <1>2 DEF TempInv
<1>4. \A q \in Procs : q # p => path'[q] = path[q] /\ temp'[q] = temp[q] /\ seen'[q] = seen[q]
  BY <1>1, <1>2 DEF TempInv
<1>5. /\ path'[p] = name /\ seen'[p] = {r \in Procs : temp[r] = "ok"}
      /\ temp'[p] = IF name \in exists THEN "look" ELSE "create"
  BY <1>1, <1>2 DEF TempInv
<1>6. \A r \in Procs : temp[r] = "ok" => r # p /\ temp'[r] = "ok" /\ path'[r] = path[r]
  BY <1>2, <1>4
<1>7. ASSUME NEW q \in Procs
      PROVE  /\ temp'[q] = "ok" => path'[q] \in exists'
             /\ temp'[q] \in {"create", "ok"} =>
                  /\ path'[q] \notin OldNames
                  /\ \A r \in seen'[q] : path'[q] # path'[r]
             /\ seen'[q] \subseteq {r \in Procs : temp'[r] = "ok"}
  <2>1. CASE q = p
    BY <2>1, <1>2, <1>5, <1>6 DEF TempInv
  <2>2. CASE q # p
    BY <2>2, <1>2, <1>4, <1>6 DEF TempInv
  <2>3. QED
    BY <2>1, <2>2
<1>8. QED
  BY <1>3, <1>7 DEF TempInv

LEMMA CreateKeeps ==
    ASSUME TempInv, NEW p \in Procs, Create(p) \/ CreateFails(p)
    PROVE  TempInv'
<1>1. /\ temp[p] \in {"create", "look"} /\ UNCHANGED <<path, seen>>
      /\ exists \subseteq exists'
      /\ \/ temp' = [temp EXCEPT ![p] = "error"]
         \/ /\ temp[p] = "create" /\ path[p] \in exists'
            /\ temp' = [temp EXCEPT ![p] = "ok"]
  BY DEF Create, CreateFails
<1>2. \A q \in Procs : temp[q] = "ok" => temp'[q] = "ok"
  BY <1>1 DEF TempInv
<1>3. \A q \in Procs :
        \/ temp'[q] \in {"error", temp[q]}
        \/ q = p /\ temp[p] = "create" /\ path[p] \in exists'
  BY <1>1 DEF TempInv
<1>4. ASSUME NEW q \in Procs
      PROVE  /\ temp'[q] = "ok" => path'[q] \in exists'
             /\ temp'[q] \in {"create", "ok"} =>
                  /\ path'[q] \notin OldNames
                  /\ \A r \in seen'[q] : path'[q] # path'[r]
             /\ seen'[q] \subseteq {r \in Procs : temp'[r] = "ok"}
  BY <1>1, <1>2, <1>3 DEF TempInv
<1>5. temp' \in [Procs -> {"look", "create", "ok", "error"}]
  BY <1>1 DEF TempInv
<1>6. QED
  BY <1>1, <1>4, <1>5 DEF TempInv

LEMMA StepKeeps == TempInv /\ [Next]_vars => TempInv'
<1> SUFFICES ASSUME TempInv, [Next]_vars PROVE TempInv'
  OBVIOUS
<1>1. CASE UNCHANGED tempvars
  BY <1>1 DEF tempvars, TempInv
<1>2. ASSUME NEW p \in Procs, CreateTemp(p) PROVE TempInv'
  BY <1>2, LookKeeps, CreateKeeps DEF CreateTemp
<1>3. ASSUME NEW p \in Procs,
             Pack(p) \/ Crash(p) \/ DiskFails(p) \/ UnpackArchiveToDir(p) \/ ReadAsStr(p)
      PROVE  UNCHANGED tempvars
  BY <1>3 DEF Pack, StartPacking, AddFile, CopyChunk, CopyDone, CopyStops, FinishFile, Close,
              Crash, DiskFails, UnpackArchiveToDir, ReadAsStr
<1>4. ChangeFile \/ Damage => UNCHANGED tempvars
  BY DEF ChangeFile, Damage
<1>5. Unpack \/ Read => UNCHANGED tempvars
  BY DEF Unpack, UnpackEntry, UnpackRefused, UnpackBlock, UnpackDone, UnpackFails, UnpackReturns,
         Read, ReadData, ReadFails, ReadReturns
<1>6. UNCHANGED vars => UNCHANGED tempvars
  BY DEF vars
<1>7. QED
  BY <1>1, <1>2, <1>3, <1>4, <1>5, <1>6 DEF Next

(* A path that CreateTempfile or CreateTempdir gives did not exist before, *)
(* and another process has it only if both looked before either created    *)
(* it: the only fault of checking first and creating later.                *)
THEOREM TempPathsAreFresh == Spec => []FreshPath
<1>1. Init => TempInv
  BY InitTempInv DEF Init
<1>2. TempInv => FreshPath
  BY DEF TempInv, FreshPath, Given, Raced
<1>3. QED
  BY <1>1, <1>2, StepKeeps, PTL DEF Spec

-----------------------------------------------------------------------------
(***************************************************************************)
(* What is packed and unpacked, for any directory, number of processes and *)
(* faults.  The inductive invariant has a part for the files, for each     *)
(* process that packs, for the archives on disk and for the client.        *)
(***************************************************************************)

EntryNames == [rooted : BOOLEAN, base : Bases]
Paths == [dir : {"src", "dest"}, base : Bases]
PackStates == {"idle", "next", "copy", "ok", "error", "crashed"}
Unpacking == {"next", "data", "failed", "refused", "unpacked"}
ClientStates == Unpacking \cup {"idle", "read", "error", "returned"}

UniqueNames(list) == \A i, j \in DOMAIN list : list[i].name = list[j].name => i = j

(* A file that did not change is what it was at first.                     *)
Intact(map) == \A base \in Bases \ changed : map[Src(base)] = Sources[base]

FilesInv ==
    /\ format \in Formats /\ base_dir \in BOOLEAN
    /\ removed \subseteq changed
    /\ DOMAIN files \subseteq Paths
    /\ \A f \in DOMAIN files : files[f] \in Seq(Chunks)
    /\ client = "idle" =>
         (\A base \in Bases : Src(base) \in DOMAIN files) /\ Intact(files)

(* An entry that is done has the data its header says, and all of a file   *)
(* that did not change and was read and written without an error.          *)
Whole(p, e) ==
    /\ Len(e.data) = e.size
    /\ \A base \in Bases \ Spoiled(p) : e.name = Entryname(base) => e.data = Sources[base]

(* The entry that is being copied has what was read so far.                *)
PartOf(p, e, base, n) ==
    /\ e.name = Entryname(base)
    /\ base \notin Spoiled(p) => /\ e.size = Len(Sources[base])
                                 /\ n <= e.size
                                 /\ e.data = SubSeq(Sources[base], 1, n)

LastEntry(p) == entries[p][Len(entries[p])]

PackTypeOK(p) ==
    /\ pack[p] \in PackStates
    /\ todo[p] \in Seq(Bases) /\ pos[p] \in Nat
    /\ InSize(entries[p])

(* Where a process is, and the names it has written and has yet to write.  *)
PackControl(p) ==
    /\ pack[p] # "idle" => Given(p)
    /\ pack[p] = "idle" => entries[p] = <<>>
    /\ pack[p] = "ok" => todo[p] = <<>>
    /\ pack[p] = "copy" => entries[p] # <<>> /\ todo[p] # <<>>
    /\ UniqueNames(entries[p])
    /\ Packing(p) =>
         /\ \A i, j \in DOMAIN todo[p] : todo[p][i] = todo[p][j] => i = j
         /\ \A i \in DOMAIN entries[p], j \in DOMAIN todo[p] :
               entries[p][i].name = Entryname(todo[p][j]) =>
                  pack[p] = "copy" /\ i = Len(entries[p]) /\ j = 1

(* What it has written, and that it forgets no file.                       *)
PackContents(p) ==
    /\ pack[p] = "copy" => PartOf(p, LastEntry(p), todo[p][1], pos[p])
    /\ Packing(p) \/ pack[p] = "ok" =>
         /\ \A base \in Bases \ changed :
               \/ \E i \in DOMAIN entries[p] : entries[p][i].name = Entryname(base)
               \/ \E j \in DOMAIN todo[p] : todo[p][j] = base
         /\ \A i \in DOMAIN entries[p] :
               (pack[p] = "copy" /\ i = Len(entries[p])) \/ Whole(p, entries[p][i])

PackInv(p) == PackTypeOK(p) /\ PackControl(p) /\ PackContents(p)

Archive == [entries : Seq(Entry), mixed : BOOLEAN]

(* Only the process that was given a path, alone, writes the archive there.*)
DiskInv ==
    /\ path \in [Procs -> TempNames] /\ exists \subseteq TempNames
    /\ opened \subseteq {r \in Procs : Given(r)}
    /\ disk \in [TempNames -> Archive]
    /\ \A name \in TempNames : InSize(disk[name].entries) /\ UniqueNames(disk[name].entries)
    /\ \A p \in Procs : Alone(p) =>
         /\ Packing(p) => ~disk[path[p]].mixed
         /\ pack[p] = "ok" /\ path[p] \notin damaged /\ p \notin failing =>
              disk[path[p]].entries = entries[p]

EntryNamed(name) == \E j \in DOMAIN archive.entries : archive.entries[j].name = name

(* Once the client has begun, nobody packs; it has the names of the archive*)
(* left that it has not done, if it has any.                               *)
ClientInv ==
    /\ client \in ClientStates
    /\ client # "idle" => \A p \in Procs : ~Packing(p)
    /\ archive \in Archive /\ InSize(archive.entries) /\ UniqueNames(archive.entries)
    /\ names \in Seq(EntryNames) /\ block \in Int
    /\ \A i, j \in DOMAIN names : names[i] = names[j] => i = j
    /\ \A i \in DOMAIN names : EntryNamed(names[i])
    /\ client \in {"data", "failed", "refused", "read"} => names # <<>>
    /\ client \in {"data", "failed"} =>
         \A j \in DOMAIN archive.entries : archive.entries[j].name = names[1] =>
            block \in 0 .. Len(archive.entries[j].data)
    /\ client = "unpacked" => names = <<>>
    /\ client \in Unpacking =>
         /\ \A i \in DOMAIN names : names[i] \in listed
         /\ \A name \in listed : EntryNamed(name) /\ name \in EntryNames
         /\ \/ \A j \in DOMAIN archive.entries : archive.entries[j].name \in listed
            \/ archive.entries # <<>> /\ Torn(archive.entries[Len(archive.entries)])
         /\ Intact(before)

(* What unpacking has made of the files, said of the entries.              *)
UnpackInv ==
    client \in Unpacking =>
        /\ \A j \in DOMAIN archive.entries :
             LET e == archive.entries[j]
             IN  /\ e.name \in Done => files[Output(e.name)] = e.data
                 /\ e.name \in AtHand => files[Output(e.name)] = SubSeq(e.data, 1, block)
        /\ \A name \in Done \cup AtHand : Output(name) \in DOMAIN files
        /\ \A name \in Refused :
              Output(name) \in DOMAIN files /\ files[Output(name)] # <<>> =>
                 Output(name) \in DOMAIN before /\ files[Output(name)] = before[Output(name)]
        /\ \A f \in DOMAIN files \ {Output(name) : name \in Done \cup AtHand \cup Refused} :
              f \in DOMAIN before /\ files[f] = before[f]

PackersInv ==
    /\ DOMAIN todo = Procs /\ DOMAIN entries = Procs
    /\ DOMAIN pos = Procs /\ DOMAIN pack = Procs /\ DOMAIN unread = Procs
    /\ \A p \in Procs : PackInv(p)

IInv == TempInv /\ FilesInv /\ PackersInv /\ DiskInv /\ ClientInv /\ UnpackInv

-----------------------------------------------------------------------------
(* Facts about the data.                                                   *)

LEMMA SourcesTyped ==
    ASSUME NEW base \in Bases
    PROVE  Sources[base] \in Seq(Chunks) /\ Sources[base] \in Seq(STRING)
<1>1. Sources[base] \in Seq(STRING)
  BY ArchiveUtilAssumption DEF Bases
<1>2. DOMAIN Sources[base] = 1 .. Len(Sources[base]) /\ Len(Sources[base]) \in Nat
  BY <1>1, LenProperties
<1>3. \A i \in DOMAIN Sources[base] : Sources[base][i] \in Chunks
  BY DEF Chunks
<1>4. Sources[base] = [i \in 1 .. Len(Sources[base]) |-> Sources[base][i]]
  BY <1>1
<1>5. Sources[base] \in [1 .. Len(Sources[base]) -> Chunks]
  BY <1>2, <1>3, <1>4
<1>6. QED
  BY <1>1, <1>2, <1>5

(* GetAllFilesRecursive lists each file that is there, once.               *)
LEMMA FileListsOK ==
    ASSUME NEW list \in FileLists
    PROVE  /\ list \in Seq(Bases)
           /\ \A i, j \in DOMAIN list : list[i] = list[j] => i = j
           /\ \A base \in Bases \ removed : \E i \in DOMAIN list : list[i] = base
<1> DEFINE present == Bases \ removed
           n == Cardinality(present)
<1>1. IsFiniteSet(present) /\ n \in Nat
  BY ArchiveUtilAssumption, FS_Subset, FS_CardinalityType DEF Bases
<1>2. /\ list \in [1 .. n -> present]
      /\ \A base \in present : \E i \in DOMAIN list : list[i] = base
  BY DEF FileLists
<1> HIDE DEF n
<1>3. IsFiniteSet(1 .. n) /\ Cardinality(1 .. n) = n
  BY <1>1, FS_Interval
<1>4. list \in Surjection(1 .. n, present)
  BY <1>2 DEF Surjection
<1>5. list \in Injection(1 .. n, present)
  BY <1>3, <1>4, FS_SurjSameCardinalityImpliesInj DEF n
<1>6. \A i, j \in 1 .. n : list[i] = list[j] => i = j
  BY <1>2, <1>5 DEF Injection, IsInjective
<1>7. list \in Seq(Bases)
  BY <1>1, <1>2
<1>8. QED
  BY <1>2, <1>6, <1>7

LEMMA EntrynameFacts ==
    ASSUME FilesInv, NEW b \in Bases
    PROVE  /\ Entryname(b) \in EntryNames
           /\ \A c : Entryname(b) = Entryname(c) => b = c
BY DEF Entryname, EntryNames, FilesInv

LEMMA OutputFacts ==
    ASSUME NEW m \in EntryNames
    PROVE  /\ Output(m) \in Paths
           /\ \A n \in EntryNames : Output(m) = Output(n) => m = n
<1>1. m = [rooted |-> m.rooted, base |-> m.base] /\ m.rooted \in BOOLEAN /\ m.base \in Bases
  BY DEF EntryNames
<1>2. Output(m) \in Paths
  BY <1>1 DEF Output, Paths, Src, Dest
<1>3. ASSUME NEW n \in EntryNames, Output(m) = Output(n) PROVE m = n
  <2>1. n = [rooted |-> n.rooted, base |-> n.base] /\ n.rooted \in BOOLEAN /\ n.base \in Bases
    BY DEF EntryNames
  <2>2. m.base = n.base
    BY <1>3 DEF Output, Src, Dest
  <2>3. m.rooted = n.rooted
    BY <1>1, <1>3, <2>1 DEF Output, Src, Dest
  <2>4. QED
    BY <1>1, <2>1, <2>2, <2>3
<1>4. QED
  BY <1>2, <1>3

(* What a cut leaves of a list of entries.                                 *)
LEMMA CutsOK ==
    ASSUME NEW list, InSize(list), UniqueNames(list), NEW cut \in Cuts(list)
    PROVE  InSize(cut) /\ UniqueNames(cut)
<1>1. list \in Seq(Entry) /\ Len(list) \in Nat /\ DOMAIN list = 1 .. Len(list)
  BY LenProperties DEF InSize
<1>2. ASSUME NEW n \in 0 .. Len(list)
      PROVE  /\ SubSeq(list, 1, n) \in Seq(Entry) /\ Len(SubSeq(list, 1, n)) = n
             /\ DOMAIN SubSeq(list, 1, n) = 1 .. n
             /\ \A i \in 1 .. n : i \in DOMAIN list /\ SubSeq(list, 1, n)[i] = list[i]
  BY <1>1
<1>3. CASE \E n \in 0 .. Len(list) : cut = SubSeq(list, 1, n)
  BY <1>1, <1>2, <1>3 DEF InSize, UniqueNames
<1>4. ASSUME NEW n \in DOMAIN list, list[n].data # <<>>,
             cut = Append(SubSeq(list, 1, n - 1),
                          [list[n] EXCEPT !.data = SubSeq(@, 1, Len(@) - 1)])
      PROVE  InSize(cut) /\ UniqueNames(cut)
  <2> DEFINE torn == [list[n] EXCEPT !.data = SubSeq(@, 1, Len(@) - 1)]
             d == list[n].data
  <2>1. /\ list[n] \in Entry /\ d \in Seq(Chunks) /\ Len(d) <= list[n].size
        /\ list[n].size \in Nat /\ Len(d) \in Nat /\ Len(d) > 0
    <3>1. list[n] \in Entry /\ Len(d) <= list[n].size
      BY <1>1 DEF InSize
    <3>2. d \in Seq(Chunks) /\ list[n].size \in Nat
      BY <3>1 DEF Entry
    <3>3. QED
      BY <1>4, <3>1, <3>2, EmptySeq
  <2>2. SubSeq(d, 1, Len(d) - 1) \in Seq(Chunks) /\ Len(SubSeq(d, 1, Len(d) - 1)) = Len(d) - 1
    BY <2>1
  <2>3. torn = [name |-> list[n].name, size |-> list[n].size,
                data |-> SubSeq(d, 1, Len(d) - 1), bad |-> list[n].bad]
    BY <2>1 DEF Entry
  <2>4. torn \in Entry /\ torn.name = list[n].name /\ Len(torn.data) <= torn.size
    BY <2>1, <2>2, <2>3 DEF Entry
  <2> HIDE DEF torn
  <2>5. n - 1 \in 0 .. Len(list) /\ n \in Nat
    BY <1>1
  <2>6. cut = Append(SubSeq(list, 1, n - 1), torn)
    BY <1>4 DEF torn
  <2>7. /\ cut \in Seq(Entry) /\ DOMAIN cut = 1 .. n /\ cut[n] = torn
        /\ \A i \in 1 .. n - 1 : cut[i] = list[i] /\ i \in DOMAIN list
    <3>1. /\ SubSeq(list, 1, n - 1) \in Seq(Entry) /\ Len(SubSeq(list, 1, n - 1)) = n - 1
          /\ \A i \in 1 .. n - 1 : i \in DOMAIN list /\ SubSeq(list, 1, n - 1)[i] = list[i]
      BY <1>2, <2>5
    <3>2. QED
      BY <2>4, <2>5, <2>6, <3>1
  <2>8. \A i \in DOMAIN cut : i \in DOMAIN list /\ cut[i].name = list[i].name
    BY <2>4, <2>5, <2>7
  <2>9. \A i \in DOMAIN cut : Len(cut[i].data) <= cut[i].size
    BY <1>1, <2>4, <2>5, <2>7 DEF InSize
  <2>10. QED
    BY <2>7, <2>8, <2>9 DEF InSize, UniqueNames
<1>5. QED
  BY <1>3, <1>4 DEF Cuts

(* A wrong checksum leaves the names and the data.                         *)
LEMMA BadOK ==
    ASSUME NEW list, InSize(list), UniqueNames(list), NEW i \in DOMAIN list
    PROVE  InSize([list EXCEPT ![i].bad = TRUE]) /\ UniqueNames([list EXCEPT ![i].bad = TRUE])
<1>1. /\ list \in Seq(Entry) /\ DOMAIN list = 1 .. Len(list) /\ Len(list) \in Nat
      /\ list[i] \in Entry /\ Len(list[i].data) <= list[i].size
  BY LenProperties DEF InSize
<1>2. PICK x, new : x = [list[i] EXCEPT !.bad = TRUE] /\ new = [list EXCEPT ![i] = x]
  OBVIOUS
<1>3. x = [name |-> list[i].name, size |-> list[i].size, data |-> list[i].data, bad |-> TRUE]
  BY <1>1, <1>2 DEF Entry
<1>4. x \in Entry /\ x.name = list[i].name /\ Len(x.data) <= x.size
  BY <1>1, <1>3 DEF Entry
<1>5. /\ new \in Seq(Entry) /\ Len(new) = Len(list)
      /\ \A j \in 1 .. Len(list) : new[j] = IF j = i THEN x ELSE list[j]
  BY <1>1, <1>2, <1>4, ExceptSeq
<1>6. DOMAIN new = DOMAIN list /\ \A j \in DOMAIN list : new[j].name = list[j].name
  BY <1>1, <1>4, <1>5, LenProperties
<1>7. \A j \in DOMAIN new : Len(new[j].data) <= new[j].size
  BY <1>1, <1>4, <1>5, <1>6 DEF InSize
<1>8. InSize(new) /\ UniqueNames(new)
  BY <1>5, <1>6, <1>7 DEF InSize, UniqueNames
<1>9. QED
  BY <1>2, <1>8

LEMMA DamagedOK ==
    ASSUME NEW list, InSize(list), UniqueNames(list), NEW altered \in Damaged(list)
    PROVE  InSize(altered) /\ UniqueNames(altered)
BY CutsOK, BadOK DEF Damaged

(* The end of an entry: it has the size its header says, and no other data *)
(* if that is what it had.                                                 *)
LEMMA FinishedOK ==
    ASSUME NEW e \in Entry, Len(e.data) <= e.size
    PROVE  /\ Finished(e) \in Entry
           /\ Finished(e).name = e.name
           /\ Len(Finished(e).data) = Finished(e).size
           /\ Len(e.data) = e.size => Finished(e).data = e.data
<1>1. /\ e = [name |-> e.name, size |-> e.size, data |-> e.data, bad |-> e.bad]
      /\ e.name \in [rooted : BOOLEAN, base : Bases] /\ e.size \in Nat
      /\ e.data \in Seq(Chunks) /\ e.bad \in BOOLEAN /\ Len(e.data) \in Nat
  BY DEF Entry
<1> DEFINE padded == [i \in 1 .. e.size |->
                        IF i <= Len(e.data) THEN e.data[i] ELSE Zero]
<1>2. CASE format = "tar"
  <2>1. \A i \in 1 .. e.size : padded[i] \in Chunks
    <3>1. Zero \in Chunks
      BY DEF Chunks
    <3>2. \A i \in 1 .. Len(e.data) : e.data[i] \in Chunks
      BY <1>1, ElementOfSeq
    <3>3. QED
      BY <1>1, <3>1, <3>2
  <2>2. padded \in [1 .. e.size -> Chunks]
    BY <2>1
  <2>3. padded \in Seq(Chunks) /\ Len(padded) = e.size
    BY <1>1, <2>2
  <2>4. ASSUME Len(e.data) = e.size PROVE padded = e.data
    <3>1. \A i \in 1 .. Len(padded) : padded[i] = e.data[i]
      BY <1>1, <2>3, <2>4
    <3>2. QED
      BY <1>1, <2>3, <2>4, <3>1, SeqEqual
  <2> HIDE DEF padded
  <2>5. Finished(e) = [name |-> e.name, size |-> e.size, data |-> padded, bad |-> e.bad]
    BY <1>1, <1>2 DEF Finished, padded
  <2>6. QED
    BY <1>1, <2>3, <2>4, <2>5 DEF Entry
<1>3. CASE format # "tar"
  <2>1. Finished(e) = [name |-> e.name, size |-> Len(e.data), data |-> e.data, bad |-> e.bad]
    BY <1>1, <1>3 DEF Finished
  <2>2. QED
    BY <1>1, <2>1 DEF Entry
<1>4. QED
  BY <1>2, <1>3

(* The first entry of a name is the only one.                              *)
LEMMA FindIs ==
    ASSUME InSize(archive.entries), UniqueNames(archive.entries),
           NEW j \in DOMAIN archive.entries
    PROVE  Find(archive.entries[j].name) = archive.entries[j]
<1> DEFINE list == archive.entries
           First(i) == /\ list[i].name = list[j].name
                       /\ \A k \in 1 .. i - 1 : list[k].name # list[j].name
<1>1. list \in Seq(Entry) /\ DOMAIN list = 1 .. Len(list) /\ Len(list) \in Nat
  BY LenProperties DEF InSize
<1>2. \A i \in DOMAIN list : First(i) => i = j
  BY DEF UniqueNames
<1>3. First(j)
  <2>1. \A k \in 1 .. j - 1 : k \in DOMAIN list /\ k # j
    BY <1>1
  <2>2. QED
    BY <2>1 DEF UniqueNames
<1> HIDE DEF First
<1>4. (CHOOSE i \in DOMAIN list : First(i)) = j
  BY <1>2, <1>3
<1>5. QED
  BY <1>4 DEF Find, First

-----------------------------------------------------------------------------
(* What a step leaves alone stays as it should be.                         *)

LEMMA SpoiledGrows ==
    ASSUME NEW p, changed \subseteq changed', failing \subseteq failing',
           unread[p] \subseteq unread'[p]
    PROVE  Spoiled(p) \subseteq Spoiled(p)'
BY DEF Spoiled

LEMMA WholeFrame ==
    ASSUME NEW p, Spoiled(p) \subseteq Spoiled(p)', base_dir' = base_dir
    PROVE  \A e : Whole(p, e) => Whole(p, e)'
BY DEF Whole, Entryname

LEMMA PackFrame ==
    ASSUME NEW p, PackInv(p),
           pack'[p] = pack[p], todo'[p] = todo[p], entries'[p] = entries[p], pos'[p] = pos[p],
           base_dir' = base_dir, Spoiled(p) \subseteq Spoiled(p)',
           changed \subseteq changed', Given(p) => Given(p)'
    PROVE  PackInv(p)'
<1>1. PackTypeOK(p)'
  BY DEF PackInv, PackTypeOK, InSize
<1>2. PackControl(p)'
  BY DEF PackInv, PackControl, UniqueNames, Packing, Entryname
<1>3. PackContents(p)'
  <2>1. \A e : Whole(p, e) => Whole(p, e)'
    BY WholeFrame
  <2>2. \A e, b, n : PartOf(p, e, b, n) => PartOf(p, e, b, n)'
    BY DEF PartOf, Entryname
  <2>3. PackContents(p)
    BY DEF PackInv
  <2>4. LastEntry(p)' = LastEntry(p)
    BY DEF LastEntry
  <2>5. pack'[p] = "copy" => PartOf(p, LastEntry(p), todo[p][1], pos[p])'
    BY <2>2, <2>3, <2>4 DEF PackContents
  <2>6. ASSUME Packing(p)' \/ pack'[p] = "ok"
        PROVE  /\ \A base \in Bases \ changed' :
                    \/ \E i \in DOMAIN entries'[p] : entries'[p][i].name = Entryname(base)'
                    \/ \E j \in DOMAIN todo'[p] : todo'[p][j] = base
               /\ \A i \in DOMAIN entries'[p] :
                    (pack'[p] = "copy" /\ i = Len(entries'[p])) \/ Whole(p, entries[p][i])'
    <3>1. Packing(p) \/ pack[p] = "ok"
      BY <2>6 DEF Packing
    <3>2. \A base : Entryname(base)' = Entryname(base)
      BY DEF Entryname
    <3>3. \A base \in Bases \ changed' :
             \/ \E i \in DOMAIN entries[p] : entries[p][i].name = Entryname(base)
             \/ \E j \in DOMAIN todo[p] : todo[p][j] = base
      BY <2>3, <3>1 DEF PackContents
    <3>4. \A i \in DOMAIN entries[p] :
             (pack[p] = "copy" /\ i = Len(entries[p])) \/ Whole(p, entries[p][i])'
      BY <2>1, <2>3, <3>1 DEF PackContents
    <3>5. QED
      BY <3>2, <3>3, <3>4
  <2>7. QED
    BY <2>5, <2>6 DEF PackContents
<1>4. QED
  BY <1>1, <1>2, <1>3 DEF PackInv

LEMMA PackersFrame ==
    ASSUME PackersInv, UNCHANGED <<packvars, unread>>, base_dir' = base_dir,
           changed \subseteq changed', failing \subseteq failing',
           \A p \in Procs : Given(p) => Given(p)'
    PROVE  PackersInv'
<1>1. UNCHANGED <<pack, todo, entries, pos>>
  BY DEF packvars
<1>2. \A p \in Procs : PackInv(p)'
  BY <1>1, PackFrame, SpoiledGrows DEF PackersInv
<1>3. QED
  BY <1>1, <1>2 DEF PackersInv

LEMMA FilesFrame ==
    ASSUME FilesInv, UNCHANGED <<format, base_dir, removed, changed, files>>,
           client' = "idle" => client = "idle"
    PROVE  FilesInv'
BY DEF FilesInv, Intact

LEMMA DiskFrame ==
    ASSUME DiskInv, UNCHANGED <<disk, damaged, path, exists, temp>>, opened' \subseteq opened,
           failing \subseteq failing',
           \A p \in Procs : /\ Packing(p)' => Packing(p)
                            /\ pack'[p] = "ok" => pack[p] = "ok" /\ entries'[p] = entries[p]
    PROVE  DiskInv'
<1>1. \A p : Alone(p)' = Alone(p) /\ Given(p)' = Given(p)
  BY DEF Alone, Given
<1>2. QED
  BY <1>1 DEF DiskInv, InSize, UniqueNames

LEMMA ClientFrame ==
    ASSUME ClientInv, UnpackInv, UNCHANGED <<clientvars, base_dir>>,
           changed \subseteq changed', files' = files \/ client = "idle",
           \A p \in Procs : client # "idle" /\ Packing(p)' => Packing(p)
    PROVE  ClientInv' /\ UnpackInv'
<1>1. UNCHANGED <<client, archive, names, block, before, listed>>
  BY DEF clientvars
<1>2. ClientInv'
  <2>1. Intact(before) => Intact(before)'
    BY <1>1 DEF Intact
  <2>2. \A name : EntryNamed(name)' = EntryNamed(name)
    BY <1>1 DEF EntryNamed
  <2>3. client' # "idle" => \A p \in Procs : ~Packing(p)'
    BY <1>1 DEF ClientInv
  <2>4. QED
    BY <1>1, <2>1, <2>2, <2>3 DEF ClientInv, InSize, UniqueNames, Torn
<1>3. UnpackInv'
  BY <1>1 DEF UnpackInv, Done, AtHand, Refused, Unpacking
<1>4. QED
  BY <1>2, <1>3

(* While anybody packs, the client has not begun.                          *)
LEMMA PackingIsBefore ==
    ASSUME IInv, NEW p \in Procs, Packing(p)
    PROVE  /\ client = "idle" /\ Intact(files)
           /\ \A base \in Bases : Src(base) \in DOMAIN files
           /\ Given(p) /\ path[p] \in TempNames
           /\ entries[p] \in Seq(Entry) /\ todo[p] \in Seq(Bases) /\ pos[p] \in Nat
           /\ PackInv(p)
BY DEF IInv, ClientInv, FilesInv, PackersInv, PackInv, PackTypeOK, PackControl, DiskInv,
       Packing, InSize

(* A step of one process that packs.                                       *)
LEMMA OthersKeep ==
    ASSUME IInv, NEW p \in Procs, PackInv(p)', UNCHANGED <<temp, base_dir, changed, failing>>,
           DOMAIN pack' = Procs, DOMAIN todo' = Procs, DOMAIN entries' = Procs,
           DOMAIN pos' = Procs, DOMAIN unread' = Procs,
           \A r \in Procs \ {p} : /\ pack'[r] = pack[r] /\ todo'[r] = todo[r]
                                  /\ entries'[r] = entries[r] /\ pos'[r] = pos[r]
                                  /\ unread'[r] = unread[r]
    PROVE  PackersInv'
<1>1. ASSUME NEW r \in Procs \ {p} PROVE PackInv(r)'
  <2>1. PackInv(r)
    BY DEF IInv, PackersInv
  <2>2. Given(r) => Given(r)'
    BY DEF Given
  <2>3. Spoiled(r) \subseteq Spoiled(r)'
    BY SpoiledGrows
  <2>4. QED
    BY <2>1, <2>2, <2>3, PackFrame
<1>2. QED
  BY <1>1 DEF PackersInv

-----------------------------------------------------------------------------
(* The steps of packing.                                                   *)

LEMMA StartPackingOK ==
    ASSUME IInv, NEW p \in Procs, StartPacking(p)
    PROVE  PackInv(p)' /\ PackersInv'
<1>1. PICK list \in FileLists : todo' = [todo EXCEPT ![p] = list]
  BY DEF StartPacking
<1>2. /\ pack[p] = "idle" /\ Given(p) /\ pack' = [pack EXCEPT ![p] = "next"]
      /\ UNCHANGED <<temp, base_dir, removed, changed, failing, unread, entries, pos>>
  BY DEF StartPacking, tempvars, envvars
<1>3. PackersInv /\ PackInv(p) /\ FilesInv
  BY DEF IInv, PackersInv
<1>4. /\ pack'[p] = "next" /\ todo'[p] = list /\ entries'[p] = <<>> /\ pos'[p] = pos[p]
      /\ Given(p)'
  BY <1>1, <1>2, <1>3 DEF PackersInv, PackInv, PackControl, Given
<1>5. /\ list \in Seq(Bases)
      /\ \A i, j \in DOMAIN list : list[i] = list[j] => i = j
      /\ \A base \in Bases \ removed : \E i \in DOMAIN list : list[i] = base
  BY FileListsOK
<1>6. \A base \in Bases \ changed' : \E i \in DOMAIN list : list[i] = base
  BY <1>2, <1>3, <1>5 DEF FilesInv
<1>7. PackTypeOK(p)'
  BY <1>3, <1>4, <1>5, EmptySeq DEF PackTypeOK, PackInv, PackStates, InSize
<1>8. PackControl(p)' /\ PackContents(p)'
  BY <1>4, <1>5, <1>6 DEF PackControl, PackContents, UniqueNames
<1>9. PackInv(p)'
  BY <1>7, <1>8 DEF PackInv
<1>10. QED
  BY <1>1, <1>2, <1>3, <1>9, OthersKeep DEF PackersInv

LEMMA AddFileOK ==
    ASSUME IInv, NEW p \in Procs, AddFile(p)
    PROVE  PackInv(p)' /\ PackersInv'
<1>0. PICK base, content, e, old :
         /\ base = todo[p][1] /\ content = files[Src(base)] /\ old = entries[p]
         /\ e = [name |-> Entryname(base), size |-> Len(content), data |-> <<>>, bad |-> FALSE]
  OBVIOUS
<1>1. /\ pack[p] = "next" /\ todo[p] # <<>> /\ pack' = [pack EXCEPT ![p] = "copy"]
      /\ entries' = [entries EXCEPT ![p] = Append(old, e)]
      /\ pos' = [pos EXCEPT ![p] = 0]
      /\ UNCHANGED <<temp, base_dir, changed, failing, unread, todo>>
  BY <1>0 DEF AddFile, tempvars, envvars
<1>2. /\ client = "idle" /\ Intact(files) /\ Given(p) /\ old \in Seq(Entry)
      /\ \A b \in Bases : Src(b) \in DOMAIN files
      /\ todo[p] \in Seq(Bases) /\ PackInv(p) /\ FilesInv /\ PackersInv
  BY <1>0, <1>1, PackingIsBefore DEF Packing, IInv
<1>3. 1 \in DOMAIN todo[p] /\ base \in Bases
  BY <1>0, <1>1, <1>2, EmptySeq, LenProperties
<1>4. content \in Seq(Chunks) /\ Len(content) \in Nat
  BY <1>0, <1>2, <1>3, LenProperties DEF FilesInv
<1>5. base \notin changed => content = Sources[base]
  BY <1>0, <1>2, <1>3 DEF Intact
<1>6. e \in Entry
  BY <1>0, <1>2, <1>3, <1>4, EntrynameFacts, EmptySeq DEF Entry, EntryNames
<1>7. PartOf(p, e, base, 0)'
  <2>1. base \in Bases => SubSeq(Sources[base], 1, 0) = <<>>
    BY SourcesTyped
  <2>2. QED
    BY <1>0, <1>1, <1>3, <1>4, <1>5, <2>1 DEF PartOf, Entryname, Spoiled
<1>8. e.name = Entryname(base) /\ Len(e.data) = 0 /\ e.size \in Nat
  BY <1>0, <1>4, EmptySeq
<1>9. /\ pack'[p] = "copy" /\ entries'[p] = Append(old, e) /\ pos'[p] = 0
      /\ todo'[p] = todo[p]
  BY <1>0, <1>1, <1>2 DEF PackersInv
<1>10. /\ Append(old, e) \in Seq(Entry) /\ Len(Append(old, e)) = Len(old) + 1
       /\ DOMAIN Append(old, e) = 1 .. Len(old) + 1 /\ Append(old, e)[Len(old) + 1] = e
       /\ DOMAIN old = 1 .. Len(old) /\ Len(old) \in Nat
       /\ \A i \in 1 .. Len(old) : Append(old, e)[i] = old[i]
  BY <1>2, <1>6, LenProperties
<1>11. PackTypeOK(p)'
  <2>1. \A i \in 1 .. Len(old) : Len(old[i].data) <= old[i].size
    BY <1>0, <1>2, <1>10 DEF PackInv, PackTypeOK, InSize
  <2>2. \A i \in 1 .. Len(old) + 1 : Len(Append(old, e)[i].data) <= Append(old, e)[i].size
    BY <1>8, <1>10, <2>1
  <2>3. QED
    BY <1>2, <1>9, <1>10, <2>2 DEF PackTypeOK, PackStates, InSize
<1>12. PackControl(p)'
  <2>1. /\ UniqueNames(old)
        /\ \A i, j \in DOMAIN todo[p] : todo[p][i] = todo[p][j] => i = j
        /\ \A i \in 1 .. Len(old), j \in DOMAIN todo[p] :
              old[i].name # Entryname(todo[p][j])
    BY <1>0, <1>1, <1>2, <1>10 DEF PackInv, PackControl, Packing
  <2>2. UniqueNames(Append(old, e))
    <3>1. \A i \in 1 .. Len(old) : old[i].name # e.name
      BY <1>0, <1>3, <1>8, <2>1
    <3>2. \A i \in 1 .. Len(old) + 1 : i \in 1 .. Len(old) \/ i = Len(old) + 1
      BY <1>10
    <3>3. QED
      BY <1>10, <2>1, <3>1, <3>2 DEF UniqueNames
  <2>3. \A i \in 1 .. Len(old) + 1, j \in DOMAIN todo[p] :
           Append(old, e)[i].name = Entryname(todo[p][j]) => i = Len(old) + 1 /\ j = 1
    <3> SUFFICES ASSUME NEW i \in 1 .. Len(old) + 1, NEW j \in DOMAIN todo[p],
                        Append(old, e)[i].name = Entryname(todo[p][j])
                 PROVE  i = Len(old) + 1 /\ j = 1
      OBVIOUS
    <3>1. i = Len(old) + 1
      BY <1>10, <2>1
    <3>2. Entryname(todo[p][j]) = Entryname(base)
      BY <1>8, <1>10, <3>1
    <3>3. todo[p][j] = base
      BY <1>2, <1>3, <3>2, EntrynameFacts
    <3>4. QED
      BY <1>0, <1>3, <2>1, <3>1, <3>3
  <2>4. Append(old, e) # <<>>
    BY <1>10, EmptySeq
  <2>5. \A b : Entryname(b)' = Entryname(b)
    BY <1>1 DEF Entryname
  <2>6. Given(p)'
    BY <1>1, <1>2 DEF Given
  <2>7. UniqueNames(entries[p])'
    BY <1>9, <2>2 DEF UniqueNames
  <2>8. \A i \in DOMAIN entries'[p], j \in DOMAIN todo'[p] :
           entries'[p][i].name = Entryname(todo[p][j])' => i = Len(entries'[p]) /\ j = 1
    BY <1>9, <1>10, <2>3, <2>5
  <2>9. QED
    BY <1>1, <1>9, <2>1, <2>4, <2>6, <2>7, <2>8 DEF PackControl
<1>13. PackContents(p)'
  <2>1. LastEntry(p)' = e
    BY <1>9, <1>10 DEF LastEntry
  <2>2. \A b : Entryname(b)' = Entryname(b)
    BY <1>1 DEF Entryname
  <2>3. \A b \in Bases \ changed :
           \/ \E i \in DOMAIN old : old[i].name = Entryname(b)
           \/ \E j \in DOMAIN todo[p] : todo[p][j] = b
    BY <1>0, <1>1, <1>2 DEF PackInv, PackContents, Packing
  <2>4. \A i \in 1 .. Len(old) : Whole(p, old[i])'
    <3>1. \A i \in 1 .. Len(old) : Whole(p, old[i])
      BY <1>0, <1>1, <1>2, <1>10 DEF PackInv, PackContents, Packing
    <3>2. \A f : Whole(p, f) => Whole(p, f)'
      BY <1>1, SpoiledGrows, WholeFrame
    <3>3. QED
      BY <3>1, <3>2
  <2>5. \A i \in 1 .. Len(old) + 1 : i = Len(old) + 1 \/ Whole(p, Append(old, e)[i])'
    BY <1>10, <2>4
  <2>6. \A b \in Bases \ changed' :
           \/ \E i \in 1 .. Len(old) + 1 : Append(old, e)[i].name = Entryname(b)'
           \/ \E j \in DOMAIN todo'[p] : todo'[p][j] = b
    BY <1>1, <1>9, <1>10, <2>2, <2>3
  <2>7. PartOf(p, LastEntry(p), todo[p][1], pos[p])'
    BY <1>0, <1>7, <1>9, <2>1
  <2>8. QED
    BY <1>9, <1>10, <2>5, <2>6, <2>7 DEF PackContents
<1>14. PackInv(p)'
  BY <1>11, <1>12, <1>13 DEF PackInv
<1>15. QED
  BY <1>1, <1>2, <1>14, OthersKeep DEF PackersInv

(* The last entry of a list is replaced by another of its name.            *)
LEMMA ReplaceLast ==
    ASSUME NEW old, InSize(old), UniqueNames(old), old # <<>>,
           NEW x \in Entry, x.name = old[Len(old)].name, Len(x.data) <= x.size,
           NEW new, new = [old EXCEPT ![Len(old)] = x]
    PROVE  /\ InSize(new) /\ UniqueNames(new) /\ new # <<>>
           /\ DOMAIN new = DOMAIN old /\ Len(new) = Len(old)
           /\ Len(old) \in DOMAIN old /\ new[Len(old)] = x
           /\ \A i \in DOMAIN old : /\ new[i].name = old[i].name
                                    /\ i # Len(old) => new[i] = old[i]
<1>1. /\ old \in Seq(Entry) /\ Len(old) \in Nat /\ DOMAIN old = 1 .. Len(old)
      /\ \A i \in DOMAIN old : Len(old[i].data) <= old[i].size
  BY LenProperties DEF InSize
<1>2. Len(old) \in 1 .. Len(old)
  BY <1>1, EmptySeq
<1>3. /\ new \in Seq(Entry) /\ Len(new) = Len(old)
      /\ \A j \in 1 .. Len(old) : new[j] = IF j = Len(old) THEN x ELSE old[j]
  BY <1>1, <1>2, ExceptSeq
<1>4. DOMAIN new = 1 .. Len(old)
  BY <1>1, <1>3, LenProperties
<1>5. new # <<>>
  BY <1>2, <1>4
<1>6. UniqueNames(new)
  BY <1>1, <1>3, <1>4 DEF UniqueNames
<1>7. QED
  BY <1>1, <1>2, <1>3, <1>4, <1>5, <1>6 DEF InSize

LEMMA CopyChunkOK ==
    ASSUME IInv, NEW p \in Procs, CopyChunk(p)
    PROVE  PackInv(p)' /\ PackersInv'
<1>0. PICK base, content, old, e, n :
         /\ base = todo[p][1] /\ content = files[Src(base)] /\ old = entries[p]
         /\ e = old[Len(old)] /\ n = pos[p]
  OBVIOUS
<1>1. /\ pack[p] = "copy" /\ n < Len(content) /\ UNCHANGED pack
      /\ pos' = [pos EXCEPT ![p] = n + 1]
      /\ \/ /\ Len(e.data) < e.size
            /\ entries' = [entries EXCEPT ![p][Len(old)].data = Append(@, content[n + 1])]
         \/ /\ ~(Len(e.data) < e.size) \/ p \in failing
            /\ entries' = entries
      /\ UNCHANGED <<temp, base_dir, changed, failing, unread, todo>>
  BY <1>0 DEF CopyChunk, tempvars, envvars
<1>2. /\ client = "idle" /\ Intact(files) /\ Given(p) /\ old \in Seq(Entry)
      /\ \A b \in Bases : Src(b) \in DOMAIN files
      /\ todo[p] \in Seq(Bases) /\ n \in Nat /\ PackInv(p) /\ FilesInv /\ PackersInv
  BY <1>0, <1>1, PackingIsBefore DEF Packing, IInv
<1>3. old # <<>> /\ todo[p] # <<>> /\ InSize(old) /\ UniqueNames(old)
  BY <1>0, <1>1, <1>2 DEF PackInv, PackControl, PackTypeOK
<1>4. 1 \in DOMAIN todo[p] /\ base \in Bases
  BY <1>0, <1>2, <1>3, EmptySeq, LenProperties
<1>5. /\ content \in Seq(Chunks) /\ Len(content) \in Nat
      /\ base \notin changed => content = Sources[base]
  BY <1>0, <1>2, <1>4, LenProperties DEF FilesInv, Intact
<1>6. PartOf(p, e, base, n)
  BY <1>0, <1>1, <1>2 DEF PackInv, PackContents, LastEntry
<1>7. Len(old) \in DOMAIN old /\ e \in Entry /\ Len(e.data) <= e.size
  BY <1>0, <1>2, <1>3, EmptySeq, LenProperties DEF InSize
<1>8. PICK x :
        \/ /\ Len(e.data) < e.size
           /\ x = [e EXCEPT !.data = Append(@, content[n + 1])]
           /\ entries' = [entries EXCEPT ![p][Len(old)].data = Append(@, content[n + 1])]
        \/ /\ ~(Len(e.data) < e.size) \/ p \in failing
           /\ x = e
           /\ entries' = entries
  BY <1>1
<1>9. x \in Entry /\ x.name = e.name /\ x.size = e.size /\ Len(x.data) <= x.size
  <2>1. content[n + 1] \in Chunks
    BY <1>1, <1>2, <1>5, ElementOfSeq
  <2>2. /\ e = [name |-> e.name, size |-> e.size, data |-> e.data, bad |-> e.bad]
        /\ e.data \in Seq(Chunks) /\ e.size \in Nat /\ Len(e.data) \in Nat
    BY <1>7 DEF Entry
  <2>3. /\ Append(e.data, content[n + 1]) \in Seq(Chunks)
        /\ Len(Append(e.data, content[n + 1])) = Len(e.data) + 1
    BY <2>1, <2>2
  <2>4. CASE x = [e EXCEPT !.data = Append(@, content[n + 1])] /\ Len(e.data) < e.size
    <3>1. x = [name |-> e.name, size |-> e.size,
               data |-> Append(e.data, content[n + 1]), bad |-> e.bad]
      BY <2>2, <2>4
    <3>2. Len(e.data) + 1 <= e.size
      BY <2>2, <2>4
    <3>3. QED
      BY <1>7, <2>2, <2>3, <3>1, <3>2 DEF Entry
  <2>5. CASE x = e
    BY <1>7, <2>5
  <2>6. QED
    BY <1>8, <2>4, <2>5
<1>10. base \notin Spoiled(p) =>
          n + 1 <= x.size /\ x.data = SubSeq(Sources[base], 1, n + 1)
  <2> SUFFICES ASSUME base \notin Spoiled(p)
               PROVE  n + 1 <= x.size /\ x.data = SubSeq(Sources[base], 1, n + 1)
    OBVIOUS
  <2>0. base \notin changed /\ p \notin failing
    BY <1>4 DEF Spoiled
  <2>1. /\ content = Sources[base] /\ e.size = Len(content)
        /\ e.data = SubSeq(content, 1, n)
    BY <1>5, <1>6, <2>0 DEF PartOf
  <2>2. Len(e.data) = n
    BY <1>1, <1>2, <1>5, <2>1
  <2>3. x.data = Append(SubSeq(content, 1, n), content[n + 1])
    BY <1>1, <1>7, <1>8, <2>0, <2>1, <2>2 DEF Entry
  <2>4. Append(SubSeq(content, 1, n), content[n + 1]) = SubSeq(content, 1, n + 1)
    BY <1>1, <1>2, <1>5
  <2>5. QED
    BY <1>1, <1>2, <1>5, <1>9, <2>1, <2>3, <2>4
<1>11. PICK new : new = [old EXCEPT ![Len(old)] = x]
  OBVIOUS
<1>12. /\ pack'[p] = "copy" /\ todo'[p] = todo[p] /\ pos'[p] = n + 1 /\ entries'[p] = new
       /\ \A r \in Procs \ {p} : /\ pack'[r] = pack[r] /\ todo'[r] = todo[r]
                                 /\ entries'[r] = entries[r] /\ pos'[r] = pos[r]
       /\ DOMAIN pack' = Procs /\ DOMAIN todo' = Procs /\ DOMAIN entries' = Procs
       /\ DOMAIN pos' = Procs
  <2>1. /\ DOMAIN pack = Procs /\ DOMAIN todo = Procs /\ DOMAIN entries = Procs
        /\ DOMAIN pos = Procs
    BY <1>2 DEF PackersInv
  <2>2. entries'[p] = new /\ DOMAIN entries' = Procs
        /\ \A r \in Procs \ {p} : entries'[r] = entries[r]
    <3>1. CASE /\ x = [e EXCEPT !.data = Append(@, content[n + 1])]
               /\ entries' = [entries EXCEPT ![p][Len(old)].data = Append(@, content[n + 1])]
      <4>1. entries' = [entries EXCEPT ![p] =
                          [old EXCEPT ![Len(old)] = [e EXCEPT !.data = Append(@, content[n + 1])]]]
        BY <1>0, <3>1
      <4>2. QED
        BY <1>11, <2>1, <3>1, <4>1
    <3>2. CASE x = e /\ entries' = entries
      <4>1. new = old
        BY <1>0, <1>2, <1>11, <3>2
      <4>2. QED
        BY <1>0, <2>1, <3>2, <4>1
    <3>3. QED
      BY <1>8, <3>1, <3>2
  <2>3. QED
    BY <1>1, <2>1, <2>2
<1>13. /\ InSize(new) /\ UniqueNames(new) /\ new # <<>>
       /\ DOMAIN new = DOMAIN old /\ Len(new) = Len(old) /\ new[Len(old)] = x
       /\ \A i \in DOMAIN old : /\ new[i].name = old[i].name
                                /\ i # Len(old) => new[i] = old[i]
  BY <1>0, <1>3, <1>9, <1>11, ReplaceLast
<1>14. /\ \A b : Entryname(b)' = Entryname(b)
       /\ \A f : Whole(p, f) => Whole(p, f)'
       /\ Spoiled(p) \subseteq Spoiled(p)'
  BY <1>1, SpoiledGrows, WholeFrame DEF Entryname
<1>15. PackTypeOK(p)'
  BY <1>2, <1>12, <1>13 DEF PackTypeOK, PackStates, InSize
<1>16. PackControl(p)'
  <2>1. /\ \A i, j \in DOMAIN todo[p] : todo[p][i] = todo[p][j] => i = j
        /\ \A i \in DOMAIN old, j \in DOMAIN todo[p] :
              old[i].name = Entryname(todo[p][j]) => i = Len(old) /\ j = 1
    BY <1>0, <1>1, <1>2 DEF PackInv, PackControl, Packing
  <2>2. \A i \in DOMAIN entries'[p], j \in DOMAIN todo'[p] :
           entries'[p][i].name = Entryname(todo[p][j])' => i = Len(entries'[p]) /\ j = 1
    BY <1>12, <1>13, <1>14, <2>1
  <2>3. Given(p)'
    BY <1>1, <1>2 DEF Given
  <2>4. UniqueNames(entries[p])'
    BY <1>12, <1>13 DEF UniqueNames
  <2>5. QED
    BY <1>3, <1>12, <1>13, <2>1, <2>2, <2>3, <2>4 DEF PackControl
<1>17. PackContents(p)'
  <2>1. PartOf(p, LastEntry(p), todo[p][1], pos[p])'
    <3>1. PartOf(p, x, base, n + 1)'
      BY <1>6, <1>9, <1>10, <1>14 DEF PartOf
    <3>2. LastEntry(p)' = x /\ todo'[p][1] = base /\ pos'[p] = n + 1
      BY <1>0, <1>12, <1>13 DEF LastEntry
    <3>3. QED
      BY <3>1, <3>2
  <2>2. /\ \A b \in Bases \ changed :
              \/ \E i \in DOMAIN old : old[i].name = Entryname(b)
              \/ \E j \in DOMAIN todo[p] : todo[p][j] = b
        /\ \A i \in DOMAIN old : i = Len(old) \/ Whole(p, old[i])
    BY <1>0, <1>1, <1>2 DEF PackInv, PackContents, Packing
  <2>3. \A b \in Bases \ changed' :
           \/ \E i \in DOMAIN new : new[i].name = Entryname(b)'
           \/ \E j \in DOMAIN todo'[p] : todo'[p][j] = b
    BY <1>1, <1>12, <1>13, <1>14, <2>2
  <2>4. \A i \in DOMAIN new : i = Len(new) \/ Whole(p, new[i])'
    BY <1>13, <1>14, <2>2
  <2>5. QED
    BY <1>12, <2>1, <2>3, <2>4 DEF PackContents
<1>18. PackInv(p)'
  BY <1>15, <1>16, <1>17 DEF PackInv
<1>19. QED
  BY <1>1, <1>2, <1>12, <1>18, OthersKeep DEF PackersInv

(* A file is finished at its end, or at an error that is taken for it.     *)
LEMMA FinishFileOK ==
    ASSUME IInv, NEW p \in Procs, pack[p] = "copy", FinishFile(p),
           DOMAIN unread' = Procs, unread[p] \subseteq unread'[p],
           \A r \in Procs \ {p} : unread'[r] = unread[r],
           pos[p] >= Len(files[Src(todo[p][1])]) \/ todo[p][1] \in unread'[p]
    PROVE  PackInv(p)' /\ PackersInv'
<1>0. PICK base, content, old, e, n, x, new :
         /\ base = todo[p][1] /\ content = files[Src(base)] /\ old = entries[p]
         /\ e = old[Len(old)] /\ n = pos[p] /\ x = Finished(e)
         /\ new = [old EXCEPT ![Len(old)] = x]
  OBVIOUS
<1>1. /\ pack[p] = "copy" /\ (n >= Len(content) \/ base \in unread'[p])
      /\ entries' = [entries EXCEPT ![p] = new]
      /\ todo' = [todo EXCEPT ![p] = Tail(@)]
      /\ pack' = [pack EXCEPT ![p] = "next"]
      /\ UNCHANGED <<temp, base_dir, changed, failing, pos>>
  BY <1>0 DEF FinishFile, tempvars
<1>2. /\ client = "idle" /\ Intact(files) /\ Given(p) /\ old \in Seq(Entry)
      /\ \A b \in Bases : Src(b) \in DOMAIN files
      /\ todo[p] \in Seq(Bases) /\ n \in Nat /\ PackInv(p) /\ FilesInv /\ PackersInv
  BY <1>0, <1>1, PackingIsBefore DEF Packing, IInv
<1>3. old # <<>> /\ todo[p] # <<>> /\ InSize(old) /\ UniqueNames(old)
  BY <1>0, <1>1, <1>2 DEF PackInv, PackControl, PackTypeOK
<1>4. 1 \in DOMAIN todo[p] /\ base \in Bases
  BY <1>0, <1>2, <1>3, EmptySeq, LenProperties
<1>5. /\ content \in Seq(Chunks) /\ Len(content) \in Nat
      /\ base \notin changed => content = Sources[base]
  BY <1>0, <1>2, <1>4, LenProperties DEF FilesInv, Intact
<1>6. PartOf(p, e, base, n)
  BY <1>0, <1>1, <1>2 DEF PackInv, PackContents, LastEntry
<1>7. Len(old) \in DOMAIN old /\ e \in Entry /\ Len(e.data) <= e.size
  BY <1>0, <1>2, <1>3, EmptySeq, LenProperties DEF InSize
<1>8. /\ x \in Entry /\ x.name = e.name /\ Len(x.data) = x.size
      /\ Len(e.data) = e.size => x.data = e.data
  BY <1>0, <1>7, FinishedOK
<1>9. /\ InSize(new) /\ UniqueNames(new) /\ new # <<>>
      /\ DOMAIN new = DOMAIN old /\ Len(new) = Len(old) /\ new[Len(old)] = x
      /\ \A i \in DOMAIN old : /\ new[i].name = old[i].name
                               /\ i # Len(old) => new[i] = old[i]
  <2>1. x.size \in Nat
    BY <1>8 DEF Entry
  <2>2. Len(x.data) <= x.size
    BY <1>8, <2>1
  <2>3. QED
    BY <1>0, <1>3, <1>8, <2>2, ReplaceLast
<1>10. Whole(p, x)'
  <2> SUFFICES ASSUME NEW b \in Bases \ Spoiled(p)', x.name = Entryname(b)
               PROVE  x.data = Sources[b]
    BY <1>1, <1>8 DEF Whole, Entryname
  <2>0. b \notin Spoiled(p) /\ b \notin changed /\ b \notin unread'[p]
    BY <1>1, SpoiledGrows DEF Spoiled
  <2>1. b = base
    BY <1>2, <1>4, <1>6, <1>8, EntrynameFacts DEF PartOf
  <2>2. /\ content = Sources[base] /\ e.size = Len(content) /\ n <= Len(content)
        /\ e.data = SubSeq(content, 1, n)
    BY <1>5, <1>6, <2>0, <2>1 DEF PartOf
  <2>3. n = Len(content)
    BY <1>1, <1>2, <1>5, <2>0, <2>1, <2>2
  <2>4. e.data = content
    BY <1>5, <2>2, <2>3
  <2>5. QED
    BY <1>8, <2>1, <2>2, <2>4
<1>11. /\ pack'[p] = "next" /\ todo'[p] = Tail(todo[p]) /\ pos'[p] = n /\ entries'[p] = new
  BY <1>0, <1>1, <1>2 DEF PackersInv
<1>12. /\ Tail(todo[p]) \in Seq(Bases)
       /\ \A j \in DOMAIN Tail(todo[p]) :
             /\ j \in Nat /\ j + 1 # 1
             /\ j + 1 \in DOMAIN todo[p] /\ Tail(todo[p])[j] = todo[p][j + 1]
       /\ \A j \in DOMAIN todo[p] :
             j = 1 \/ \E k \in DOMAIN Tail(todo[p]) : Tail(todo[p])[k] = todo[p][j]
  <2>1. /\ Tail(todo[p]) \in Seq(Bases) /\ Len(todo[p]) \in Nat
        /\ DOMAIN todo[p] = 1 .. Len(todo[p])
        /\ DOMAIN Tail(todo[p]) = 1 .. Len(todo[p]) - 1
        /\ \A j \in 1 .. Len(todo[p]) - 1 : Tail(todo[p])[j] = todo[p][j + 1]
    BY <1>2, <1>3
  <2>2. ASSUME NEW j \in DOMAIN todo[p], j # 1
        PROVE  \E k \in DOMAIN Tail(todo[p]) : Tail(todo[p])[k] = todo[p][j]
    <3>1. j - 1 \in DOMAIN Tail(todo[p]) /\ Tail(todo[p])[j - 1] = todo[p][j]
      BY <2>1, <2>2
    <3>2. QED
      BY <3>1
  <2>3. QED
    BY <2>1, <2>2
<1>13. /\ \A b : Entryname(b)' = Entryname(b)
       /\ \A f : Whole(p, f) => Whole(p, f)'
  BY <1>1, SpoiledGrows, WholeFrame DEF Entryname
<1>14. PackTypeOK(p)'
  BY <1>2, <1>9, <1>11, <1>12 DEF PackTypeOK, PackStates, InSize
<1>15. PackControl(p)'
  <2>1. /\ \A i, j \in DOMAIN todo[p] : todo[p][i] = todo[p][j] => i = j
        /\ \A i \in DOMAIN old, j \in DOMAIN todo[p] :
              old[i].name = Entryname(todo[p][j]) => i = Len(old) /\ j = 1
    BY <1>0, <1>1, <1>2 DEF PackInv, PackControl, Packing
  <2>2. \A i, j \in DOMAIN Tail(todo[p]) : Tail(todo[p])[i] = Tail(todo[p])[j] => i = j
    BY <1>12, <2>1
  <2>3. \A i \in DOMAIN new, j \in DOMAIN Tail(todo[p]) :
           new[i].name # Entryname(Tail(todo[p])[j])
    BY <1>9, <1>12, <2>1
  <2>4. \A i \in DOMAIN entries'[p], j \in DOMAIN todo'[p] :
           entries'[p][i].name # Entryname(todo[p][j])'
    BY <1>11, <1>13, <2>3
  <2>5. Given(p)'
    BY <1>1, <1>2 DEF Given
  <2>6. UniqueNames(entries[p])'
    BY <1>9, <1>11 DEF UniqueNames
  <2>7. QED
    BY <1>11, <2>2, <2>4, <2>5, <2>6 DEF PackControl
<1>16. PackContents(p)'
  <2>1. /\ \A b \in Bases \ changed :
              \/ \E i \in DOMAIN old : old[i].name = Entryname(b)
              \/ \E j \in DOMAIN todo[p] : todo[p][j] = b
        /\ \A i \in DOMAIN old : i = Len(old) \/ Whole(p, old[i])
    BY <1>0, <1>1, <1>2 DEF PackInv, PackContents, Packing
  <2>2. x.name = Entryname(base)
    BY <1>6, <1>8 DEF PartOf
  <2>3. ASSUME NEW b \in Bases \ changed'
        PROVE  \/ \E i \in DOMAIN new : new[i].name = Entryname(b)'
               \/ \E j \in DOMAIN todo'[p] : todo'[p][j] = b
    <3>1. CASE \E i \in DOMAIN old : old[i].name = Entryname(b)
      BY <1>9, <1>13, <3>1
    <3>2. CASE b = base
      BY <1>7, <1>9, <1>13, <2>2, <3>2
    <3>3. CASE b # base /\ \E j \in DOMAIN todo[p] : todo[p][j] = b
      <4>1. PICK j \in DOMAIN todo[p] : todo[p][j] = b
        BY <3>3
      <4>2. j # 1
        BY <1>0, <3>3, <4>1
      <4>3. PICK k \in DOMAIN Tail(todo[p]) : Tail(todo[p])[k] = b
        BY <1>12, <4>1, <4>2
      <4>4. \E k2 \in DOMAIN todo'[p] : todo'[p][k2] = b
        BY <1>11, <4>3
      <4>5. QED
        BY <4>4
    <3>4. QED
      BY <1>1, <2>1, <2>3, <3>1, <3>2, <3>3
  <2>4. \A i \in DOMAIN new : Whole(p, new[i])'
    BY <1>9, <1>10, <1>13, <2>1
  <2>5. QED
    BY <1>11, <2>3, <2>4 DEF PackContents
<1>17. PackInv(p)'
  BY <1>14, <1>15, <1>16 DEF PackInv
<1>18. QED
  BY <1>1, <1>2, <1>17, OthersKeep DEF PackersInv

LEMMA CopyDoneOK ==
    ASSUME IInv, NEW p \in Procs, CopyDone(p) \/ CopyStops(p)
    PROVE  PackInv(p)' /\ PackersInv'
<1>1. pack[p] = "copy" /\ FinishFile(p) /\ DOMAIN unread = Procs
  BY DEF CopyDone, CopyStops, IInv, PackersInv
<1>2. CASE CopyDone(p)
  <2>1. unread' = unread /\ pos[p] >= Len(files[Src(todo[p][1])])
    BY <1>2 DEF CopyDone
  <2>2. QED
    BY <1>1, <2>1, FinishFileOK
<1>3. CASE CopyStops(p)
  <2>1. unread' = [unread EXCEPT ![p] = @ \cup {todo[p][1]}]
    BY <1>3 DEF CopyStops
  <2>2. /\ DOMAIN unread' = Procs /\ unread'[p] = unread[p] \cup {todo[p][1]}
        /\ \A r \in Procs \ {p} : unread'[r] = unread[r]
    BY <1>1, <2>1
  <2>3. QED
    BY <1>1, <2>2, FinishFileOK
<1>4. QED
  BY <1>2, <1>3

LEMMA CloseOK ==
    ASSUME IInv, NEW p \in Procs, Close(p)
    PROVE  PackInv(p)' /\ PackersInv'
<1>1. /\ pack[p] = "next"
      /\ UNCHANGED <<temp, base_dir, changed, failing, unread, todo, entries, pos>>
      /\ \/ todo[p] = <<>> /\ pack' = [pack EXCEPT ![p] = "ok"]
         \/ pack' = [pack EXCEPT ![p] = "error"]
  BY DEF Close, tempvars, envvars
<1>2. PackersInv /\ PackInv(p)
  BY DEF IInv, PackersInv
<1>3. pack'[p] \in {"ok", "error"} /\ (pack'[p] = "ok" => todo[p] = <<>>)
  BY <1>1, <1>2 DEF PackersInv
<1>4. /\ \A b : Entryname(b)' = Entryname(b)
      /\ \A f : Whole(p, f) => Whole(p, f)'
  BY <1>1, SpoiledGrows, WholeFrame DEF Entryname
<1>5. PackTypeOK(p)'
  BY <1>1, <1>2, <1>3 DEF PackInv, PackTypeOK, PackStates, InSize
<1>6. PackControl(p)'
  BY <1>1, <1>2, <1>3 DEF PackInv, PackControl, UniqueNames, Packing, Given
<1>7. PackContents(p)'
  <2>1. /\ \A b \in Bases \ changed :
              \/ \E i \in DOMAIN entries[p] : entries[p][i].name = Entryname(b)
              \/ \E j \in DOMAIN todo[p] : todo[p][j] = b
        /\ \A i \in DOMAIN entries[p] : Whole(p, entries[p][i])
    BY <1>1, <1>2 DEF PackInv, PackContents, Packing
  <2>2. \A i \in DOMAIN entries[p] : Whole(p, entries[p][i])'
    BY <1>1, <1>4, <2>1
  <2>3. QED
    BY <1>1, <1>3, <1>4, <2>1, <2>2 DEF PackContents
<1>8. PackInv(p)'
  BY <1>5, <1>6, <1>7 DEF PackInv
<1>9. QED
  BY <1>1, <1>2, <1>8, OthersKeep DEF PackersInv

LEMMA CrashOK ==
    ASSUME IInv, NEW p \in Procs, Crash(p)
    PROVE  PackInv(p)' /\ PackersInv'
<1>1. /\ Packing(p)
      /\ UNCHANGED <<temp, base_dir, changed, failing, unread, todo, entries, pos>>
      /\ pack' = [pack EXCEPT ![p] = "crashed"]
  BY DEF Crash, tempvars, envvars
<1>2. PackersInv /\ PackInv(p)
  BY DEF IInv, PackersInv
<1>3. pack'[p] = "crashed"
  BY <1>1, <1>2 DEF PackersInv
<1>4. PackTypeOK(p)'
  BY <1>1, <1>2, <1>3 DEF PackInv, PackTypeOK, PackStates, InSize
<1>5. PackControl(p)' /\ PackContents(p)'
  BY <1>1, <1>2, <1>3 DEF PackInv, PackControl, PackContents, UniqueNames, Packing, Given
<1>6. PackInv(p)'
  BY <1>4, <1>5 DEF PackInv
<1>7. QED
  BY <1>1, <1>2, <1>6, OthersKeep DEF PackersInv

-----------------------------------------------------------------------------
(* The archives on disk, when a process packs.                             *)

(* Another process with a path of its own has its archive left alone.      *)
LEMMA OtherArchives ==
    ASSUME DiskInv, NEW p \in Procs, Given(p),
           UNCHANGED <<damaged, failing, path, exists, temp>>,
           \A name \in TempNames \ {path[p]} : disk'[name] = disk[name],
           NEW q \in Procs \ {p}, Alone(q)',
           pack'[q] = pack[q], entries'[q] = entries[q]
    PROVE  /\ Packing(q)' => ~disk'[path[q]].mixed
           /\ pack'[q] = "ok" /\ path[q] \notin damaged /\ q \notin failing =>
                disk'[path[q]].entries = entries'[q]
<1>1. Alone(q)
  BY DEF Alone, Given
<1>2. path[q] \in TempNames /\ path[q] # path[p]
  BY <1>1 DEF Alone, DiskInv
<1>3. disk'[path[q]] = disk[path[q]]
  BY <1>2
<1>4. QED
  BY <1>1, <1>3 DEF DiskInv, Packing

LEMMA PackDisk ==
    ASSUME IInv, NEW p \in Procs, Pack(p) \/ Crash(p)
    PROVE  DiskInv'
<1>1. UNCHANGED <<path, exists, temp, damaged, failing>>
  BY DEF Pack, StartPacking, AddFile, CopyChunk, CopyDone, CopyStops, FinishFile, Close, Crash,
         tempvars, envvars
<1>2. DiskInv /\ PackersInv /\ PackInv(p)
  BY DEF IInv, PackersInv
<1>3. CASE AddFile(p) \/ CopyChunk(p) \/ CopyDone(p) \/ CopyStops(p)
  <2>1. /\ Packing(p) /\ UNCHANGED <<disk, opened>> /\ pack'[p] # "ok"
        /\ \A q \in Procs \ {p} : pack'[q] = pack[q] /\ entries'[q] = entries[q]
    BY <1>2, <1>3 DEF AddFile, CopyChunk, CopyDone, CopyStops, FinishFile, Packing, PackersInv
  <2>2. \A q \in Procs : /\ Packing(q)' => Packing(q)
                         /\ pack'[q] = "ok" => pack[q] = "ok" /\ entries'[q] = entries[q]
    BY <2>1 DEF Packing
  <2>3. QED
    BY <1>1, <1>2, <2>1, <2>2, DiskFrame
<1>4. ASSUME NEW a \in Archive, InSize(a.entries), UniqueNames(a.entries),
             Given(p), disk' = [disk EXCEPT ![path[p]] = a],
             opened' \subseteq opened \cup {p},
             \A q \in Procs \ {p} : pack'[q] = pack[q] /\ entries'[q] = entries[q],
             Alone(p)' => /\ Packing(p)' => ~a.mixed
                          /\ pack'[p] = "ok" /\ path[p] \notin damaged /\ p \notin failing =>
                               a.entries = entries'[p]
      PROVE  DiskInv'
  <2>1. disk \in [TempNames -> Archive] /\ path[p] \in TempNames
    BY <1>2 DEF DiskInv
  <2>2. /\ disk' \in [TempNames -> Archive] /\ disk'[path[p]] = a
        /\ \A name \in TempNames \ {path[p]} : disk'[name] = disk[name]
    BY <1>4, <2>1
  <2>3. \A name \in TempNames : InSize(disk'[name].entries) /\ UniqueNames(disk'[name].entries)
    BY <1>2, <1>4, <2>2 DEF DiskInv
  <2>4. opened' \subseteq {r \in Procs : Given(r)'}
    BY <1>1, <1>2, <1>4 DEF DiskInv, Given
  <2>5. ASSUME NEW q \in Procs, Alone(q)'
        PROVE  /\ Packing(q)' => ~disk'[path[q]].mixed
               /\ pack'[q] = "ok" /\ path[q] \notin damaged /\ q \notin failing =>
                    disk'[path[q]].entries = entries'[q]
    <3>1. CASE q = p
      BY <1>4, <2>2, <2>5, <3>1
    <3>2. CASE q # p
      BY <1>1, <1>2, <1>4, <2>2, <2>5, <3>2, OtherArchives
    <3>3. QED
      BY <3>1, <3>2
  <2>6. path' \in [Procs -> TempNames] /\ exists' \subseteq TempNames
    BY <1>1, <1>2 DEF DiskInv
  <2>7. QED
    BY <1>1, <2>2, <2>3, <2>4, <2>5, <2>6 DEF DiskInv, InSize, UniqueNames
<1>5. path[p] \in TempNames /\ disk[path[p]] \in Archive
  BY <1>2 DEF DiskInv
<1>5a. ASSUME Given(p), NEW list \in OnDisk(p)
       PROVE  InSize(list) /\ UniqueNames(list)
  BY <1>2, <1>5a, DamagedOK DEF OnDisk, PackInv, PackTypeOK, PackControl
<1>6. CASE StartPacking(p)
  <2>1. PICK a : a = [NoArchive EXCEPT !.mixed = Mixed(p)]
    OBVIOUS
  <2>2. /\ Given(p) /\ pack' = [pack EXCEPT ![p] = "next"] /\ entries' = entries
        /\ opened' = opened \cup {p} /\ disk' = [disk EXCEPT ![path[p]] = a]
    BY <1>6, <2>1 DEF StartPacking
  <2>3. a = [entries |-> <<>>, mixed |-> Mixed(p)] /\ Mixed(p) \in BOOLEAN
    BY <2>1 DEF NoArchive, Mixed
  <2>4. a \in Archive /\ InSize(a.entries) /\ UniqueNames(a.entries)
    BY <2>3, EmptySeq DEF Archive, InSize, UniqueNames
  <2>5. Alone(p)' => ~Mixed(p)
    BY <1>1, <1>2 DEF Alone, Mixed, DiskInv, Given
  <2>6. pack'[p] = "next" /\ \A q \in Procs \ {p} : pack'[q] = pack[q]
    BY <1>2, <2>2 DEF PackersInv
  <2>7. QED
    BY <1>4, <2>2, <2>3, <2>4, <2>5, <2>6
<1>7. CASE Close(p)
  <2>0. PICK list \in OnDisk(p) : Leave(p, list)
    BY <1>7 DEF Close
  <2>1. PICK a : a = IF disk[path[p]].mixed THEN disk[path[p]]
                     ELSE [entries |-> list, mixed |-> FALSE]
    OBVIOUS
  <2>2. /\ pack[p] = "next" /\ entries' = entries /\ opened' \subseteq opened
        /\ disk' = [disk EXCEPT ![path[p]] = a]
        /\ \/ pack' = [pack EXCEPT ![p] = "ok"]
           \/ pack' = [pack EXCEPT ![p] = "error"]
    BY <1>7, <2>0, <2>1 DEF Close, Leave
  <2>3. InSize(list) /\ UniqueNames(list) /\ Given(p)
    BY <1>2, <1>5a, <2>0, <2>2 DEF PackInv, PackControl
  <2>4. a \in Archive /\ InSize(a.entries) /\ UniqueNames(a.entries)
    BY <1>2, <1>5, <2>1, <2>3 DEF Archive, InSize, DiskInv
  <2>5. Alone(p)' /\ p \notin failing => a.entries = entries[p]
    <3>1. Alone(p)' => Alone(p)
      BY <1>1 DEF Alone, Given
    <3>2. p \notin failing => list = entries[p]
      BY <2>0 DEF OnDisk
    <3>3. QED
      BY <1>2, <2>1, <2>2, <3>1, <3>2 DEF DiskInv, Packing
  <2>6. pack'[p] \in {"ok", "error"} /\ \A q \in Procs \ {p} : pack'[q] = pack[q]
    BY <1>2, <2>2 DEF PackersInv
  <2>7. ~Packing(p)'
    BY <2>6 DEF Packing
  <2>8. QED
    BY <1>4, <2>2, <2>3, <2>4, <2>5, <2>6, <2>7
<1>8. CASE Crash(p)
  <2>1. PICK list \in OnDisk(p) : \E cut \in Cuts(list) : Leave(p, cut)
    BY <1>8 DEF Crash
  <2>2. PICK cut \in Cuts(list) : Leave(p, cut)
    BY <2>1
  <2>3. PICK a : a = IF disk[path[p]].mixed THEN disk[path[p]]
                     ELSE [entries |-> cut, mixed |-> FALSE]
    OBVIOUS
  <2>4. /\ Packing(p) /\ entries' = entries /\ opened' \subseteq opened
        /\ pack' = [pack EXCEPT ![p] = "crashed"]
        /\ disk' = [disk EXCEPT ![path[p]] = a]
    BY <1>8, <2>2, <2>3 DEF Crash, Leave
  <2>5. InSize(cut) /\ UniqueNames(cut) /\ Given(p)
    BY <1>2, <1>5a, <2>1, <2>2, <2>4, CutsOK DEF PackInv, PackControl, Packing
  <2>6. a \in Archive /\ InSize(a.entries) /\ UniqueNames(a.entries)
    BY <1>2, <1>5, <2>3, <2>5 DEF Archive, InSize, DiskInv
  <2>7. pack'[p] = "crashed" /\ \A q \in Procs \ {p} : pack'[q] = pack[q]
    BY <1>2, <2>4 DEF PackersInv
  <2>8. ~Packing(p)'
    BY <2>7 DEF Packing
  <2>9. QED
    BY <1>4, <2>4, <2>5, <2>6, <2>7, <2>8
<1>9. QED
  BY <1>3, <1>6, <1>7, <1>8 DEF Pack

-----------------------------------------------------------------------------
(* The other steps before the client begins.                               *)

LEMMA PackKeepsIInv ==
    ASSUME IInv, NEW p \in Procs, Pack(p) \/ Crash(p)
    PROVE  IInv'
<1>1. PackersInv'
  BY StartPackingOK, AddFileOK, CopyChunkOK, CopyDoneOK, CloseOK, CrashOK DEF Pack
<1>2. UNCHANGED <<tempvars, format, base_dir, removed, changed, files, clientvars>>
  BY DEF Pack, StartPacking, AddFile, CopyChunk, CopyDone, CopyStops, FinishFile, Close, Crash,
         envvars
<1>3. client = "idle"
  <2>1. CASE StartPacking(p)
    BY <2>1 DEF StartPacking
  <2>2. CASE ~StartPacking(p)
    <3>1. Packing(p)
      BY <2>2 DEF Pack, AddFile, CopyChunk, CopyDone, CopyStops, Close, Crash, Packing
    <3>2. QED
      BY <3>1, PackingIsBefore
  <2>3. QED
    BY <2>1, <2>2
<1>4. TempInv'
  BY <1>2 DEF IInv, TempInv, tempvars
<1>5. FilesInv'
  BY <1>2, FilesFrame DEF IInv, clientvars
<1>6. ClientInv' /\ UnpackInv'
  BY <1>2, <1>3, ClientFrame DEF IInv
<1>7. QED
  BY <1>1, <1>4, <1>5, <1>6, PackDisk DEF IInv

LEMMA DiskFailsKeepsIInv == ASSUME IInv, NEW p \in Procs, DiskFails(p) PROVE IInv'
<1>1. /\ UNCHANGED <<tempvars, format, base_dir, removed, changed, damaged, unread,
                      files, packvars, disk, clientvars>>
      /\ failing \subseteq failing'
  BY DEF DiskFails
<1>2. TempInv'
  BY <1>1 DEF IInv, TempInv, tempvars
<1>3. FilesInv'
  BY <1>1, FilesFrame DEF IInv, clientvars
<1>4. PackersInv'
  BY <1>1, PackersFrame DEF IInv, tempvars, Given
<1>5. DiskInv'
  BY <1>1, DiskFrame DEF IInv, tempvars, packvars, Packing
<1>6. ClientInv' /\ UnpackInv'
  BY <1>1, ClientFrame DEF IInv, packvars, Packing
<1>7. QED
  BY <1>2, <1>3, <1>4, <1>5, <1>6 DEF IInv

LEMMA CreateTempKeepsIInv ==
    ASSUME IInv, NEW p \in Procs, CreateTemp(p),
           UNCHANGED <<envvars, faults, files, packvars, disk, clientvars>>
    PROVE  IInv'
<1>1. TempInv'
  BY LookKeeps, CreateKeeps DEF CreateTemp, IInv
<1>2. /\ temp[p] # "ok" /\ DOMAIN path = Procs
      /\ temp \in [Procs -> {"look", "create", "ok", "error"}]
      /\ path \in [Procs -> TempNames] /\ exists \subseteq TempNames
  BY DEF CreateTemp, Look, Create, CreateFails, IInv, TempInv, DiskInv
<1>3. \A q \in Procs : Given(q) => Given(q)' /\ path'[q] = path[q]
  BY <1>2 DEF CreateTemp, Look, Create, CreateFails, Given
<1>4. path' \in [Procs -> TempNames] /\ exists' \subseteq TempNames
  BY <1>2 DEF CreateTemp, Look, Create, CreateFails
<1>5. FilesInv'
  BY FilesFrame DEF IInv, envvars, clientvars
<1>6. PackersInv'
  BY <1>3, PackersFrame DEF IInv, envvars
<1>7. ClientInv' /\ UnpackInv'
  BY ClientFrame DEF IInv, envvars, packvars, Packing
<1>8. DiskInv'
  <2>1. /\ UNCHANGED <<pack, entries, opened, disk, damaged, failing>>
        /\ DiskInv /\ PackersInv
    BY DEF IInv, packvars, envvars
  <2>2. opened' \subseteq {r \in Procs : Given(r)'}
    BY <1>3, <2>1 DEF DiskInv
  <2>3. ASSUME NEW q \in Procs, Alone(q)'
        PROVE  /\ Packing(q)' => ~disk'[path'[q]].mixed
               /\ pack'[q] = "ok" /\ path'[q] \notin damaged' /\ q \notin failing' =>
                    disk'[path'[q]].entries = entries'[q]
    <3>1. ASSUME pack[q] # "idle" PROVE path'[q] = path[q] /\ Alone(q)
      <4>1. Given(q)
        BY <2>1, <3>1 DEF PackersInv, PackInv, PackControl
      <4>2. QED
        BY <1>3, <2>3, <4>1 DEF Alone
    <3>2. QED
      BY <2>1, <3>1 DEF DiskInv, Packing
  <2>4. QED
    BY <1>4, <2>1, <2>2, <2>3 DEF DiskInv, InSize, UniqueNames
<1>9. QED
  BY <1>1, <1>5, <1>6, <1>7, <1>8 DEF IInv

LEMMA ChangeFileKeepsIInv == ASSUME IInv, ChangeFile PROVE IInv'
<1>1. PICK base \in Bases \ removed :
         /\ changed' = changed \cup {base}
         /\ \/ /\ files' = [files EXCEPT ![Src(base)] = Append(@, New)]
               /\ UNCHANGED removed
            \/ /\ files' = [files EXCEPT ![Src(base)] = <<>>]
               /\ UNCHANGED removed
            \/ /\ removed' = removed \cup {base}
               /\ UNCHANGED files
  BY DEF ChangeFile
<1>2. /\ client = "idle" /\ Intact(files) /\ FilesInv
      /\ \A b \in Bases : Src(b) \in DOMAIN files
      /\ UNCHANGED <<tempvars, format, base_dir, damaged, failing, unread,
                      packvars, disk, clientvars>>
  BY PackingIsBefore DEF ChangeFile, IInv
<1>3. TempInv'
  BY <1>2 DEF IInv, TempInv, tempvars
<1>4. FilesInv'
  <2>1. Src(base) \in DOMAIN files /\ files[Src(base)] \in Seq(Chunks)
    BY <1>2 DEF FilesInv
  <2>2. Append(files[Src(base)], New) \in Seq(Chunks) /\ <<>> \in Seq(Chunks)
    <3>1. New \in Chunks
      BY DEF Chunks
    <3>2. QED
      BY <2>1, <3>1, EmptySeq
  <2>3. /\ DOMAIN files' = DOMAIN files
        /\ \A f \in DOMAIN files : f # Src(base) => files'[f] = files[f]
        /\ files'[Src(base)] \in Seq(Chunks)
    BY <1>1, <2>1, <2>2
  <2>4. \A f \in DOMAIN files' : files'[f] \in Seq(Chunks)
    BY <1>2, <2>3 DEF FilesInv
  <2>5. \A b \in Bases \ changed' : files'[Src(b)] = Sources[b]
    <3> SUFFICES ASSUME NEW b \in Bases \ changed' PROVE files'[Src(b)] = Sources[b]
      OBVIOUS
    <3>1. b \in Bases \ changed /\ b # base
      BY <1>1
    <3>2. Src(b) # Src(base) /\ Src(b) \in DOMAIN files
      BY <1>2, <3>1 DEF Src, FilesInv
    <3>3. QED
      BY <1>2, <2>3, <3>1, <3>2 DEF Intact
  <2>6. removed' \subseteq changed'
    BY <1>1, <1>2 DEF FilesInv
  <2>7. QED
    BY <1>2, <2>3, <2>4, <2>5, <2>6 DEF FilesInv, Intact
<1>5. PackersInv'
  BY <1>1, <1>2, PackersFrame DEF IInv, tempvars, Given
<1>6. DiskInv'
  BY <1>2, DiskFrame DEF IInv, tempvars, packvars, Packing
<1>7. ClientInv' /\ UnpackInv'
  BY <1>1, <1>2, ClientFrame DEF IInv
<1>8. QED
  BY <1>3, <1>4, <1>5, <1>6, <1>7 DEF IInv

LEMMA DamageKeepsIInv == ASSUME IInv, Damage PROVE IInv'
<1>1. PICK p \in Procs : LET list == disk[path[p]].entries IN
         /\ pack[p] = "ok" /\ list # <<>>
         /\ damaged' = damaged \cup {path[p]}
         /\ \E altered \in Damaged(list) : disk' = [disk EXCEPT ![path[p]].entries = altered]
  BY DEF Damage
<1>2. PICK list, name : list = disk[path[p]].entries /\ name = path[p]
  OBVIOUS
<1>3. PICK altered \in Damaged(list) : disk' = [disk EXCEPT ![name].entries = altered]
  BY <1>1, <1>2
<1>4. /\ client = "idle" /\ damaged' = damaged \cup {name}
      /\ UNCHANGED <<tempvars, format, base_dir, removed, changed, failing, unread,
                      files, packvars, clientvars>>
  BY <1>1, <1>2 DEF Damage
<1>5. /\ DiskInv /\ name \in TempNames /\ InSize(list) /\ UniqueNames(list)
      /\ disk[name] = [entries |-> list, mixed |-> disk[name].mixed]
      /\ disk[name].mixed \in BOOLEAN
  BY <1>2 DEF IInv, DiskInv, Archive
<1>6. InSize(altered) /\ UniqueNames(altered)
  BY <1>3, <1>5, DamagedOK
<1>7. /\ disk' \in [TempNames -> Archive]
      /\ disk'[name].entries = altered
      /\ \A n \in TempNames : disk'[n].mixed = disk[n].mixed
      /\ \A n \in TempNames \ {name} : disk'[n] = disk[n]
  <2>1. PICK a : a = [entries |-> altered, mixed |-> disk[name].mixed]
    OBVIOUS
  <2>2. disk \in [TempNames -> Archive]
    BY <1>5 DEF DiskInv
  <2>3. disk' = [disk EXCEPT ![name] = a]
    <3>1. [disk[name] EXCEPT !.entries = altered] = a
      BY <1>5, <2>1
    <3>2. QED
      BY <1>3, <3>1
  <2>4. a \in Archive /\ a.entries = altered /\ a.mixed = disk[name].mixed
    BY <1>5, <1>6, <2>1 DEF Archive, InSize
  <2>5. QED
    BY <1>5, <2>2, <2>3, <2>4
<1>8. DiskInv'
  <2>1. \A n \in TempNames : InSize(disk'[n].entries) /\ UniqueNames(disk'[n].entries)
    BY <1>5, <1>6, <1>7 DEF DiskInv
  <2>2. UNCHANGED <<path, exists, temp, opened, pack, entries>>
    BY <1>4 DEF tempvars, packvars
  <2>3. ASSUME NEW q \in Procs, Alone(q)'
        PROVE  /\ Packing(q)' => ~disk'[path[q]].mixed
               /\ pack[q] = "ok" /\ path[q] \notin damaged' /\ q \notin failing =>
                    disk'[path[q]].entries = entries[q]
    <3>1. Alone(q) /\ Packing(q)' = Packing(q) /\ path[q] \in TempNames
      BY <1>5, <2>2, <2>3 DEF Alone, Given, Packing, DiskInv
    <3>2. QED
      BY <1>4, <1>5, <1>7, <3>1 DEF DiskInv
  <2>4. opened' \subseteq {r \in Procs : Given(r)'}
    BY <1>5, <2>2 DEF DiskInv, Given
  <2>5. QED
    BY <1>4, <1>5, <1>7, <2>1, <2>2, <2>3, <2>4 DEF DiskInv, InSize, UniqueNames
<1>9. TempInv'
  BY <1>4 DEF IInv, TempInv, tempvars
<1>10. FilesInv'
  BY <1>4, FilesFrame DEF IInv, clientvars
<1>11. PackersInv'
  BY <1>4, PackersFrame DEF IInv, tempvars, Given
<1>12. ClientInv' /\ UnpackInv'
  BY <1>4, ClientFrame DEF IInv, packvars, Packing
<1>13. QED
  BY <1>8, <1>9, <1>10, <1>11, <1>12 DEF IInv

-----------------------------------------------------------------------------
(* The steps of the client.                                                *)

(* What they leave alone: they write files, and nothing else is shared.    *)
LEMMA ClientStepFrame ==
    ASSUME IInv, UNCHANGED <<tempvars, envvars, packvars, disk>>, client' # "idle",
           DOMAIN files' \subseteq Paths,
           \A f \in DOMAIN files' : files'[f] \in Seq(Chunks)
    PROVE  TempInv' /\ FilesInv' /\ PackersInv' /\ DiskInv'
<1>1. TempInv'
  BY DEF IInv, TempInv, tempvars
<1>2. FilesInv'
  BY DEF IInv, FilesInv, envvars
<1>3. PackersInv'
  BY PackersFrame DEF IInv, envvars, tempvars, Given
<1>4. DiskInv'
  BY DiskFrame DEF IInv, envvars, tempvars, packvars, Packing
<1>5. QED
  BY <1>1, <1>2, <1>3, <1>4

(* Before it begins, nobody packs any more.                                *)
LEMMA OverIsOver == ASSUME IInv, Over PROVE \A p \in Procs : ~Packing(p)
BY DEF IInv, PackersInv, PackInv, PackControl, Over, Packing, Given

LEMMA UnpackArchiveToDirKeepsIInv ==
    ASSUME IInv, NEW p \in Procs, UnpackArchiveToDir(p)
    PROVE  IInv'
<1>1. PICK list : list = disk[path[p]].entries
  OBVIOUS
<1>2. /\ client = "idle" /\ client' = "next" /\ archive' = disk[path[p]]
      /\ names' \in Namelists(list) /\ before' = files
      /\ listed' = {names'[i] : i \in DOMAIN names'}
      /\ UNCHANGED <<tempvars, envvars, files, packvars, disk, block>>
  BY <1>1 DEF UnpackArchiveToDir
<1>3. \A q \in Procs : ~Packing(q)
  BY OverIsOver DEF UnpackArchiveToDir
<1>4. /\ disk[path[p]] \in Archive /\ InSize(list) /\ UniqueNames(list)
  BY <1>1 DEF IInv, DiskInv
<1>5. /\ list \in Seq(Entry) /\ DOMAIN list = 1 .. Len(list) /\ Len(list) \in Nat
      /\ \A i \in DOMAIN list : list[i].name \in EntryNames
  <2>1. list \in Seq(Entry) /\ DOMAIN list = 1 .. Len(list) /\ Len(list) \in Nat
    BY <1>4, LenProperties DEF InSize
  <2>2. \A i \in DOMAIN list : list[i] \in Entry
    BY <2>1
  <2>3. QED
    BY <2>1, <2>2 DEF Entry, EntryNames
<1>6. TempInv' /\ FilesInv' /\ PackersInv' /\ DiskInv'
  BY <1>2, ClientStepFrame DEF IInv, FilesInv
<1>7. \/ names' = [i \in DOMAIN list |-> list[i].name]
      \/ names' = <<>> /\ list # <<>> /\ Torn(list[Len(list)])
  BY <1>2 DEF Namelists
<1>8. /\ names' \in Seq(EntryNames)
      /\ \A i, j \in DOMAIN names' : names'[i] = names'[j] => i = j
      /\ \A i \in DOMAIN names' : \E j \in DOMAIN list : list[j].name = names'[i]
      /\ \/ \A j \in DOMAIN list : list[j].name \in listed'
         \/ list # <<>> /\ Torn(list[Len(list)])
  <2>1. CASE names' = [i \in DOMAIN list |-> list[i].name]
    <3>1. names' \in [1 .. Len(list) -> EntryNames]
      BY <1>5, <2>1
    <3>2. names' \in Seq(EntryNames) /\ DOMAIN names' = DOMAIN list
      BY <1>5, <2>1, <3>1
    <3>3. QED
      BY <1>2, <1>4, <2>1, <3>2 DEF UniqueNames
  <2>2. CASE names' = <<>> /\ list # <<>> /\ Torn(list[Len(list)])
    <3>1. names' \in Seq(EntryNames) /\ DOMAIN names' = {}
      BY <2>2
    <3>2. QED
      BY <2>2, <3>1
  <2>3. QED
    BY <1>7, <2>1, <2>2
<1>9. ClientInv'
  <2>1. \A q \in Procs : ~Packing(q)'
    BY <1>2, <1>3 DEF packvars, Packing
  <2>2. Intact(before)'
    BY <1>2 DEF IInv, FilesInv, Intact, envvars
  <2>3. block' \in Int
    BY <1>2 DEF IInv, ClientInv
  <2>4. \A i \in DOMAIN names' : EntryNamed(names[i])'
    BY <1>1, <1>2, <1>8 DEF EntryNamed
  <2>5. \A n \in listed' : EntryNamed(n)' /\ n \in EntryNames
    <3> SUFFICES ASSUME NEW n \in listed' PROVE EntryNamed(n)' /\ n \in EntryNames
      OBVIOUS
    <3>1. PICK i \in DOMAIN names' : n = names'[i]
      BY <1>2
    <3>2. names'[i] \in EntryNames
      BY <1>8
    <3>3. QED
      BY <1>1, <1>2, <1>8, <3>1, <3>2 DEF EntryNamed
  <2>6. \A i \in DOMAIN names' : names'[i] \in listed'
    BY <1>2
  <2>7. archive'.entries = list
    BY <1>1, <1>2
  <2>8. archive' \in Archive /\ InSize(archive'.entries) /\ UniqueNames(archive'.entries)
    BY <1>2, <1>4, <2>7
  <2>9. QED
    BY <1>2, <1>8, <2>1, <2>2, <2>3, <2>4, <2>5, <2>6, <2>7, <2>8
       DEF ClientInv, ClientStates, Unpacking, InSize, UniqueNames, Torn
<1>10. UnpackInv'
  <2>1. Done' = {} /\ AtHand' = {} /\ Refused' = {}
    BY <1>2 DEF Done, AtHand, Refused
  <2>2. QED
    BY <1>2, <2>1 DEF UnpackInv
<1>11. QED
  BY <1>6, <1>9, <1>10 DEF IInv

(* The entry at hand.                                                      *)
LEMMA EntryAtHand ==
    ASSUME IInv, names # <<>>
    PROVE  /\ 1 \in DOMAIN names /\ names[1] \in EntryNames
           /\ \E j \in DOMAIN archive.entries :
                 LET e == archive.entries[j]
                 IN  /\ e.name = names[1] /\ e \in Entry /\ Find(names[1]) = e
                     /\ e.data \in Seq(Chunks) /\ Len(e.data) \in Nat
                     /\ e.size \in Nat /\ Len(e.data) <= e.size
<1>1. 1 \in DOMAIN names /\ names[1] \in EntryNames
  BY EmptySeq, LenProperties DEF IInv, ClientInv
<1>2. PICK j \in DOMAIN archive.entries : archive.entries[j].name = names[1]
  BY <1>1 DEF IInv, ClientInv, EntryNamed
<1>3. InSize(archive.entries) /\ UniqueNames(archive.entries)
  BY DEF IInv, ClientInv
<1>4. Find(names[1]) = archive.entries[j]
  BY <1>2, <1>3, FindIs
<1>5. archive.entries[j] \in Entry /\ Len(archive.entries[j].data) <= archive.entries[j].size
  BY <1>3 DEF InSize
<1>6. /\ archive.entries[j].data \in Seq(Chunks) /\ Len(archive.entries[j].data) \in Nat
      /\ archive.entries[j].size \in Nat
  BY <1>5 DEF Entry
<1>7. QED
  BY <1>1, <1>2, <1>4, <1>5, <1>6

LEMMA UnpackEntryKeepsIInv == ASSUME IInv, UnpackEntry PROVE IInv'
<1>1. /\ client = "next" /\ names # <<>> /\ client' = "data" /\ block' = 0
      /\ files' = Put(files, Output(names[1]), <<>>)
      /\ UNCHANGED <<tempvars, envvars, packvars, disk, archive, names, before, listed>>
  BY DEF UnpackEntry
<1>2. 1 \in DOMAIN names /\ names[1] \in EntryNames
  BY <1>1, EntryAtHand
<1>3. PICK m, out : m = names[1] /\ out = Output(m)
  OBVIOUS
<1>4. out \in Paths /\ \A n \in EntryNames : Output(n) = out => n = m
  BY <1>2, <1>3, OutputFacts
<1>5. /\ DOMAIN files' = DOMAIN files \cup {out} /\ files'[out] = <<>>
      /\ \A f \in DOMAIN files : f # out => files'[f] = files[f]
  BY <1>1, <1>3 DEF Put
<1>6. TempInv' /\ FilesInv' /\ PackersInv' /\ DiskInv'
  <2>1. DOMAIN files \subseteq Paths /\ \A f \in DOMAIN files : files[f] \in Seq(Chunks)
    BY DEF IInv, FilesInv
  <2>2. \A f \in DOMAIN files' : files'[f] \in Seq(Chunks)
    BY <1>5, <2>1, EmptySeq
  <2>3. QED
    BY <1>1, <1>4, <1>5, <2>1, <2>2, ClientStepFrame
<1>7. ClientInv /\ UnpackInv /\ client \in Unpacking /\ \A n \in listed : n \in EntryNames
  BY <1>1 DEF IInv, ClientInv, Unpacking
<1>8. ClientInv'
  <2>1. \A n : EntryNamed(n)' = EntryNamed(n)
    BY <1>1 DEF EntryNamed
  <2>2. Intact(before)' = Intact(before)
    BY <1>1 DEF Intact, envvars
  <2>3. \A q \in Procs : ~Packing(q)'
    BY <1>1, <1>7 DEF ClientInv, Packing, packvars
  <2>4. \A j \in DOMAIN archive.entries : Len(archive.entries[j].data) \in Nat
    <3>1. \A j \in DOMAIN archive.entries : archive.entries[j] \in Entry
      BY <1>7 DEF ClientInv, InSize
    <3>2. QED
      BY <3>1 DEF Entry
  <2>5. block' \in Int /\ \A j \in DOMAIN archive.entries : block' \in 0 .. Len(archive.entries[j].data)
    BY <1>1, <2>4
  <2>6. QED
    BY <1>1, <1>7, <2>1, <2>2, <2>3, <2>5
       DEF ClientInv, ClientStates, Unpacking, InSize, UniqueNames, Torn
<1>9. UnpackInv'
  <2>1. /\ Done' = Done /\ AtHand = {} /\ AtHand' = {m} /\ m \notin Done
        /\ Refused = {} /\ Refused' = {}
    BY <1>1, <1>2, <1>3 DEF Done, AtHand, Refused
  <2>2. \A n \in Done : /\ n # m /\ Output(n) # out /\ Output(n) \in DOMAIN files
                        /\ files'[Output(n)] = files[Output(n)]
    <3>1. \A n \in Done : n \in EntryNames /\ Output(n) \in DOMAIN files
      BY <1>7 DEF Done, UnpackInv
    <3>2. QED
      BY <1>4, <1>5, <2>1, <3>1
  <2>3. ASSUME NEW j \in DOMAIN archive.entries, NEW e, e = archive.entries[j]
        PROVE  /\ e.name \in Done' => files'[Output(e.name)] = e.data
               /\ e.name \in AtHand' => files'[Output(e.name)] = SubSeq(e.data, 1, block')
    <3>1. e.name \in Done' => files'[Output(e.name)] = e.data
      BY <1>7, <2>1, <2>2, <2>3 DEF UnpackInv
    <3>2. SubSeq(e.data, 1, 0) = <<>>
      <4>1. e \in Entry
        BY <1>7, <2>3 DEF ClientInv, InSize
      <4>2. e.data \in Seq(Chunks)
        BY <4>1 DEF Entry
      <4>3. QED
        BY <4>2
    <3>3. QED
      BY <1>1, <1>3, <1>5, <2>1, <3>1, <3>2
  <2>4. \A n \in Done' \cup AtHand' : Output(n) \in DOMAIN files'
    BY <1>3, <1>5, <2>1, <2>2
  <2>5. ASSUME NEW f \in DOMAIN files' \ {Output(n) : n \in Done' \cup AtHand' \cup Refused'}
        PROVE  f \in DOMAIN before' /\ files'[f] = before'[f]
    <3>1. f # out
      BY <1>3, <2>1
    <3>2. f \in DOMAIN files \ {Output(n) : n \in Done \cup AtHand \cup Refused}
      BY <1>5, <2>1, <3>1
    <3>3. f \in DOMAIN before /\ files[f] = before[f]
      BY <1>7, <3>2 DEF UnpackInv
    <3>4. QED
      BY <1>1, <1>5, <3>1, <3>2, <3>3
  <2>6. QED
    BY <1>1, <2>1, <2>3, <2>4, <2>5 DEF UnpackInv
<1>10. QED
  BY <1>6, <1>8, <1>9 DEF IInv

LEMMA UnpackRefusedKeepsIInv == ASSUME IInv, UnpackRefused PROVE IInv'
<1>1. PICK m, out : m = names[1] /\ out = Output(m)
  OBVIOUS
<1>2. /\ client = "next" /\ names # <<>> /\ client' = "refused"
      /\ files' \in {files, Restrict(files, DOMAIN files \ {out}), Put(files, out, <<>>)}
      /\ UNCHANGED <<tempvars, envvars, packvars, disk, archive, names, block, before, listed>>
  BY <1>1 DEF UnpackRefused
<1>3. 1 \in DOMAIN names /\ m \in EntryNames
  BY <1>1, <1>2, EntryAtHand
<1>4. out \in Paths /\ \A n \in EntryNames : Output(n) = out => n = m
  BY <1>1, <1>3, OutputFacts
<1>5. /\ DOMAIN files' \subseteq DOMAIN files \cup {out}
      /\ DOMAIN files \ {out} \subseteq DOMAIN files'
      /\ \A f \in DOMAIN files \ {out} : files'[f] = files[f]
      /\ out \in DOMAIN files' => files'[out] = <<>> \/ files' = files
  <2>1. CASE files' = files
    BY <2>1
  <2>2. CASE files' = Restrict(files, DOMAIN files \ {out})
    BY <2>2 DEF Restrict
  <2>3. CASE files' = Put(files, out, <<>>)
    BY <2>3 DEF Put
  <2>4. QED
    BY <1>2, <2>1, <2>2, <2>3
<1>6. TempInv' /\ FilesInv' /\ PackersInv' /\ DiskInv'
  <2>1. DOMAIN files \subseteq Paths /\ \A f \in DOMAIN files : files[f] \in Seq(Chunks)
    BY DEF IInv, FilesInv
  <2>2. \A f \in DOMAIN files' : files'[f] \in Seq(Chunks)
    BY <1>5, <2>1, EmptySeq
  <2>3. QED
    BY <1>2, <1>4, <1>5, <2>1, <2>2, ClientStepFrame
<1>7. ClientInv /\ UnpackInv /\ client \in Unpacking
  BY <1>2 DEF IInv, Unpacking
<1>8. ClientInv'
  <2>1. \A n : EntryNamed(n)' = EntryNamed(n)
    BY <1>2 DEF EntryNamed
  <2>2. Intact(before)' = Intact(before)
    BY <1>2 DEF Intact, envvars
  <2>3. \A q \in Procs : ~Packing(q)'
    BY <1>2, <1>7 DEF ClientInv, Packing, packvars
  <2>4. QED
    BY <1>2, <1>7, <2>1, <2>2, <2>3
       DEF ClientInv, ClientStates, Unpacking, InSize, UniqueNames, Torn
<1>9. UnpackInv'
  <2>1. /\ Done' = Done /\ AtHand = {} /\ AtHand' = {} /\ m \notin Done
        /\ Refused = {} /\ Refused' = {m}
    BY <1>1, <1>2, <1>3 DEF Done, AtHand, Refused
  <2>2. \A n \in Done : /\ Output(n) # out /\ Output(n) \in DOMAIN files'
                        /\ files'[Output(n)] = files[Output(n)]
    <3>1. \A n \in Done : n \in EntryNames /\ Output(n) \in DOMAIN files
      BY <1>7 DEF Done, UnpackInv, ClientInv
    <3>2. QED
      BY <1>4, <1>5, <2>1, <3>1
  <2>3. ASSUME NEW j \in DOMAIN archive.entries, NEW e, e = archive.entries[j], e.name \in Done
        PROVE  files'[Output(e.name)] = e.data
    BY <1>7, <2>2, <2>3 DEF UnpackInv
  <2>4. ASSUME NEW f \in DOMAIN files, f = out \/ f \notin {Output(n) : n \in Done}
        PROVE  f \in DOMAIN before /\ files[f] = before[f]
    <3>1. f \notin {Output(n) : n \in Done \cup AtHand \cup Refused}
      BY <2>1, <2>2, <2>4
    <3>2. QED
      BY <1>7, <3>1 DEF UnpackInv
  <2>5. ASSUME out \in DOMAIN files', files'[out] # <<>>
        PROVE  out \in DOMAIN before /\ files'[out] = before[out]
    BY <1>5, <2>4, <2>5
  <2>6. ASSUME NEW f \in DOMAIN files' \ {Output(n) : n \in Done' \cup AtHand' \cup Refused'}
        PROVE  f \in DOMAIN before /\ files'[f] = before[f]
    <3>1. f # out /\ f \notin {Output(n) : n \in Done}
      BY <1>1, <2>1, <2>6
    <3>2. QED
      BY <1>5, <2>4, <2>6, <3>1
  <2>7. QED
    BY <1>1, <1>2, <2>1, <2>2, <2>3, <2>5, <2>6 DEF UnpackInv
<1>10. QED
  BY <1>6, <1>8, <1>9 DEF IInv

LEMMA UnpackBlockKeepsIInv == ASSUME IInv, UnpackBlock PROVE IInv'
<1>1. /\ client = "data" /\ names # <<>> /\ UnpackInv /\ ClientInv /\ client \in Unpacking
  BY DEF UnpackBlock, IInv, ClientInv, Unpacking
<1>2. PICK m, out : m = names[1] /\ out = Output(m)
  OBVIOUS
<1>3. PICK e : /\ \E j \in DOMAIN archive.entries : e = archive.entries[j]
               /\ e.name = m /\ e \in Entry /\ Find(m) = e
               /\ e.data \in Seq(Chunks) /\ Len(e.data) \in Nat
  BY <1>1, <1>2, EntryAtHand
<1>4. 1 \in DOMAIN names /\ m \in EntryNames
  BY <1>1, <1>2, EntryAtHand
<1>5. /\ block < Len(e.data) /\ block' = block + 1
      /\ files' = [files EXCEPT ![out] = Append(@, e.data[block + 1])]
      /\ UNCHANGED <<tempvars, envvars, packvars, disk, client, archive, names, before, listed>>
  BY <1>2, <1>3 DEF UnpackBlock
<1>6. block \in 0 .. Len(e.data) /\ block \in Nat /\ block + 1 \in 1 .. Len(e.data)
  BY <1>1, <1>2, <1>3, <1>5 DEF ClientInv
<1>7. out \in Paths /\ \A n \in EntryNames : Output(n) = out => n = m
  BY <1>2, <1>4, OutputFacts
<1>8. AtHand = {m} /\ m \notin Done /\ out \in DOMAIN files
      /\ files[out] = SubSeq(e.data, 1, block)
  <2>1. AtHand = {m} /\ m \notin Done
    BY <1>1, <1>2, <1>4 DEF AtHand, Done
  <2>2. QED
    BY <1>1, <1>2, <1>3, <2>1 DEF UnpackInv
<1>9. /\ Append(files[out], e.data[block + 1]) = SubSeq(e.data, 1, block + 1)
      /\ SubSeq(e.data, 1, block + 1) \in Seq(Chunks)
  BY <1>3, <1>6, <1>8
<1>10. /\ DOMAIN files' = DOMAIN files /\ files'[out] = SubSeq(e.data, 1, block')
       /\ files'[out] \in Seq(Chunks)
       /\ \A f \in DOMAIN files : f # out => files'[f] = files[f]
  BY <1>5, <1>8, <1>9
<1>11. TempInv' /\ FilesInv' /\ PackersInv' /\ DiskInv'
  <2>1. DOMAIN files \subseteq Paths /\ \A f \in DOMAIN files : files[f] \in Seq(Chunks)
    BY DEF IInv, FilesInv
  <2>2. \A f \in DOMAIN files' : files'[f] \in Seq(Chunks)
    BY <1>10, <2>1
  <2>3. client' # "idle"
    BY <1>1, <1>5
  <2>4. QED
    BY <1>5, <1>10, <2>1, <2>2, <2>3, ClientStepFrame
<1>12. ClientInv'
  <2>1. \A n : EntryNamed(n)' = EntryNamed(n)
    BY <1>5 DEF EntryNamed
  <2>2. Intact(before)' = Intact(before)
    BY <1>5 DEF Intact, envvars
  <2>3. \A q \in Procs : ~Packing(q)'
    BY <1>1, <1>5 DEF ClientInv, Packing, packvars
  <2>4. \A k \in DOMAIN archive.entries : archive.entries[k].name = m =>
           archive.entries[k] = e
    BY <1>1, <1>3 DEF ClientInv, UniqueNames
  <2>5. block' \in Int /\ block' \in 0 .. Len(e.data)
    BY <1>3, <1>5, <1>6
  <2>6. QED
    BY <1>1, <1>2, <1>5, <2>1, <2>2, <2>3, <2>4, <2>5
       DEF ClientInv, ClientStates, Unpacking, InSize, UniqueNames, Torn
<1>13. UnpackInv'
  <2>1. Done' = Done /\ AtHand' = {m} /\ Refused = {} /\ Refused' = {}
    BY <1>1, <1>2, <1>5 DEF Done, AtHand, Refused
  <2>2. \A n \in Done : /\ Output(n) # out /\ Output(n) \in DOMAIN files
                        /\ files'[Output(n)] = files[Output(n)]
    <3>1. \A n \in Done : n \in EntryNames /\ Output(n) \in DOMAIN files
      BY <1>1 DEF Done, UnpackInv, ClientInv
    <3>2. QED
      BY <1>7, <1>8, <1>10, <3>1
  <2>3. ASSUME NEW k \in DOMAIN archive.entries, NEW f, f = archive.entries[k]
        PROVE  /\ f.name \in Done' => files'[Output(f.name)] = f.data
               /\ f.name \in AtHand' => files'[Output(f.name)] = SubSeq(f.data, 1, block')
    <3>1. f.name \in Done' => files'[Output(f.name)] = f.data
      BY <1>1, <2>1, <2>2, <2>3 DEF UnpackInv
    <3>2. f.name = m => f = e
      BY <1>1, <1>3, <2>3 DEF ClientInv, UniqueNames
    <3>3. QED
      BY <1>2, <1>10, <2>1, <3>1, <3>2
  <2>4. \A n \in Done' \cup AtHand' : Output(n) \in DOMAIN files'
    BY <1>2, <1>8, <1>10, <2>1, <2>2
  <2>5. ASSUME NEW f \in DOMAIN files' \ {Output(n) : n \in Done' \cup AtHand' \cup Refused'}
        PROVE  f \in DOMAIN before' /\ files'[f] = before'[f]
    <3>1. f # out
      BY <1>2, <2>1
    <3>2. f \in DOMAIN files \ {Output(n) : n \in Done \cup AtHand \cup Refused}
      BY <1>8, <1>10, <2>1
    <3>3. f \in DOMAIN before /\ files[f] = before[f]
      BY <1>1, <3>2 DEF UnpackInv
    <3>4. QED
      BY <1>5, <1>10, <3>1, <3>2, <3>3
  <2>6. QED
    BY <1>5, <2>1, <2>3, <2>4, <2>5 DEF UnpackInv
<1>14. QED
  BY <1>11, <1>12, <1>13 DEF IInv

LEMMA UnpackDoneKeepsIInv == ASSUME IInv, UnpackDone PROVE IInv'
<1>1. /\ client = "data" /\ names # <<>> /\ UnpackInv /\ ClientInv /\ client \in Unpacking
  BY DEF UnpackDone, IInv, ClientInv, Unpacking
<1>2. PICK m : m = names[1]
  OBVIOUS
<1>3. PICK e : /\ \E j \in DOMAIN archive.entries : e = archive.entries[j]
               /\ e.name = m /\ Find(m) = e /\ e.data \in Seq(Chunks)
  BY <1>1, <1>2, EntryAtHand
<1>4. /\ block = Len(e.data) /\ names' = Tail(names) /\ client' = "next"
      /\ UNCHANGED <<tempvars, envvars, files, packvars, disk, archive, block, before, listed>>
  BY <1>2, <1>3 DEF UnpackDone
<1>5. /\ names \in Seq(EntryNames) /\ \A i, j \in DOMAIN names : names[i] = names[j] => i = j
      /\ DOMAIN names = 1 .. Len(names) /\ Len(names) \in Nat
  BY <1>1, LenProperties DEF ClientInv
<1>6. /\ Tail(names) \in Seq(EntryNames)
      /\ DOMAIN Tail(names) = 1 .. Len(names) - 1
      /\ \A i \in 1 .. Len(names) - 1 : Tail(names)[i] = names[i + 1]
  BY <1>1, <1>5
<1>7. /\ \A i \in DOMAIN names' : i + 1 \in DOMAIN names /\ i + 1 # 1 /\ names'[i] = names[i + 1]
      /\ \A i \in DOMAIN names : i = 1 \/ \E k \in DOMAIN names' : names'[k] = names[i]
  <2>1. ASSUME NEW i \in DOMAIN names, i # 1 PROVE \E k \in DOMAIN names' : names'[k] = names[i]
    <3>1. i - 1 \in DOMAIN names' /\ names'[i - 1] = names[i]
      BY <1>4, <1>5, <1>6, <2>1
    <3>2. QED
      BY <3>1
  <2>2. QED
    BY <1>4, <1>5, <1>6, <2>1
<1>8. \A i, j \in DOMAIN names' : names'[i] = names'[j] => i = j
  BY <1>4, <1>5, <1>6
<1>9. Done' = Done \cup {m} /\ AtHand = {m} /\ AtHand' = {} /\ Refused = {} /\ Refused' = {}
  <2>1. 1 \in DOMAIN names
    BY <1>1, EntryAtHand
  <2>2. m \in listed /\ \A i \in DOMAIN names' : names'[i] # m
    BY <1>1, <1>2, <1>5, <1>7, <2>1 DEF ClientInv
  <2>3. \A n \in listed : n \in Done' <=> n \in Done \/ n = m
    BY <1>2, <1>4, <1>7, <2>2 DEF Done
  <2>4. Done' \subseteq listed /\ Done \subseteq listed
    BY <1>4 DEF Done
  <2>5. QED
    BY <1>1, <1>2, <1>4, <2>2, <2>3, <2>4 DEF AtHand, Refused
<1>10. TempInv' /\ FilesInv' /\ PackersInv' /\ DiskInv'
  BY <1>1, <1>4, ClientStepFrame DEF IInv, FilesInv
<1>11. ClientInv'
  <2>1. \A n : EntryNamed(n)' = EntryNamed(n)
    BY <1>4 DEF EntryNamed
  <2>2. Intact(before)' = Intact(before)
    BY <1>4 DEF Intact, envvars
  <2>3. \A q \in Procs : ~Packing(q)'
    BY <1>1, <1>4 DEF ClientInv, Packing, packvars
  <2>4. \A i \in DOMAIN names' : EntryNamed(names[i])' /\ names'[i] \in listed'
    <3>1. \A i \in DOMAIN names' : EntryNamed(names'[i]) /\ names'[i] \in listed
      BY <1>1, <1>7 DEF ClientInv
    <3>2. QED
      BY <1>4, <3>1 DEF EntryNamed
  <2>5. names' \in Seq(EntryNames)
    BY <1>4, <1>6
  <2>6. QED
    BY <1>1, <1>4, <1>8, <2>1, <2>2, <2>3, <2>4, <2>5
       DEF ClientInv, ClientStates, Unpacking, InSize, UniqueNames, Torn
<1>12. UnpackInv'
  <2>1. ASSUME NEW k \in DOMAIN archive.entries, NEW f, f = archive.entries[k], f.name \in Done'
        PROVE  files[Output(f.name)] = f.data
    <3>1. CASE f.name \in Done
      BY <1>1, <2>1, <3>1 DEF UnpackInv
    <3>2. CASE f.name = m
      <4>1. f = e
        BY <1>1, <1>3, <2>1, <3>2 DEF ClientInv, UniqueNames
      <4>2. files[Output(f.name)] = SubSeq(f.data, 1, block)
        BY <1>1, <1>9, <2>1, <3>2 DEF UnpackInv
      <4>3. SubSeq(e.data, 1, Len(e.data)) = e.data
        BY <1>3
      <4>4. QED
        BY <1>4, <4>1, <4>2, <4>3
    <3>3. QED
      BY <1>9, <2>1, <3>1, <3>2
  <2>2. Done' \cup AtHand' = Done \cup AtHand
    BY <1>9
  <2>3. QED
    BY <1>1, <1>4, <1>9, <2>1, <2>2 DEF UnpackInv
<1>13. QED
  BY <1>10, <1>11, <1>12 DEF IInv

(* Steps that change only where the client is, or how far.                 *)
LEMMA ClientMovesOn ==
    ASSUME IInv, UNCHANGED <<tempvars, envvars, packvars, disk, files, archive, names, before, listed>>,
           block' \in Int,
           \/ UnpackFails \/ UnpackReturns
           \/ client = "read" /\ client' \in {"read", "error", "returned"}
    PROVE  IInv'
<1>1. ClientInv /\ UnpackInv
  BY DEF IInv
<1>2. /\ client' \in ClientStates /\ client' # "idle" /\ client # "idle"
      /\ client' \in Unpacking =>
           /\ client \in Unpacking /\ block' = block
           /\ AtHand' = AtHand /\ Done' = Done /\ Refused = {} /\ Refused' = {}
      /\ client' \in {"data", "failed"} => client = "data" /\ block' = block
      /\ client' = "read" => client = "read"
      /\ client' = "unpacked" => names = <<>>
      /\ client' # "refused"
  BY DEF UnpackFails, UnpackReturns, ClientStates, Unpacking, AtHand, Done, Refused
<1>3. TempInv' /\ FilesInv' /\ PackersInv' /\ DiskInv'
  BY <1>2, ClientStepFrame DEF IInv, FilesInv
<1>4. ClientInv'
  <2>1. \A n : EntryNamed(n)' = EntryNamed(n)
    BY DEF EntryNamed
  <2>2. Intact(before)' = Intact(before)
    BY DEF Intact, envvars
  <2>3. \A q \in Procs : ~Packing(q)'
    BY <1>1, <1>2 DEF ClientInv, Packing, packvars
  <2>4. QED
    BY <1>1, <1>2, <2>1, <2>2, <2>3 DEF ClientInv, InSize, UniqueNames, Torn
<1>5. UnpackInv'
  BY <1>1, <1>2 DEF UnpackInv
<1>6. QED
  BY <1>3, <1>4, <1>5 DEF IInv

LEMMA ReadAsStrKeepsIInv == ASSUME IInv, NEW p \in Procs, ReadAsStr(p) PROVE IInv'
<1>1. PICK i \in DOMAIN disk[path[p]].entries : names' = <<disk[path[p]].entries[i].name>>
  BY DEF ReadAsStr
<1>2. /\ client = "idle" /\ client' = "read" /\ archive' = disk[path[p]] /\ block' = 0
      /\ UNCHANGED <<tempvars, envvars, files, packvars, disk, before, listed>>
  BY DEF ReadAsStr
<1>3. \A q \in Procs : ~Packing(q)
  BY OverIsOver DEF ReadAsStr
<1>4. PICK list, name : list = disk[path[p]].entries /\ name = list[i].name
  OBVIOUS
<1>5. disk[path[p]] \in Archive /\ InSize(list) /\ UniqueNames(list)
  BY <1>4 DEF IInv, DiskInv
<1>6. list[i] \in Entry /\ i \in DOMAIN list
  BY <1>4, <1>5 DEF InSize
<1>7. name \in EntryNames
  BY <1>4, <1>6 DEF Entry, EntryNames
<1>8. names' = <<name>>
  BY <1>1, <1>4
<1>9. names' \in Seq(EntryNames) /\ names' # <<>> /\ DOMAIN names' = {1} /\ names'[1] = name
  BY <1>7, <1>8
<1>10. TempInv' /\ FilesInv' /\ PackersInv' /\ DiskInv'
  BY <1>2, ClientStepFrame DEF IInv, FilesInv
<1>11. ClientInv'
  <2>1. EntryNamed(names[1])'
    BY <1>2, <1>4, <1>6, <1>9 DEF EntryNamed
  <2>2. \A q \in Procs : ~Packing(q)'
    BY <1>2, <1>3 DEF Packing, packvars
  <2>3. archive'.entries = list
    BY <1>2, <1>4
  <2>4. archive' \in Archive /\ InSize(archive'.entries) /\ UniqueNames(archive'.entries)
    BY <1>2, <1>5, <2>3
  <2>5. \A k \in DOMAIN names' : k = 1
    BY <1>9
  <2>6. client' \notin Unpacking /\ client' \notin {"data", "failed", "refused", "unpacked"}
    BY <1>2 DEF Unpacking
  <2>7. block' \in Int /\ client' \in ClientStates
    BY <1>2 DEF ClientStates
  <2>8. QED
    BY <1>9, <2>1, <2>2, <2>4, <2>5, <2>6, <2>7 DEF ClientInv, InSize, UniqueNames
<1>12. UnpackInv'
  BY <1>2 DEF UnpackInv, Unpacking
<1>13. QED
  BY <1>10, <1>11, <1>12 DEF IInv

LEMMA ClientKeepsIInv == ASSUME IInv, Unpack \/ Read PROVE IInv'
<1>1. block \in Int
  BY DEF IInv, ClientInv
<1>2. CASE UnpackFails \/ UnpackReturns
  <2>1. UNCHANGED <<tempvars, envvars, packvars, disk, files, archive, names, before, listed, block>>
    BY <1>2 DEF UnpackFails, UnpackReturns
  <2>2. QED
    BY <1>1, <1>2, <2>1, ClientMovesOn
<1>3. CASE ReadFails \/ ReadReturns
  <2>1. /\ UNCHANGED <<tempvars, envvars, packvars, disk, files, archive, names, before, listed, block>>
        /\ client = "read" /\ client' \in {"error", "returned"}
    BY <1>3 DEF ReadFails, ReadReturns
  <2>2. QED
    BY <1>1, <2>1, ClientMovesOn
<1>4. CASE ReadData
  <2>1. /\ UNCHANGED <<tempvars, envvars, packvars, disk, files, archive, names, before, listed>>
        /\ client = "read" /\ client' = "read"
    BY <1>4 DEF ReadData
  <2>2. names # <<>>
    BY <2>1 DEF IInv, ClientInv
  <2>3. Len(Find(names[1]).data) \in Nat
    BY <2>2, EntryAtHand
  <2>4. block' \in Int
    <3>1. CASE UNCHANGED block
      BY <1>1, <3>1
    <3>2. CASE ~UNCHANGED block
      <4>1. PICK n \in 1 .. Len(Find(names[1]).data) - block :
               block' = IF Find(names[1]).bad /\ block + n = Len(Find(names[1]).data)
                        THEN block + ARCHIVE_WARN ELSE block + n
        BY <1>4, <3>2 DEF ReadData
      <4>2. n \in Int /\ ARCHIVE_WARN \in Int
        BY DEF ARCHIVE_WARN
      <4>3. QED
        BY <1>1, <4>1, <4>2
    <3>3. QED
      BY <3>1, <3>2
  <2>5. QED
    BY <2>1, <2>4, ClientMovesOn
<1>5. QED
  BY <1>2, <1>3, <1>4, UnpackEntryKeepsIInv, UnpackRefusedKeepsIInv, UnpackBlockKeepsIInv,
     UnpackDoneKeepsIInv DEF Unpack, Read

-----------------------------------------------------------------------------
(* The inductive invariant, and what follows from it.                      *)

LEMMA InitIInv == Init => IInv
<1> SUFFICES ASSUME Init PROVE IInv
  OBVIOUS
<1>1. TempInv
  BY InitTempInv DEF Init
<1>2. /\ format \in Formats /\ base_dir \in BOOLEAN /\ removed = {} /\ changed = {}
      /\ files = [f \in {Src(base) : base \in Bases} |-> Sources[f.base]]
      /\ client = "idle" /\ opened = {} /\ block = 0
      /\ names = <<>> /\ archive = NoArchive
      /\ pack = [p \in Procs |-> "idle"] /\ todo = [p \in Procs |-> <<>>]
      /\ entries = [p \in Procs |-> <<>>] /\ pos = [p \in Procs |-> 0]
      /\ disk = [name \in TempNames |-> NoArchive]
      /\ path = [p \in Procs |-> CHOOSE name \in TempNames : TRUE]
      /\ exists = OldNames /\ unread = [p \in Procs |-> {}]
  BY DEF Init, InitTemp
<1>3. /\ \A base \in Bases : Src(base) \in DOMAIN files /\ files[Src(base)] = Sources[base]
      /\ DOMAIN files \subseteq Paths
      /\ \A f \in DOMAIN files : \E base \in Bases : f = Src(base)
  <2>1. DOMAIN files = {Src(base) : base \in Bases}
    BY <1>2
  <2>2. \A base \in Bases : Src(base) \in DOMAIN files
    BY <2>1
  <2>3. \A base \in Bases : Src(base).base = base /\ Src(base) \in Paths
    BY DEF Src, Paths
  <2>4. \A f \in DOMAIN files : files[f] = Sources[f.base]
    BY <1>2
  <2>5. QED
    BY <2>1, <2>2, <2>3, <2>4
<1>4. FilesInv
  <2>1. \A f \in DOMAIN files : files[f] \in Seq(Chunks)
    <3> SUFFICES ASSUME NEW f \in DOMAIN files PROVE files[f] \in Seq(Chunks)
      OBVIOUS
    <3>1. PICK base \in Bases : f = Src(base)
      BY <1>3
    <3>2. files[f] = Sources[base]
      BY <1>3, <3>1
    <3>3. QED
      BY <3>2, SourcesTyped
  <2>2. Intact(files)
    BY <1>3 DEF Intact
  <2>3. removed \subseteq changed
    BY <1>2
  <2>4. QED
    BY <1>2, <1>3, <2>1, <2>2, <2>3 DEF FilesInv
<1>5. InSize(<<>>) /\ UniqueNames(<<>>) /\ <<>> \in Seq(Bases) /\ <<>> \in Seq(EntryNames)
  BY EmptySeq DEF InSize, UniqueNames
<1>6. PackersInv
  BY <1>2, <1>5 DEF PackersInv, PackInv, PackTypeOK, PackControl, PackContents, PackStates,
                    Packing
<1>7. NoArchive \in Archive /\ NoArchive.entries = <<>>
  BY <1>5 DEF NoArchive, Archive, InSize
<1>8. DiskInv
  <2>1. path \in [Procs -> TempNames] /\ exists \subseteq TempNames
    BY <1>2, TempfileAssumption
  <2>2. disk \in [TempNames -> Archive]
    BY <1>2, <1>7
  <2>3. \A name \in TempNames : disk[name].entries = <<>>
    BY <1>2, <1>7
  <2>4. \A p \in Procs : pack[p] = "idle"
    BY <1>2
  <2>5. QED
    BY <1>2, <1>5, <2>1, <2>2, <2>3, <2>4 DEF DiskInv, Packing
<1>9. ClientInv
  BY <1>2, <1>5, <1>7 DEF ClientInv, ClientStates, Unpacking
<1>10. UnpackInv
  BY <1>2 DEF UnpackInv, Unpacking
<1>11. QED
  BY <1>1, <1>4, <1>6, <1>8, <1>9, <1>10 DEF IInv

LEMMA NextIInv == IInv /\ [Next]_vars => IInv'
<1> SUFFICES ASSUME IInv, [Next]_vars PROVE IInv'
  OBVIOUS
<1>1. ASSUME NEW p \in Procs, CreateTemp(p),
             UNCHANGED <<envvars, faults, files, packvars, disk, clientvars>>
      PROVE  IInv'
  BY <1>1, CreateTempKeepsIInv
<1>2. ASSUME NEW p \in Procs, Pack(p) \/ Crash(p) \/ DiskFails(p) PROVE IInv'
  BY <1>2, PackKeepsIInv, DiskFailsKeepsIInv
<1>3. ASSUME NEW p \in Procs, UnpackArchiveToDir(p) PROVE IInv'
  BY <1>3, UnpackArchiveToDirKeepsIInv
<1>4. ASSUME NEW p \in Procs, ReadAsStr(p) PROVE IInv'
  BY <1>4, ReadAsStrKeepsIInv
<1>5. CASE ChangeFile \/ Damage
  BY <1>5, ChangeFileKeepsIInv, DamageKeepsIInv
<1>6. CASE Unpack \/ Read
  BY <1>6, ClientKeepsIInv
<1>7. CASE UNCHANGED vars
  <2>1. UNCHANGED <<tempvars, envvars, files, packvars, disk, clientvars>>
    BY <1>7 DEF vars
  <2>2. TempInv'
    BY <2>1 DEF IInv, TempInv, tempvars
  <2>3. FilesInv'
    BY <2>1, FilesFrame DEF IInv, envvars, clientvars
  <2>4. PackersInv'
    BY <2>1, PackersFrame DEF IInv, envvars, tempvars, Given
  <2>5. DiskInv'
    BY <2>1, DiskFrame DEF IInv, envvars, tempvars, packvars, Packing
  <2>6. ClientInv' /\ UnpackInv'
    BY <2>1, ClientFrame DEF IInv, envvars, packvars, Packing
  <2>7. QED
    BY <2>2, <2>3, <2>4, <2>5, <2>6 DEF IInv
<1>8. QED
  BY <1>1, <1>2, <1>3, <1>4, <1>5, <1>6, <1>7 DEF Next

(* Types, and that no entry ever holds more data than its header announces:*)
(* in the archive being written, on disk after any crash or damage.        *)
THEOREM TypeCorrect == Spec => []TypeOK
<1>1. IInv => TypeOK
  <2> SUFFICES ASSUME IInv PROVE TypeOK
    OBVIOUS
  <2>1. /\ path \in [Procs -> TempNames] /\ exists \subseteq TempNames
        /\ \A name \in TempNames : InSize(disk[name].entries)
    BY DEF IInv, DiskInv
  <2>2. \A p \in Procs : todo[p] \in Seq(Bases) /\ InSize(entries[p])
    BY DEF IInv, PackersInv, PackInv, PackTypeOK
  <2>3. names \in Seq([rooted : BOOLEAN, base : Bases]) /\ block \in Int
    BY DEF IInv, ClientInv, EntryNames
  <2>4. /\ DOMAIN files \subseteq [dir : {"src", "dest"}, base : Bases]
        /\ \A f \in DOMAIN files : files[f] \in Seq(Chunks)
    BY DEF IInv, FilesInv, Paths
  <2>5. QED
    BY <2>1, <2>2, <2>3, <2>4 DEF TypeOK
<1>2. QED
  BY InitIInv, NextIInv, <1>1, PTL DEF Spec

(* What UnpackArchiveToDir has written at any time, and leaves behind when *)
(* it fails: whole files, one first part, and nothing else.                *)
THEOREM UnpackedIsPrefix == Spec => []UnpackLeavesPrefix
<1>1. IInv => UnpackLeavesPrefix
  <2> SUFFICES ASSUME IInv, client \in Unpacking
               PROVE  /\ \A name \in Done : files[Output(name)] = Find(name).data
                      /\ \A name \in AtHand :
                            files[Output(name)] = SubSeq(Find(name).data, 1, block)
                      /\ \A name \in Refused :
                            Output(name) \in DOMAIN files /\ files[Output(name)] # <<>> =>
                               /\ Output(name) \in DOMAIN before
                               /\ files[Output(name)] = before[Output(name)]
                      /\ \A f \in DOMAIN files \
                                 {Output(name) : name \in Done \cup AtHand \cup Refused} :
                            f \in DOMAIN before /\ files[f] = before[f]
    BY DEF UnpackLeavesPrefix, Unpacking
  <2>1. UnpackInv /\ ClientInv
    BY DEF IInv
  <2>2. \A name \in Done \cup AtHand : EntryNamed(name)
    <3>1. \A name \in Done : EntryNamed(name)
      BY <2>1 DEF ClientInv, Done
    <3>2. ASSUME client \in {"data", "failed"} PROVE EntryNamed(names[1])
      BY <2>1, <3>2, EntryAtHand DEF ClientInv
    <3>3. QED
      BY <3>1, <3>2 DEF AtHand
  <2>3. ASSUME NEW name \in Done \cup AtHand
        PROVE  /\ name \in Done => files[Output(name)] = Find(name).data
               /\ name \in AtHand => files[Output(name)] = SubSeq(Find(name).data, 1, block)
    <3>1. PICK j \in DOMAIN archive.entries : archive.entries[j].name = name
      BY <2>2 DEF EntryNamed
    <3>2. Find(name) = archive.entries[j]
      BY <2>1, <3>1, FindIs DEF ClientInv
    <3>3. QED
      BY <2>1, <3>1, <3>2 DEF UnpackInv
  <2>4. QED
    BY <2>1, <2>3 DEF UnpackInv
<1>2. QED
  BY InitIInv, NextIInv, <1>1, PTL DEF Spec

(* The round trip: what was packed with success, alone in its temporary    *)
(* file, and unpacked with success is, of each file that nobody changed,   *)
(* the file; however the other processes interleaved, crashed or failed.   *)
THEOREM RoundTripHolds == Spec => []RoundTrip
<1>1. IInv => RoundTrip
  <2> SUFFICES ASSUME IInv, client = "unpacked", NEW p \in Procs,
                      pack[p] = "ok", Alone(p), archive = disk[path[p]], path[p] \notin damaged,
                      NEW base \in Bases \ Spoiled(p)
               PROVE  /\ Output(Entryname(base)) \in DOMAIN files
                      /\ files[Output(Entryname(base))] = before[Src(base)]
    BY DEF RoundTrip
  <2>1. ClientInv /\ UnpackInv /\ FilesInv /\ PackInv(p) /\ DiskInv /\ client \in Unpacking
    BY DEF IInv, PackersInv, Unpacking
  <2>0. p \notin failing /\ base \notin changed
    BY DEF Spoiled
  <2>2. archive.entries = entries[p] /\ InSize(entries[p])
    BY <2>0, <2>1 DEF DiskInv, PackInv, PackTypeOK
  <2>3. PackContents(p) /\ todo[p] = <<>>
    BY <2>1 DEF PackInv, PackControl
  <2>4. \A i \in DOMAIN entries[p] : Whole(p, entries[p][i])
    BY <2>3 DEF PackContents
  <2>5. \E i \in DOMAIN entries[p] : entries[p][i].name = Entryname(base)
    <3>1. DOMAIN todo[p] = {}
      BY <2>3
    <3>2. QED
      BY <2>0, <2>3, <3>1 DEF PackContents
  <2>6. PICK i \in DOMAIN entries[p] : entries[p][i].name = Entryname(base)
    BY <2>5
  <2>7. ~(archive.entries # <<>> /\ Torn(archive.entries[Len(archive.entries)]))
    <3> SUFFICES ASSUME entries[p] # <<>> PROVE ~Torn(entries[p][Len(entries[p])])
      BY <2>2
    <3>1. Len(entries[p]) \in DOMAIN entries[p]
      BY <2>2, EmptySeq, LenProperties DEF InSize
    <3>2. PICK e : e = entries[p][Len(entries[p])]
      OBVIOUS
    <3>3. e \in Entry /\ Len(e.data) = e.size
      BY <2>2, <2>4, <3>1, <3>2 DEF InSize, Whole
    <3>4. e.size \in Nat
      BY <3>3 DEF Entry
    <3>5. ~Torn(e)
      BY <3>3, <3>4 DEF Torn
    <3>6. QED
      BY <3>2, <3>5
  <2>8. Entryname(base) \in listed
    BY <2>1, <2>2, <2>6, <2>7 DEF ClientInv
  <2>9. Entryname(base) \in Done
    <3>1. DOMAIN names = {}
      BY <2>1 DEF ClientInv
    <3>2. QED
      BY <2>8, <3>1 DEF Done
  <2>10. files[Output(Entryname(base))] = entries[p][i].data
    BY <2>1, <2>2, <2>6, <2>9 DEF UnpackInv
  <2>11. entries[p][i].data = Sources[base]
    BY <2>4, <2>6 DEF Whole
  <2>12. before[Src(base)] = Sources[base]
    BY <2>0, <2>1 DEF ClientInv, Intact
  <2>13. QED
    BY <2>1, <2>9, <2>10, <2>11, <2>12 DEF UnpackInv
<1>2. QED
  BY InitIInv, NextIInv, <1>1, PTL DEF Spec

=============================================================================

----------------------------- MODULE ArchiveUtil -----------------------------
(***************************************************************************)
(* protobag/ArchiveUtil.cpp and the streaming part of LibArchiveArchive:   *)
(* packing the files of a directory into a zip or tar, unpacking it to     *)
(* another directory, and reading one entry.                               *)
(*                                                                         *)
(* Each process packs the same directory into a temporary file of its own, *)
(* chunk by chunk, while files may change; it may crash, and reading or    *)
(* writing may fail.  Archives may be damaged later.  Then a client        *)
(* unpacks one of them, or reads an entry.                                 *)
(* A file is a sequence of chunks, a path a directory and a base name.     *)
(***************************************************************************)
EXTENDS Tempfile, Integers, Sequences, FiniteSets, Functions

CONSTANTS Sources,      \* the files of the directory: base name to content
          Formats,      \* formats of the archives
          MaxFaults     \* bound: crashes, failures, changes, damages

(* A directory has finitely many files.                                    *)
ASSUME ArchiveUtilAssumption ==
    /\ IsFiniteSet(DOMAIN Sources)
    /\ \A base \in DOMAIN Sources : Sources[base] \in Seq(STRING)
    /\ Formats \subseteq {"zip", "tar"}
    /\ MaxFaults \in Nat

Bases == DOMAIN Sources
Src(base) == [dir |-> "src", base |-> base]
Dest(base) == [dir |-> "dest", base |-> base]

Zero == "zero"      \* a chunk of zeros
New == "new"        \* a chunk that was not there before
ARCHIVE_WARN == -20

VARIABLES
    format, base_dir,   \* whether the archives are packed relative to "src"
    files,      \* content of the files, by path
    removed,    \* base names of sources that were unlinked
    changed,    \* history: base names of sources that were changed or unlinked
    damaged,    \* history: names of the archives that were damaged
    failing,    \* the processes whose archives may take no more data
    unread,     \* history: the files each process failed to read to the end
    faults,     \* crashes, failures, changes and damages so far
    pack,       \* where CreateArchiveAtPath is, for each process
    todo,       \* the files it has yet to add
    entries,    \* the entries it has written
    pos,        \* chunks it has read of the file it is adding
    opened,     \* the archives that are being written, by process
    disk,       \* the archives on disk, by name
    client,     \* where the client is
    archive,    \* the archive it works on
    names,      \* the entries it has yet to unpack
    block,      \* chunks of the current entry it has done
    before,     \* history: the files when it began
    listed      \* history: the names of GetNamelist

packvars == <<pack, todo, entries, pos, opened>>
envvars == <<format, base_dir, removed, changed, damaged, failing, unread>>
clientvars == <<client, archive, names, block, before, listed>>
vars == <<tempvars, envvars, faults, files, packvars, disk, clientvars>>

(* An archive: its entries, and whether it is in order.                    *)
NoArchive == [entries |-> <<>>, mixed |-> FALSE]

Init ==
    /\ InitTemp
    /\ format \in Formats
    /\ base_dir \in BOOLEAN
    /\ files = [f \in {Src(base) : base \in Bases} |-> Sources[f.base]]
    /\ removed = {} /\ changed = {} /\ damaged = {} /\ faults = 0
    /\ failing = {} /\ unread = [p \in Procs |-> {}]
    /\ pack = [p \in Procs |-> "idle"]
    /\ todo = [p \in Procs |-> <<>>]
    /\ entries = [p \in Procs |-> <<>>]
    /\ pos = [p \in Procs |-> 0]
    /\ opened = {}
    /\ disk = [name \in TempNames |-> NoArchive]
    /\ client = "idle" /\ archive = NoArchive
    /\ names = <<>> /\ block = 0 /\ before = files /\ listed = {}

-----------------------------------------------------------------------------
(* Packing                                                                 *)

Packing(p) == pack[p] \in {"next", "copy"}

(* The name of a file in the archive: fs::relative, or its absolute path.  *)
Entryname(base) == [rooted |-> ~base_dir, base |-> base]

(* GetAllFilesRecursive, in any order.                                     *)
FileLists ==
    LET present == Bases \ removed
    IN  {list \in [1 .. Cardinality(present) -> present] :
            \A base \in present : \E i \in DOMAIN list : list[i] = base}

Mixed(p) == \E r \in opened \ {p} : path[r] = path[p]

(* CreateArchiveAtPathFromDir lists the files and opens the archive, which *)
(* truncates it.                                                           *)
StartPacking(p) ==
    /\ Given(p) /\ pack[p] = "idle" /\ client = "idle"
    /\ \E list \in FileLists : todo' = [todo EXCEPT ![p] = list]
    /\ opened' = opened \cup {p}
    /\ disk' = [disk EXCEPT ![path[p]] = [NoArchive EXCEPT !.mixed = Mixed(p)]]
    /\ pack' = [pack EXCEPT ![p] = "next"]
    /\ UNCHANGED <<tempvars, envvars, faults, files, entries, pos, clientvars>>

(* WriteUsingBufferedReads opens the file and writes a header with its     *)
(* size now.                                                               *)
AddFile(p) ==
    /\ pack[p] = "next" /\ todo[p] # <<>>
    /\ todo[p][1] \notin removed
    /\ entries' = [entries EXCEPT ![p] = Append(@,
         [name |-> Entryname(todo[p][1]), size |-> Len(files[Src(todo[p][1])]),
          data |-> <<>>, bad |-> FALSE])]
    /\ pos' = [pos EXCEPT ![p] = 0]
    /\ pack' = [pack EXCEPT ![p] = "copy"]
    /\ UNCHANGED <<tempvars, envvars, faults, files, todo, opened, disk, clientvars>>

CopyAllChunks(p) ==                                          \* mutant
    LET last == Len(entries[p])
        content == files[Src(todo[p][1])]
    IN  /\ pack[p] = "copy" /\ pos[p] < Len(content)
        /\ pos' = [pos EXCEPT ![p] = @ + 2]
        /\ entries' =
             IF Len(entries[p][last].data) < entries[p][last].size
             THEN [entries EXCEPT ![p][last].data = Append(@, content[pos[p] + 1])]
             ELSE entries
        /\ UNCHANGED <<tempvars, envvars, faults, files, pack, todo, opened, disk, clientvars>>

CopyPastSize(p) ==                                           \* mutant
    LET last == Len(entries[p])
        content == files[Src(todo[p][1])]
    IN  /\ pack[p] = "copy" /\ pos[p] < Len(content)
        /\ pos' = [pos EXCEPT ![p] = @ + 1]
        /\ entries' = [entries EXCEPT ![p][last].data = Append(@, content[pos[p] + 1])]
        /\ UNCHANGED <<tempvars, envvars, faults, files, pack, todo, opened, disk, clientvars>>

(* libarchive takes no more than the size announced.  What it answers is   *)
(* ignored: a chunk that cannot be written is lost.                        *)
CopyChunk(p) ==
    LET last == Len(entries[p])
        content == files[Src(todo[p][1])]
        fits == Len(entries[p][last].data) < entries[p][last].size
    IN  /\ pack[p] = "copy" /\ pos[p] < Len(content)
        /\ pos' = [pos EXCEPT ![p] = @ + 1]
        /\ \/ /\ fits
              /\ entries' = [entries EXCEPT ![p][last].data = Append(@, content[pos[p] + 1])]
           \/ /\ ~fits \/ p \in failing
              /\ UNCHANGED entries
        /\ UNCHANGED <<tempvars, envvars, faults, files, pack, todo, opened, disk, clientvars>>

(* The end of the file.  A tar is padded to the size announced, a zip has  *)
(* the size that came.                                                     *)
Finished(entry) ==
    IF format = "tar"
    THEN [entry EXCEPT !.data = [i \in 1 .. entry.size |->
             IF i <= Len(entry.data) THEN entry.data[i] ELSE Zero]]
    ELSE [entry EXCEPT !.size = Len(entry.data)]

FinishFile(p) ==
    /\ entries' = [entries EXCEPT ![p][Len(entries[p])] = Finished(@)]
    /\ todo' = [todo EXCEPT ![p] = Tail(@)]
    /\ pack' = [pack EXCEPT ![p] = "next"]
    /\ UNCHANGED <<tempvars, format, base_dir, removed, changed, damaged, failing,
                   files, pos, opened, disk, clientvars>>

CopyDone(p) ==
    /\ pack[p] = "copy" /\ pos[p] >= Len(files[Src(todo[p][1])])
    /\ FinishFile(p)
    /\ UNCHANGED <<unread, faults>>

(* An error of fread is taken for the end of the file.                     *)
CopyStops(p) ==
    /\ pack[p] = "copy" /\ pos[p] < Len(files[Src(todo[p][1])])
    /\ faults < MaxFaults
    /\ faults' = faults + 1
    /\ unread' = [unread EXCEPT ![p] = @ \cup {todo[p][1]}]
    /\ FinishFile(p)

(* What a crash or a cut leaves: some entries, the last perhaps torn.      *)
Cuts(list) ==
    {SubSeq(list, 1, n) : n \in 0 .. Len(list)} \cup
    {Append(SubSeq(list, 1, n - 1),
            [list[n] EXCEPT !.data = SubSeq(@, 1, Len(@) - 1)]) :
        n \in {i \in DOMAIN list : list[i].data # <<>>}}

(* An archive that lost data is cut, or the checksum of an entry is wrong. *)
Damaged(list) ==
    Cuts(list) \cup
    {[list EXCEPT ![i].bad = TRUE] : i \in
        {j \in DOMAIN list : format = "zip" /\ list[j].data # <<>>}}

(* From now on the archive of p may take no more data: the disk is full.   *)
DiskFails(p) ==
    /\ Packing(p) /\ p \notin failing /\ faults < MaxFaults
    /\ faults' = faults + 1
    /\ failing' = failing \cup {p}
    /\ UNCHANGED <<tempvars, format, base_dir, removed, changed, damaged, unread,
                   files, packvars, disk, clientvars>>

(* What there is on disk of the entries written.                           *)
OnDisk(p) == IF p \in failing THEN Damaged(entries[p]) ELSE {entries[p]}

Leave(p, list) ==
    disk' = [disk EXCEPT ![path[p]] =
        IF @.mixed THEN @ ELSE [entries |-> list, mixed |-> FALSE]]

(* The archive is completed when the writer goes, after the last file or   *)
(* at the first that cannot be opened, or whose header cannot be written;  *)
(* what archive_write_close answers is ignored.  Two writers of one file   *)
(* spoil it.                                                               *)
Close(p) ==
    /\ pack[p] = "next"
    /\ \/ /\ todo[p] = <<>>
          /\ pack' = [pack EXCEPT ![p] = "ok"]
       \/ /\ todo[p] # <<>>
          /\ todo[p][1] \in removed \/ p \in failing
          /\ pack' = [pack EXCEPT ![p] = "error"]
    /\ opened' = opened \ {p}
    /\ \E list \in OnDisk(p) : Leave(p, list)
    /\ UNCHANGED <<tempvars, envvars, faults, files, todo, entries, pos, clientvars>>

Crash(p) ==
    /\ Packing(p) /\ faults < MaxFaults
    /\ faults' = faults + 1
    /\ pack' = [pack EXCEPT ![p] = "crashed"]
    /\ opened' = opened \ {p}
    /\ \E list \in OnDisk(p) : \E cut \in Cuts(list) : Leave(p, cut)
    /\ UNCHANGED <<tempvars, envvars, files, todo, entries, pos, clientvars>>

Pack(p) ==
    StartPacking(p) \/ AddFile(p) \/ CopyChunk(p) \/ CopyDone(p) \/ CopyStops(p) \/ Close(p)

-----------------------------------------------------------------------------
(* Others change the files that are packed: they append, truncate, unlink. *)
ChangeFile ==
    /\ faults < MaxFaults
    /\ \E p \in Procs : Packing(p)
    /\ \E base \in Bases \ removed :
         /\ changed' = changed \cup {base}
         /\ \/ /\ files' = [files EXCEPT ![Src(base)] = Append(@, New)]
               /\ UNCHANGED removed
            \/ /\ files' = [files EXCEPT ![Src(base)] = <<>>]
               /\ UNCHANGED removed
            \/ /\ removed' = removed \cup {base}
               /\ UNCHANGED files
    /\ faults' = faults + 1
    /\ UNCHANGED <<tempvars, format, base_dir, damaged, failing, unread,
                   packvars, disk, clientvars>>

(* An archive loses data after it was written.                             *)
Damage ==
    /\ faults < MaxFaults /\ client = "idle"
    /\ \E p \in Procs :
         LET list == disk[path[p]].entries
         IN  /\ pack[p] = "ok" /\ list # <<>>
             /\ damaged' = damaged \cup {path[p]}
             /\ \E altered \in Damaged(list) : disk' = [disk EXCEPT ![path[p]].entries = altered]
    /\ faults' = faults + 1
    /\ UNCHANGED <<tempvars, format, base_dir, removed, changed, failing, unread,
                   files, packvars, clientvars>>

-----------------------------------------------------------------------------
(* The client.  A torn entry has less data than its header says: reading   *)
(* it fails.  A bad one gets ARCHIVE_WARN instead of its last chunk.       *)

Torn(entry) == Len(entry.data) < entry.size

(* GetNamelist: it ends at a header that cannot be read; the last entry may*)
(* not be passed over, and then the list is empty.                         *)
Namelists(list) ==
    LET all == [i \in DOMAIN list |-> list[i].name]
    IN  IF list # <<>> /\ Torn(list[Len(list)]) THEN {all, <<>>} ELSE {all}

(* A reader takes the first entry of a name.                               *)
Find(name) ==
    archive.entries[CHOOSE i \in DOMAIN archive.entries :
        /\ archive.entries[i].name = name
        /\ \A j \in 1 .. i - 1 : archive.entries[j].name # name]

(* fs::path(dest_dir) / entrypath: an absolute path stays what it is.      *)
Output(name) == IF name.rooted THEN Src(name.base) ELSE Dest(name.base)

(* The client begins when packing is over.                                 *)
Over == \A p \in Procs :
          pack[p] \in {"ok", "error", "crashed"} \/ temp[p] = "error"

UnpackArchiveToDir(p) ==
    /\ client = "idle" /\ Over
    /\ pack[p] \in {"ok", "error", "crashed"}
    /\ archive' = disk[path[p]]
    /\ names' \in Namelists(disk[path[p]].entries)
    /\ before' = files
    /\ listed' = {names'[i] : i \in DOMAIN names'}
    /\ client' = "next"
    /\ UNCHANGED <<tempvars, envvars, faults, files, packvars, disk, block>>

Put(map, key, value) ==
    [k \in DOMAIN map \cup {key} |-> IF k = key THEN value ELSE map[k]]

UnpackKeepsFile ==                                           \* mutant
    /\ client = "next" /\ names # <<>>
    /\ files' = IF Output(names[1]) \in DOMAIN files THEN files
                ELSE Put(files, Output(names[1]), <<>>)
    /\ block' = 0
    /\ client' = "data"
    /\ UNCHANGED <<tempvars, envvars, faults, packvars, disk, archive, names, before, listed>>

(* StreamingUnpackEntryTo makes the file, in place of one that was there,  *)
(* and copies the data block by block.                                     *)
UnpackEntry ==
    /\ client = "next" /\ names # <<>>
    /\ files' = Put(files, Output(names[1]), <<>>)
    /\ block' = 0
    /\ client' = "data"
    /\ UNCHANGED <<tempvars, envvars, faults, packvars, disk, archive, names, before, listed>>

(* archive_write_header fails: the file that was there may be unlinked by  *)
(* then, and the new one may have been made.                               *)
UnpackRefused ==
    LET output == Output(names[1])
    IN  /\ client = "next" /\ names # <<>>
        /\ files' \in {files, Restrict(files, DOMAIN files \ {output}), Put(files, output, <<>>)}
        /\ client' = "refused"
        /\ UNCHANGED <<tempvars, envvars, faults, packvars, disk, archive, names, block, before, listed>>

UnpackBlock ==
    LET data == Find(names[1]).data
    IN  /\ client = "data" /\ block < Len(data)
        /\ files' = [files EXCEPT ![Output(names[1])] = Append(@, data[block + 1])]
        /\ block' = block + 1
        /\ UNCHANGED <<tempvars, envvars, faults, packvars, disk, client, archive, names, before, listed>>

UnpackDone ==
    LET entry == Find(names[1])
    IN  /\ client = "data" /\ block = Len(entry.data)
        /\ ~Torn(entry) /\ ~entry.bad
        /\ names' = Tail(names)
        /\ client' = "next"
        /\ UNCHANGED <<tempvars, envvars, faults, files, packvars, disk, archive, block, before, listed>>

(* The data cannot be read, to the end or at all, or cannot be written.    *)
UnpackFails ==
    /\ client = "data"
    /\ client' = "failed"
    /\ UNCHANGED <<tempvars, envvars, faults, files, packvars, disk, archive, names, block, before, listed>>

UnpackReturns ==
    /\ client = "next" /\ names = <<>>
    /\ client' = "unpacked"
    /\ UNCHANGED <<tempvars, envvars, faults, files, packvars, disk, archive, names, block, before, listed>>

(* ReadAsStr, for an entry that is there.                                  *)
ReadAsStr(p) ==
    /\ client = "idle" /\ Over
    /\ pack[p] \in {"ok", "error", "crashed"}
    /\ archive' = disk[path[p]]
    /\ \E i \in DOMAIN disk[path[p]].entries :
         names' = <<disk[path[p]].entries[i].name>>
    /\ block' = 0
    /\ client' = "read"
    /\ UNCHANGED <<tempvars, envvars, faults, files, packvars, disk, before, listed>>

ReadDataInPlace ==                                           \* mutant
    LET entry == Find(names[1])
    IN  /\ client = "read" /\ block < entry.size
        /\ block < Len(entry.data) \/ ~Torn(entry)
        /\ UNCHANGED vars

(* ReadEntry asks for what is missing until `pos`, here `block`, reaches   *)
(* the size announced.  ARCHIVE_WARN is no error but added to it, and at   *)
(* the end of the data the answer is 0.                                    *)
ReadData ==
    LET entry == Find(names[1])
        last == Len(entry.data)
    IN  /\ client = "read" /\ block < entry.size
        /\ \/ /\ block >= 0 /\ block < last
              /\ \E n \in 1 .. last - block :
                    block' = IF entry.bad /\ block + n = last
                             THEN block + ARCHIVE_WARN ELSE block + n
           \/ /\ block < 0 \/ (block = last /\ ~Torn(entry))
              /\ UNCHANGED block
        /\ UNCHANGED <<tempvars, envvars, faults, files, packvars, disk, client, archive, names, before, listed>>

ReadFails ==
    LET entry == Find(names[1])
    IN  /\ client = "read" /\ Torn(entry) /\ block = Len(entry.data)
        /\ client' = "error"
        /\ UNCHANGED <<tempvars, envvars, faults, files, packvars, disk, archive, names, block, before, listed>>

ReadReturns ==
    /\ client = "read" /\ block >= Find(names[1]).size
    /\ client' = "returned"
    /\ UNCHANGED <<tempvars, envvars, faults, files, packvars, disk, archive, names, block, before, listed>>

Unpack ==
    \/ UnpackEntry \/ UnpackRefused \/ UnpackBlock
    \/ UnpackDone \/ UnpackFails \/ UnpackReturns
Read == ReadData \/ ReadFails \/ ReadReturns

Next ==
    \/ \E p \in Procs :
         \/ CreateTemp(p) /\ UNCHANGED <<envvars, faults, files, packvars, disk, clientvars>>
         \/ Pack(p)
         \/ Crash(p)
         \/ DiskFails(p)
         \/ UnpackArchiveToDir(p)
         \/ ReadAsStr(p)
    \/ ChangeFile
    \/ Damage
    \/ Unpack
    \/ Read

(* Calls that have begun go on; nobody has to begin one.                   *)
Spec == Init /\ [][Next]_vars /\ WF_vars(Unpack) /\ WF_vars(Read)

-----------------------------------------------------------------------------
(* Properties                                                              *)

(* Types; no entry has more data than its header says.                     *)
Chunks == (UNION {{Sources[base][i] : i \in DOMAIN Sources[base]} : base \in Bases})
            \cup {New, Zero}
Entry == [name : [rooted : BOOLEAN, base : Bases], size : Nat,
          data : Seq(Chunks), bad : BOOLEAN]
InSize(list) ==
    list \in Seq(Entry) /\ \A i \in DOMAIN list : Len(list[i].data) <= list[i].size

TypeOK ==
    /\ path \in [Procs -> TempNames] /\ exists \subseteq TempNames
    /\ DOMAIN files \subseteq [dir : {"src", "dest"}, base : Bases]
    /\ \A f \in DOMAIN files : files[f] \in Seq(Chunks)
    /\ \A p \in Procs : todo[p] \in Seq(Bases) /\ InSize(entries[p])
    /\ \A name \in TempNames : InSize(disk[name].entries)
    /\ names \in Seq([rooted : BOOLEAN, base : Bases])
    /\ block \in Int

(* Whoever packed a directory and was told that it went well has, after    *)
(* unpacking that, each file that did not change in the meantime, whole:   *)
(* unless another process was given the same temporary name, the archive   *)
(* was damaged or the disk was full.  An error of reading, which is not    *)
(* reported either, costs no file but the one that was read.               *)
Alone(p) == \A r \in Procs \ {p} : ~(Given(r) /\ path[r] = path[p])

Spoiled(p) == {base \in Bases : base \in changed \cup unread[p] \/ p \in failing}

RoundTrip ==
    client = "unpacked" =>
        \A p \in Procs :
            pack[p] = "ok" /\ Alone(p) /\ archive = disk[path[p]] /\ path[p] \notin damaged =>
                \A base \in Bases \ Spoiled(p) :
                    /\ Output(Entryname(base)) \in DOMAIN files
                    /\ files[Output(Entryname(base))] = before[Src(base)]

(* An archive that was created with success is made of the files given     *)
(* ("Create a new archive at `destination` from the given files",          *)
(* ArchiveUtil.hpp), if they did not change.  It need not be: errors of    *)
(* fread, archive_write_data and archive_write_close are ignored.          *)
PackedWhole ==
    \A p \in Procs : pack[p] = "ok" /\ Alone(p) /\ path[p] \notin damaged =>
        \A base \in Bases \ changed : \E i \in DOMAIN disk[path[p]].entries :
            LET e == disk[path[p]].entries[i]
            IN  e.name = Entryname(base) /\ e.data = Sources[base]

(* At any time of unpacking, and after it ended or failed, the files of    *)
(* the names done are whole, the one being written has a first part of its *)
(* data, one whose header was refused is as it was, empty or gone, and no  *)
(* other file has been touched; none is outside of dest_dir, unless its    *)
(* name is absolute.                                                       *)
Done == {name \in listed : \A i \in DOMAIN names : names[i] # name}
AtHand == IF client \in {"data", "failed"} THEN {names[1]} ELSE {}
Refused == IF client = "refused" THEN {names[1]} ELSE {}

UnpackLeavesPrefix ==
    client \in {"next", "data", "failed", "refused", "unpacked"} =>
        /\ \A name \in Done : files[Output(name)] = Find(name).data
        /\ \A name \in AtHand :
              files[Output(name)] = SubSeq(Find(name).data, 1, block)
        /\ \A name \in Refused :
              Output(name) \in DOMAIN files /\ files[Output(name)] # <<>> =>
                 Output(name) \in DOMAIN before /\ files[Output(name)] = before[Output(name)]
        /\ \A f \in DOMAIN files \ {Output(name) : name \in Done \cup AtHand \cup Refused} :
              f \in DOMAIN before /\ files[f] = before[f]

(* Unpacking ends, and so does reading an entry, whole or cut short; only  *)
(* ARCHIVE_WARN, which is taken for an amount, keeps the loop of ReadEntry *)
(* from its end.                                                           *)
CallsReturn ==
    /\ client \in {"next", "data"} ~> client \in {"failed", "refused", "unpacked"}
    /\ client = "read" /\ ~Find(names[1]).bad ~> client \in {"error", "returned"}
=============================================================================

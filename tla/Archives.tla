------------------------------ MODULE Archives ------------------------------
(***************************************************************************)
(* protobag/archive: what the MemoryArchive, DirectoryArchive and          *)
(* LibArchiveArchive (zip, tar) back-ends do with the entries written.     *)
(*                                                                         *)
(* The contents are the records in the order they were written.  The first *)
(* two kinds replace an entry in place, so a reader meets the last record  *)
(* of a name; a zip or tar keeps both and a reader meets the first.  Names *)
(* are trimmed of one leading '/' by the former, which put it back when    *)
(* they list them, and are compared as written by the latter.              *)
(***************************************************************************)
EXTENDS Entries, FiniteSets

InPlace(kind) == kind \in {"memory", "directory"}

CanonEntryname(name) == [name EXCEPT !.topic.rooted = FALSE]

Listed(name) == [name EXCEPT !.topic.rooted = TRUE]

NamesIn(kind, contents) ==
    {IF InPlace(kind) THEN Listed(contents[i].name) ELSE contents[i].name :
        i \in DOMAIN contents}

(* The lists GetNamelist may return: a hash map and a directory come in    *)
(* any order; a zip or tar in the order written, with names repeated.      *)
GetNamelist(kind, contents) ==
    IF InPlace(kind)
    THEN LET names == NamesIn(kind, contents)
         IN  {list \in [1 .. Cardinality(names) -> names] :
                 \A n \in names : \E i \in DOMAIN list : list[i] = n}
    ELSE {[i \in DOMAIN contents |-> contents[i].name]}

SameEntry(kind, n, m) ==
    IF InPlace(kind) THEN CanonEntryname(n) = CanonEntryname(m) ELSE n = m

(* The record a reader of `name` gets, or {} for EntryNotFound.            *)
ReadAsStr(kind, contents, name) ==
    {contents[i] : i \in
        {j \in DOMAIN contents :
            /\ SameEntry(kind, contents[j].name, name)
            /\ \A k \in DOMAIN contents :
                 SameEntry(kind, contents[k].name, name) =>
                     IF InPlace(kind) THEN k <= j ELSE j <= k}}

(* What readers take for granted of an archive: its indexes list messages  *)
(* in the order of time, each with a name.                                 *)
Playable(contents) ==
    /\ contents \in Seq(RangeOf(contents))
    /\ \A i \in DOMAIN contents : \A idx \in contents[i].index :
         LET tts == idx.time_ordered_entries
         IN  /\ tts \in Seq(RangeOf(tts))
             /\ \A k \in DOMAIN tts : tts[k].entryname # NoName
             /\ \A k, l \in DOMAIN tts : k <= l => tts[k].stamp <= tts[l].stamp

=============================================================================

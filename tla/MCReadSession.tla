--------------------------- MODULE MCReadSession ---------------------------
EXTENDS ReadSession, BagIndexBuilder, SequencesExt

CONSTANTS Indexing  \* how many sessions wrote a directory: {1}, {2} or both

Topic(n) == [rooted |-> TRUE, base |-> n]
Plain(n) == [topic |-> [rooted |-> FALSE, base |-> n], leaf |-> NoLeaf]

MCTopics == {Topic(2), Topic(3)}

MCEntries ==
    {CreateStamped(Topic(2), 1), CreateStamped(Topic(2), 2), CreateStamped(Topic(3), 1),
     CreateRaw(Plain(4)), CreateRawEmpty(Plain(5))}

NameOf(e) ==
    IF e.entryname # NoName THEN e.entryname
    ELSE LET tt == CHOOSE tt \in e.ctx : TRUE IN StampedName(tt.topic, tt.stamp)

Rec(s, e, idx, whole) ==
    [by |-> s, name |-> NameOf(e), entry |-> e, index |-> idx, whole |-> whole]

(* What a session leaves that wrote the entries es, lost the data of those *)
(* at the positions in cut, and closed at time now.                        *)
SessionLog(s, es, cut, now) ==
    LET seen == FoldLeft(LAMBDA b, e : Observe(b, e, NameOf(e)), NewBuilder(TRUE), es)
    IN  {Append([i \in DOMAIN es |-> Rec(s, es[i], {}, i \notin cut)],
                Rec(s, CreateStamped(IndexTopic, now), {idx}, Len(es) + 1 \notin cut)) :
            idx \in Complete(seen)}

EntrySeqs(n) == UNION {[1 .. k -> MCEntries] : k \in 0 .. n}

One == UNION {SessionLog(1, es, cut, 5) : es \in EntrySeqs(2), cut \in {{}, {1}}}

Two == UNION {{log1 \o log2 : log2 \in SessionLog(2, es, {}, 6)} :
                log1 \in UNION {SessionLog(1, fs, {}, 5) : fs \in EntrySeqs(1)},
                es \in EntrySeqs(1)}

MCContents ==
    [kind : {"directory", "zip"}, archive : IF 1 \in Indexing THEN One ELSE {}]
        \cup [kind : {"directory"}, archive : IF 2 \in Indexing THEN Two ELSE {}]

-----------------------------------------------------------------------------
All(raw) == [criteria |-> "select_all", raw |-> raw]

Names(seq, ignore) ==
    [criteria |-> "entrynames", entrynames |-> seq, ignore_missing |-> ignore,
     raw |-> FALSE]

Window(topics, exclude, start, end) ==
    [criteria |-> "window", topics |-> topics, exclude_topics |-> exclude,
     start |-> start, end |-> end]

Events(evs, all) == [criteria |-> "events", events |-> evs, require_all |-> all]

At(n, s) == [topic |-> Topic(n), stamp |-> s]

MCSelections ==
    {All(TRUE), All(FALSE), [criteria |-> "none"],
     Window({}, {}, {}, {}), Window({Topic(2)}, {}, {1}, {1}),
     Window({}, {Topic(2)}, {2}, {}),
     Events({At(2, 1), At(3, 1)}, FALSE), Events({At(2, 1), At(3, 1)}, TRUE)}
    \cup {Names(<<StampedName(Topic(2), 2), Plain(4), StampedName(Topic(2), 1)>>, b) :
            b \in BOOLEAN}

=============================================================================

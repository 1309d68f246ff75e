----------------------------- MODULE MCProtobag -----------------------------
EXTENDS Protobag

Topic(n) == [rooted |-> TRUE, base |-> n]
Plain(rooted, n) == [topic |-> [rooted |-> rooted, base |-> n], leaf |-> NoLeaf]

MCTopics == {NoTopic, Topic(2)}

Made(e, msg, api) ==
    [entryname |-> e.entryname, ctx |-> e.ctx, type |-> e.type, stamp |-> e.stamp,
     msg |-> msg, api |-> api]

(* A message of either type under one topic and time; one under a name,    *)
(* with a leading '/' or not, of C++ and of Python; and raw entries.       *)
MCEntries ==
    {Made(CreateStamped(Topic(2), 1), "A", "CreateStamped"),
     Made(CreateStamped(Topic(2), 1), "B", "WriteStampedMsg"),
     Made(CreateNamed(Plain(TRUE, 3), "message", 0), "A", "Create"),
     Made(CreateNamed(Plain(FALSE, 3), "message", 0), "B", "Create"),
     Made(CreateNamed(Plain(TRUE, 3), "message", 0), "B", "WriteMsg"),
     Made(CreateRaw(Plain(FALSE, 4)), "none", "WriteRaw"),
     Made(CreateRawEmpty(Plain(FALSE, 4)), "none", "WriteRaw")}

MCSpecs == {[timeseries |-> TRUE, descriptors |-> TRUE]}

MCSelections ==
    {[criteria |-> "select_all", raw |-> FALSE],
     [criteria |-> "window", topics |-> {}, exclude_topics |-> {}, start |-> {}, end |-> {}],
     [criteria |-> "events", require_all |-> TRUE,
      events |-> {[topic |-> Topic(2), stamp |-> 2]}],
     [criteria |-> "entrynames", ignore_missing |-> FALSE, raw |-> FALSE,
      entrynames |-> <<StampedName(Topic(2), 1), Plain(TRUE, 3), StampedName(Topic(2), 1)>>],
     [criteria |-> "entrynames", ignore_missing |-> TRUE, raw |-> TRUE,
      entrynames |-> <<Plain(TRUE, 3), StampedName(Topic(2), 1)>>]}

=============================================================================

--------------------------- MODULE MCWriteSession ---------------------------
EXTENDS WriteSession, TLC

Topic(n) == [rooted |-> TRUE, base |-> n]
Plain(n) == [topic |-> [rooted |-> FALSE, base |-> n], leaf |-> NoLeaf]

MCTopics == {NoTopic, Topic(2)}

(* A message under "/a", one that has no name and is refused, one under a  *)
(* name of its own, and one copied as ReadSession unpacked it, which is    *)
(* the earliest; written in any order.                                     *)
MCEntries ==
    {CreateStamped(Topic(2), 1), CreateStamped(NoTopic, 1),
     CreateNamed(Plain(3), "StampedMessage", 2),
     UnpackFromStamped(Packed(StampedName(Topic(2), 0), 0))}

MCSpecs ==
    {[timeseries |-> TRUE, descriptors |-> TRUE],
     [timeseries |-> FALSE, descriptors |-> TRUE],
     [timeseries |-> FALSE, descriptors |-> FALSE]}

Symmetry == Permutations(Sessions)

=============================================================================

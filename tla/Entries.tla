------------------------------ MODULE Entries ------------------------------
(***************************************************************************)
(* protobag/Entry.hpp and protobag/Utils/TopicTime.hpp: entries, their     *)
(* names in an archive and the topic and time they carry.                  *)
(*                                                                         *)
(* A path is split where the code splits it: a topic is its leading '/'    *)
(* and the rest, numbered; a name is a topic and a leaf.  The leaf of a    *)
(* stamped message is its time ("<topic>/<seconds>.<nanos>.stampedmsg..."),*)
(* any other name has none.  A std::optional is a set of at most one.      *)
(***************************************************************************)
EXTENDS Products

NoLeaf == -1

NoTopic == [rooted |-> FALSE, base |-> 0]      \* the empty string
NoName == [topic |-> NoTopic, leaf |-> NoLeaf]
IndexTopic == [rooted |-> TRUE, base |-> 1]    \* "/_protobag_index/bag_index"

StampedName(topic, stamp) == [topic |-> topic, leaf |-> stamp]

(* The parent path: the topic of a stamped message's name, the root or     *)
(* nothing for any other name.                                             *)
GetTopicFromEntryname(name) ==
    IF name.leaf # NoLeaf THEN name.topic ELSE [name.topic EXCEPT !.base = 0]

EntryIsInTopic(name, topic) == name.topic = topic

-----------------------------------------------------------------------------
(* The ways entries come about.  `stamp` is the timestamp inside the       *)
(* message, which only a StampedMessage has.                               *)

CreateStamped(topic, t) ==
    [entryname |-> NoName, ctx |-> {[topic |-> topic, stamp |-> t]},
     type |-> "StampedMessage", stamp |-> t]

CreateNamed(name, type, t) ==
    [entryname |-> name, ctx |-> {[topic |-> NoTopic, stamp |-> 0]},
     type |-> type, stamp |-> t]

CreateRaw(name) ==
    [entryname |-> name, ctx |-> {}, type |-> "raw", stamp |-> 0]

(* CreateRawFromBytes with no bytes: an Any of no type and no value.       *)
CreateRawEmpty(name) == [CreateRaw(name) EXCEPT !.type = "empty"]

(* What ReadSession returns for a StampedMessage: with                     *)
(* unpack_stamped_messages the inner message and its context, without it   *)
(* the message as it is, with no context.                                  *)
Packed(name, t) ==
    [entryname |-> name, ctx |-> {}, type |-> "StampedMessage", stamp |-> t]

UnpackFromStamped(e) ==
    [entryname |-> e.entryname,
     ctx |-> {[topic |-> GetTopicFromEntryname(e.entryname), stamp |-> e.stamp]},
     type |-> "message", stamp |-> 0]

GetTopicTime(e) ==
    IF e.ctx # {} THEN e.ctx
    ELSE IF e.type = "StampedMessage" THEN UnpackFromStamped(e).ctx
    ELSE {}

HasTopic(e) == \E tt \in GetTopicTime(e) : tt.topic # NoTopic

IsStampedMessage(e) == e.type = "StampedMessage" \/ HasTopic(e)

-----------------------------------------------------------------------------
(* A TopicTime of an index, and the order std::sort puts them in: by       *)
(* timestamp, topic and entryname.  Precedes reads keys from the right;    *)
(* strings with a leading '/' sort first, after the empty one.             *)

TopicTime(tt, name) ==
    [topic |-> tt.topic, stamp |-> tt.stamp, entryname |-> name]

Slash(path) == IF path = NoTopic THEN 0 ELSE IF path.rooted THEN 1 ELSE 2

Key(tt) ==
    LET path == tt.entryname.topic
    IN  <<tt.entryname.leaf, path.base, Slash(path),
          tt.topic.base, Slash(tt.topic), tt.stamp>>

Before(tt1, tt2) == Precedes(Key(tt1), Key(tt2))

=============================================================================

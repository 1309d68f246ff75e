------------------------ MODULE MCDescriptorIndexer ------------------------
(* Two versions of four files: a imports b and c, and b and c one another  *)
(* in a different direction in each version.                               *)
EXTENDS DynamicMsgFactory

MCFiles == {"a", "b", "c", "protobag"}
MCPools == {"old", "new"}
MCTypes == {"A", "B", "StampedMessage"}
MCFileOf == [A |-> "a", B |-> "b", StampedMessage |-> "protobag"]
MCImports ==
    [old |-> [a |-> <<"b", "c">>, b |-> <<"c">>, c |-> <<>>, protobag |-> <<"c">>],
     new |-> [a |-> <<"c", "b">>, b |-> <<>>, c |-> <<"b">>, protobag |-> <<"c">>]]

MCUserEntries ==
    {[entryname |-> name, type |-> type, pool |-> pool, api |-> api] :
        name \in {"x"}, type \in {"A", "B"}, pool \in MCPools, api \in Apis}
    \cup {[entryname |-> name, type |-> "A", pool |-> "old", api |-> api] :
             name \in {"", "y"}, api \in {"Create", "WriteStampedMsg"}}
=============================================================================

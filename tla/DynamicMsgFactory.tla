------------------------- MODULE DynamicMsgFactory -------------------------
(***************************************************************************)
(* DynamicMsgFactory of protobag/Utils/PBUtils.cpp, which decodes messages *)
(* whose generated code a reader lacks, composed with the session that     *)
(* wrote the descriptors: the session closes, the reader registers the     *)
(* types of its index, in the order of an unordered map, and decodes.      *)
(***************************************************************************)
EXTENDS DescriptorIndexer

VARIABLES left,        \* the types of the index still to be registered
          registered   \* the copies of files registered, in order

allvars == <<vars, left, registered>>

InitAll ==
    /\ Init
    /\ left = {}
    /\ registered = <<>>

(* BagIndexBuilder::Complete moves both maps to the index.                 *)
MoveToDescriptorPoolData ==
    /\ pc = "idle"
    /\ pc' = "closed"
    /\ left' = DOMAIN type_url_to_fds
    /\ UNCHANGED <<index, entry, todo, search, written, registered>>

RegisterFileOnly ==                                          \* mutant
    \E type \in left :
        /\ left' = left \ {type}
        /\ registered' = Append(registered, type_url_to_fds[type][1])
        /\ UNCHANGED vars

RegisterTypes ==
    \E type \in left :
        /\ left' = left \ {type}
        /\ registered' = registered \o type_url_to_fds[type]
        /\ UNCHANGED vars

NextAll ==
    \/ Next /\ UNCHANGED <<left, registered>>
    \/ MoveToDescriptorPoolData
    \/ RegisterTypes

SpecAll == InitAll /\ [][NextAll]_allvars /\ WF_vars(Observe)

(* LoadFromArray asks the pool on top of the database.                     *)
db == Database(registered)

-----------------------------------------------------------------------------
Names(copies) == {fd.file : fd \in copies}

(* Whatever types are registered so far, and although a file of a name     *)
(* that is there is refused, no file waits for one that is missing.        *)
NothingMissing == \A fd \in db : Imported(fd) \subseteq Names(db)

(* The index has one version of each file that a type needs.               *)
Unambiguous(type, pool) ==
    \A t \in DOMAIN type_url_to_fds : \A fd \in Elements(type_url_to_fds[t]) :
        fd.file \in Dependencies(pool, FileOf[type]) => fd.pool = pool

(* With the whole index registered, each entry it pins is decoded with the *)
(* files stored for its type, those of a program that used it, unless      *)
(* programs with different versions of a file wrote to the session.        *)
DecodedAsWritten ==
    pc = "closed" /\ left = {} =>
        \A name \in DOMAIN entryname_to_type_url :
            LET type == entryname_to_type_url[name]
                pool == type_url_to_fds[type][1].pool
            IN  /\ Used(type, pool)
                /\ Unambiguous(type, pool) => ResolvesAs(db, type, pool)
=============================================================================

---------------------------- MODULE Descriptors ----------------------------
(***************************************************************************)
(* What protobag sees of Protobuf descriptors: files that import files,    *)
(* as the pools of different programs have them, and the databases that    *)
(* readers fill with copies of them (Utils/PBUtils.cpp, DynamicMsgFactory).*)
(*                                                                         *)
(* A pool stands for the generated code of one program, so for one version *)
(* of each .proto file.  A FileDescriptorProto is a copy of a file: which  *)
(* file, of which pool.                                                    *)
(***************************************************************************)
EXTENDS Integers, Sequences

CONSTANTS Files,    \* names of .proto files
          Pools,    \* descriptor pools
          Types,    \* type URLs of messages
          FileOf,   \* the file that defines a type
          Imports   \* the files that a file of a pool imports, in order

ASSUME DescriptorsAssumption ==
    /\ FileOf \in [Types -> Files]
    /\ Imports \in [Pools -> [Files -> Seq(Files)]]

Elements(s) == {s[i] : i \in DOMAIN s}

FileDescriptorProto(pool, file) == [pool |-> pool, file |-> file]

Imported(fd) == Elements(Imports[fd.pool][fd.file])

Closed(pool, S) == \A file \in S : Elements(Imports[pool][file]) \subseteq S

(* No file imports itself, however far around: a pool refuses to build     *)
(* such a file, and these are files that programs were built from.  So     *)
(* what holds of a file once it holds of its imports holds of all files.   *)
ASSUME ImportsAssumption ==
    \A pool \in Pools : \A S \in SUBSET Files :
        (\A file \in Files : Elements(Imports[pool][file]) \subseteq S => file \in S)
            => S = Files

(* What a type needs: its file, what that imports, and so on.              *)
Dependencies(pool, file) ==
    {dep \in Files : \A S \in SUBSET Files :
                        file \in S /\ Closed(pool, S) => dep \in S}

-----------------------------------------------------------------------------
(* A SimpleDescriptorDatabase to which RegisterType adds `fds` in turn: it *)
(* keeps the first file of a name; the result of Add is not asked.         *)
Database(fds) ==
    {fds[i] : i \in {j \in DOMAIN fds :
                       \A k \in DOMAIN fds : k < j => fds[k].file # fds[j].file}}

(* The files the pool on top of `db` can build: all they import can be     *)
(* built, so nothing is missing and nothing imports itself.                *)
Buildable(db) ==
    {fd \in db : \A S \in SUBSET Files :
        (\A d \in db : Imported(d) \subseteq S => d.file \in S) => fd.file \in S}

(* DynamicMsgFactory::LoadFromArray finds the message type: its schema is  *)
(* what it was built from.                                                 *)
Resolves(db, type) == \E fd \in Buildable(db) : fd.file = FileOf[type]

ResolvesAs(db, type, pool) ==
    /\ Resolves(db, type)
    /\ \A file \in Dependencies(pool, FileOf[type]) :
          FileDescriptorProto(pool, file) \in db
=============================================================================

------------------------------ MODULE Tempfile ------------------------------
(***************************************************************************)
(* protobag/Utils/Tempfile.cpp: files and directories with names nobody    *)
(* uses, for processes that share a temporary directory.  CreateTempfile   *)
(* and CreateTempdir look whether a random name exists and create it in a  *)
(* second step, which does not fail if it exists by then.                  *)
(***************************************************************************)
EXTENDS Naturals

CONSTANTS Procs,        \* processes, each asking for one path
          TempNames,    \* names CreateRandomString may give
          OldNames,     \* those that exist at first
          MaxAttempts   \* max_attempts

ASSUME TempfileAssumption ==
    /\ OldNames \subseteq TempNames
    /\ TempNames # {}
    /\ MaxAttempts \in Nat

VARIABLES exists,    \* the names that exist
          temp,      \* where the call of a process is
          path,      \* the name it tries, or has been given
          attempts,  \* its attempts so far
          seen       \* history: processes that were done at its last look

tempvars == <<exists, temp, path, attempts, seen>>

InitTemp ==
    /\ exists = OldNames
    /\ temp = [p \in Procs |-> "look"]
    /\ path = [p \in Procs |-> CHOOSE name \in TempNames : TRUE]
    /\ attempts = [p \in Procs |-> 0]
    /\ seen = [p \in Procs |-> {}]

TakeAnyName(p) ==                                            \* mutant
    /\ temp[p] = "look" /\ attempts[p] < MaxAttempts
    /\ \E name \in TempNames : path' = [path EXCEPT ![p] = name]
    /\ temp' = [temp EXCEPT ![p] = "create"]
    /\ attempts' = [attempts EXCEPT ![p] = @ + 1]
    /\ seen' = [seen EXCEPT ![p] = {r \in Procs : temp[r] = "ok"}]
    /\ UNCHANGED exists

(* fs::exists of a random name.                                            *)
Look(p) ==
    /\ temp[p] = "look" /\ attempts[p] < MaxAttempts
    /\ \E name \in TempNames :
         /\ path' = [path EXCEPT ![p] = name]
         /\ temp' = [temp EXCEPT ![p] = IF name \in exists THEN "look" ELSE "create"]
    /\ attempts' = [attempts EXCEPT ![p] = @ + 1]
    /\ seen' = [seen EXCEPT ![p] = {r \in Procs : temp[r] = "ok"}]
    /\ UNCHANGED exists

Create(p) ==
    /\ temp[p] = "create"
    /\ temp' = [temp EXCEPT ![p] = "ok"]
    /\ exists' = exists \cup {path[p]}
    /\ UNCHANGED <<path, attempts, seen>>

(* The directory is not writable, or every attempt met a name that exists. *)
CreateFails(p) ==
    /\ \/ temp[p] = "create"
       \/ temp[p] = "look" /\ attempts[p] = MaxAttempts
    /\ temp' = [temp EXCEPT ![p] = "error"]
    /\ UNCHANGED <<exists, path, attempts, seen>>

CreateTemp(p) == Look(p) \/ Create(p) \/ CreateFails(p)

Given(p) == temp[p] = "ok"

(* Both processes had looked before either of them was done.               *)
Raced(p, r) == p \notin seen[r] /\ r \notin seen[p]

(* The path a process is given did not exist when the call began, and is   *)
(* shared with another process only if their calls overlapped.             *)
FreshPath ==
    \A p \in Procs : Given(p) =>
        /\ path[p] \notin OldNames
        /\ \A r \in Procs \ {p} : Given(r) /\ path[p] = path[r] => Raced(p, r)
=============================================================================

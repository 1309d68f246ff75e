------------------------- MODULE ReadSession_proofs -------------------------
(***************************************************************************)
(* Proofs about ReadSession, for all archives, selections and deletions:   *)
(* what an answer of GetNext says of those that follow.                    *)
(***************************************************************************)
EXTENDS ReadSession, OrderLemmas, FiniteSetTheorems, SequenceTheorems, TLAPS

(* Beside the types: a call in progress has an answer to spare, and one    *)
(* that is about to plan has no plan yet.                                  *)
TypeInv ==
    /\ TypeOK
    /\ answers \in Seq(RangeOf(answers))
    /\ pc # "idle" => Len(answers) < MaxAnswers
    /\ pc = "plan" => ~started

LEMMA ReturnAppends ==
    ASSUME answers \in Seq(RangeOf(answers)),
           NEW status, NEW name, NEW e, Return(status, name, e)
    PROVE  /\ answers' \in Seq(RangeOf(answers'))
           /\ Len(answers) \in Nat /\ Len(answers') = Len(answers) + 1
           /\ DOMAIN answers = 1 .. Len(answers)
           /\ DOMAIN answers' = 1 .. Len(answers) + 1
           /\ \A i \in 1 .. Len(answers) : answers'[i] = answers[i]
           /\ answers'[Len(answers) + 1].status = status
           /\ answers'[Len(answers) + 1].name = name
           /\ pc' = "idle"
<1> DEFINE r == Answer(status, name, e)
           S == RangeOf(answers) \cup {r}
<1>1. answers' = Append(answers, r) /\ pc' = "idle"
  BY DEF Return
<1>2. r.status = status /\ r.name = name
  BY DEF Answer
<1>3. answers \in Seq(S) /\ r \in S
  BY SeqMonotonic
<1> HIDE DEF r, S
<1>4. /\ answers' \in Seq(S) /\ Len(answers) \in Nat
      /\ Len(answers') = Len(answers) + 1
      /\ DOMAIN answers = 1 .. Len(answers)
      /\ DOMAIN answers' = 1 .. Len(answers) + 1
      /\ \A i \in 1 .. Len(answers) : answers'[i] = answers[i]
      /\ answers'[Len(answers) + 1] = r
  BY <1>1, <1>3
<1>5. \A i \in DOMAIN answers' : answers'[i] \in RangeOf(answers')
  BY DEF RangeOf
<1>6. answers' \in Seq(RangeOf(answers'))
  BY <1>4, <1>5, SeqDef, SMTT(30)
<1>7. QED
  BY <1>1, <1>2, <1>4, <1>6

(* The calls that answer.                                                  *)
Answers ==
    \/ PlanFails
    \/ EndOfSequence
    \/ ReadEntry
    \/ ReadError
    \/ NotFound

Statuses == {"ok", "error", "not found", "end"}

LEMMA AnswersReturn ==
    ASSUME Answers
    PROVE  \E status, name, e : status \in Statuses /\ Return(status, name, e)
<1>1. /\ "ok" \in Statuses /\ "error" \in Statuses
      /\ "not found" \in Statuses /\ "end" \in Statuses
  BY DEF Statuses
<1>2. CASE PlanFails
  BY <1>1, <1>2, Zenon DEF PlanFails
<1>3. CASE EndOfSequence
  BY <1>1, <1>3, Zenon DEF EndOfSequence
<1>4. CASE ReadEntry
  BY <1>1, <1>4, Zenon DEF ReadEntry
<1>5. CASE ReadError
  BY <1>1, <1>5, Zenon DEF ReadError
<1>6. CASE NotFound
  BY <1>1, <1>6, Zenon DEF NotFound
<1>7. QED
  BY <1>2, <1>3, <1>4, <1>5, <1>6, Zenon DEF Answers

LEMMA AnswersKeepTypes ==
    ASSUME TypeInv, Answers
    PROVE  TypeInv'
<1>1. PICK status, name, e : status \in Statuses /\ Return(status, name, e)
  BY AnswersReturn
<1>3. /\ answers' \in Seq(RangeOf(answers')) /\ pc' = "idle"
      /\ Len(answers) \in Nat /\ Len(answers') = Len(answers) + 1
      /\ DOMAIN answers = 1 .. Len(answers)
      /\ DOMAIN answers' = 1 .. Len(answers) + 1
      /\ \A i \in 1 .. Len(answers) : answers'[i] = answers[i]
      /\ answers'[Len(answers) + 1].status = status
  BY <1>1, ReturnAppends DEF TypeInv
<1>4. UNCHANGED <<kind, archive, selection, started, index>> /\ pc \in {"plan", "next"}
  BY DEF Answers, PlanFails, EndOfSequence, ReadEntry, ReadError, NotFound
<1>5. started' \/ plan' = NoPlan
  <2>1. CASE pc = "plan"
    <3>1. UNCHANGED plan
      BY <2>1 DEF Answers, PlanFails, EndOfSequence, ReadEntry, ReadError, NotFound
    <3>2. QED
      BY <1>4, <3>1 DEF TypeInv, TypeOK
  <2>2. CASE pc = "next"
    BY <2>2, <1>4 DEF TypeInv, TypeOK
  <2>3. QED
    BY <2>1, <2>2, <1>4
<1>6. Len(answers') <= MaxAnswers
  <2>1. Len(answers) < MaxAnswers /\ MaxAnswers \in Nat
    BY <1>4, ReadSessionAssumption DEF TypeInv
  <2>2. QED
    BY <2>1, <1>3
<1>7. \A i \in DOMAIN answers' : answers'[i].status \in {"ok", "error", "not found", "end"}
  <2>1. \A i \in 1 .. Len(answers) : answers[i].status \in {"ok", "error", "not found", "end"}
    BY <1>3 DEF TypeInv, TypeOK
  <2>2. \A i \in DOMAIN answers' : i \in 1 .. Len(answers) \/ i = Len(answers) + 1
    BY <1>3
  <2>3. QED
    BY <2>1, <2>2, <1>1, <1>3 DEF Statuses
<1>8. QED
  BY <1>3, <1>4, <1>5, <1>6, <1>7 DEF TypeInv, TypeOK

LEMMA InitTypeInv == Init => TypeInv
<1> SUFFICES ASSUME Init PROVE TypeInv
  OBVIOUS
<1>1. answers \in Seq(RangeOf(answers)) /\ Len(answers) = 0 /\ DOMAIN answers = {}
  BY EmptySeq DEF Init
<1>2. MaxAnswers \in Nat
  BY ReadSessionAssumption
<1>3. kind \in {c.kind : c \in Contents}
  BY DEF Init
<1>4. started = (index # {}) /\ pc = "idle" /\ plan = NoPlan /\ selection \in Selections
  BY DEF Init
<1>5. Len(answers) <= MaxAnswers
  BY <1>1, <1>2
<1>6. TypeOK
  BY <1>1, <1>3, <1>4, <1>5 DEF TypeOK
<1>7. QED
  BY <1>1, <1>4, <1>6 DEF TypeInv

LEMMA StepKeepsTypes == TypeInv /\ [Next]_vars => TypeInv'
<1> SUFFICES ASSUME TypeInv, [Next]_vars PROVE TypeInv'
  OBVIOUS
<1>1. CASE Call
  BY <1>1 DEF Call, NeedsPlan, TypeInv, TypeOK
<1>2. CASE Answers
  BY <1>2, AnswersKeepTypes
<1>3. CASE Plan
  BY <1>3 DEF Plan, TypeInv, TypeOK
<1>4. CASE Skip
  BY <1>4 DEF Skip, TypeInv, TypeOK
<1>5. CASE Delete
  BY <1>5 DEF Delete, TypeInv, TypeOK
<1>6. CASE UNCHANGED vars
  BY <1>6 DEF vars, TypeInv, TypeOK
<1>7. QED
  BY <1>1, <1>2, <1>3, <1>4, <1>5, <1>6 DEF Next, GetNext, Answers

(* Types; a session has a plan, and the index it came from, exactly once   *)
(* it started (ReadSession::_started, _plan).                              *)
THEOREM SessionsAreWellTyped == Spec => []TypeOK
<1>1. TypeInv => TypeOK
  BY DEF TypeInv
<1>2. QED
  BY InitTypeInv, StepKeepsTypes, <1>1, PTL DEF Spec

-----------------------------------------------------------------------------
(* Once the end was returned nothing is left of the plan, which stays.     *)
EndInv ==
    /\ EndIsFinal
    /\ \A i \in DOMAIN answers :
        answers[i].status = "end" => started /\ plan.entries_to_read = <<>>

LEMMA StepKeepsEnd == TypeInv /\ EndInv /\ [Next]_vars => EndInv'
<1> SUFFICES ASSUME TypeInv, EndInv, [Next]_vars PROVE EndInv'
  OBVIOUS
<1>1. ASSUME NEW status, NEW name, NEW e, Return(status, name, e),
             UNCHANGED started,
             \/ status = "end" /\ started /\ UNCHANGED plan /\ plan.entries_to_read = <<>>
             \/ status # "end" /\ ~(started /\ plan.entries_to_read = <<>>)
      PROVE  EndInv'
  <2>1. /\ Len(answers) \in Nat
        /\ DOMAIN answers = 1 .. Len(answers)
        /\ DOMAIN answers' = 1 .. Len(answers) + 1
        /\ \A i \in 1 .. Len(answers) : answers'[i] = answers[i]
        /\ answers'[Len(answers) + 1].status = status
    BY <1>1, ReturnAppends DEF TypeInv
  <2>2. \A i \in DOMAIN answers' :
          \/ i \in DOMAIN answers /\ answers'[i] = answers[i]
          \/ i = Len(answers) + 1
    BY <2>1
  <2>3. CASE status = "end"
    <3>1. \A i, j \in DOMAIN answers' :
            i < j /\ answers'[i].status = "end" => answers'[j].status = "end"
      BY <2>1, <2>2, <2>3 DEF EndInv, EndIsFinal
    <3>2. started' /\ plan'.entries_to_read = <<>>
      BY <1>1, <2>3
    <3>3. QED
      BY <3>1, <3>2 DEF EndInv, EndIsFinal
  <2>4. CASE status # "end"
    <3>1. \A i \in DOMAIN answers : answers[i].status # "end"
      BY <1>1, <2>4 DEF EndInv
    <3>2. \A i \in DOMAIN answers' : answers'[i].status # "end"
      BY <2>1, <2>2, <2>4, <3>1
    <3>3. QED
      BY <3>2 DEF EndInv, EndIsFinal
  <2>5. QED
    BY <2>3, <2>4
<1>2. CASE PlanFails
  <2>1. Return("error", NoName, {}) /\ UNCHANGED started /\ ~started
    BY <1>2 DEF PlanFails, TypeInv
  <2>2. QED
    BY <2>1, <1>1
<1>3. CASE EndOfSequence
  BY <1>3, <1>1 DEF EndOfSequence, TypeInv, TypeOK
<1>4. CASE ReadEntry
  <2>1. PICK name, e : Return("ok", name, e) /\ UNCHANGED started /\ plan.entries_to_read # <<>>
    BY <1>4 DEF ReadEntry, Pop
  <2>2. QED
    BY <2>1, <1>1
<1>5. CASE ReadError \/ NotFound
  <2>1. PICK status, name :
          /\ status \in {"error", "not found"} /\ Return(status, name, {})
          /\ UNCHANGED started /\ plan.entries_to_read # <<>>
    BY <1>5 DEF ReadError, NotFound, Pop
  <2>2. QED
    BY <2>1, <1>1
<1>6. CASE Plan \/ Skip
  <2>1. UNCHANGED answers /\ ~(started /\ plan.entries_to_read = <<>>)
    BY <1>6 DEF Plan, Skip, Pop, TypeInv
  <2>2. \A i \in DOMAIN answers : answers[i].status # "end"
    BY <2>1 DEF EndInv
  <2>3. QED
    BY <2>1, <2>2 DEF EndInv, EndIsFinal
<1>7. CASE Call \/ Delete \/ UNCHANGED vars
  <2>1. UNCHANGED <<answers, started, plan>>
    BY <1>7 DEF Call, Delete, vars
  <2>2. QED
    BY <2>1 DEF EndInv, EndIsFinal
<1>8. QED
  BY <1>2, <1>3, <1>4, <1>5, <1>6, <1>7 DEF Next, GetNext

(* After EndOfSequence GetNext returns nothing else: the session does not  *)
(* plan again, although nothing is left of its plan.                       *)
THEOREM TheEndIsFinal == Spec => []EndIsFinal
<1>1. Init => EndInv
  BY DEF Init, EndInv, EndIsFinal
<1>2. EndInv => EndIsFinal
  BY DEF EndInv
<1>3. QED
  BY InitTypeInv, StepKeepsTypes, StepKeepsEnd, <1>1, <1>2, PTL DEF Spec

-----------------------------------------------------------------------------
(* A plan made of the names that were asked for, by a caller who wants     *)
(* each of them: what is left of it are the names not yet answered.        *)
Requested == selection.criteria = "entrynames" /\ ~selection.ignore_missing

PlanFor(left, raw) ==
    [entries_to_read |-> left, require_all |-> TRUE, raw_mode |-> raw]

Rank(i) == Cardinality({j \in Answered : j <= i})

InOrder == \A i \in Answered : answers[i].name = selection.entrynames[Rank(i)]

ReqInv ==
    Requested =>
        /\ ~started => Answered = {}
        /\ started =>
             /\ plan = PlanFor(plan.entries_to_read, selection.raw)
             /\ LeftOf(plan.entries_to_read, selection.entrynames, Cardinality(Answered))
             /\ InOrder

LEMMA AnsweredIsFinite ==
    ASSUME TypeInv
    PROVE  IsFiniteSet(Answered) /\ Cardinality(Answered) \in Nat
<1>1. Answered \in SUBSET (1 .. Len(answers)) /\ Len(answers) \in Nat
  BY DEF Answered, TypeInv
<1>2. IsFiniteSet(1 .. Len(answers))
  BY <1>1, FS_Interval
<1>3. IsFiniteSet(Answered)
  BY <1>1, <1>2, FS_Subset
<1>4. QED
  BY <1>3, FS_CardinalityType

(* An answer without a name, an end or a failed plan, changes nothing.     *)
LEMMA NamelessAnswer ==
    ASSUME TypeInv, NEW status, NEW e, Return(status, NoName, e), UNCHANGED selection
    PROVE  /\ Answered' = Answered
           /\ InOrder => InOrder'
<1> DEFINE n == Len(answers)
<1>1. /\ n \in Nat /\ DOMAIN answers = 1 .. n /\ DOMAIN answers' = 1 .. n + 1
      /\ \A i \in 1 .. n : answers'[i] = answers[i]
      /\ answers'[n + 1].name = NoName
  BY ReturnAppends DEF TypeInv
<1> HIDE DEF n
<1>2. \A i \in DOMAIN answers' : i \in DOMAIN answers \/ i = n + 1
  BY <1>1
<1>3. Answered' = Answered
  BY <1>1, <1>2 DEF Answered
<1>4. \A i \in Answered : answers'[i] = answers[i] /\ Rank(i)' = Rank(i)
  BY <1>1, <1>3 DEF Answered, Rank
<1>5. QED
  BY <1>3, <1>4 DEF InOrder

(* An answer to the first name left is the next in order.                  *)
LEMMA NextAnswer ==
    ASSUME TypeInv, ReqInv, Requested, started,
           NEW status, NEW name, NEW e, Return(status, name, e), Pop(name),
           UNCHANGED <<selection, started>>
    PROVE  ReqInv'
<1> DEFINE n == Len(answers)
           c == Cardinality(Answered)
           asked == selection.entrynames
           left == plan.entries_to_read
<1>1. /\ n \in Nat /\ DOMAIN answers = 1 .. n /\ DOMAIN answers' = 1 .. n + 1
      /\ \A i \in 1 .. n : answers'[i] = answers[i]
      /\ answers'[n + 1].name = name
  BY ReturnAppends DEF TypeInv
<1>2. /\ left # <<>> /\ name = Head(left)
      /\ plan' = [plan EXCEPT !.entries_to_read = Tail(@)]
  BY DEF Pop
<1>3. plan = PlanFor(left, selection.raw) /\ LeftOf(left, asked, c) /\ InOrder
  BY DEF ReqInv
<1>4. /\ LeftOf(Tail(left), asked, c + 1)
      /\ name = asked[c + 1] /\ name \in RangeOf(asked)
  BY <1>2, <1>3, RestIsLeft
<1>5. plan' = PlanFor(Tail(left), selection.raw) /\ plan'.entries_to_read = Tail(left)
  <2> DEFINE raw == selection.raw
  <2>1. plan = [entries_to_read |-> left, require_all |-> TRUE, raw_mode |-> raw]
    BY <1>3 DEF PlanFor
  <2>2. plan' = [plan EXCEPT !.entries_to_read = Tail(left)]
    BY <1>2
  <2> HIDE DEF left, raw
  <2>3. plan' = [entries_to_read |-> Tail(left), require_all |-> TRUE, raw_mode |-> raw]
    BY <2>1, <2>2
  <2>4. QED
    BY <2>3 DEF PlanFor, raw
<1>6. name # NoName
  BY <1>4, ReadSessionAssumption DEF Requested, TypeInv, TypeOK
<1>7. IsFiniteSet(Answered) /\ c \in Nat
  BY AnsweredIsFinite
<1> HIDE DEF n
<1>8. Answered \subseteq 1 .. n /\ n + 1 \notin Answered
  BY <1>1 DEF Answered
<1>9. Answered' = Answered \cup {n + 1}
  <2>1. \A i \in DOMAIN answers' : i \in DOMAIN answers \/ i = n + 1
    BY <1>1
  <2>2. n + 1 \in DOMAIN answers'
    BY <1>1
  <2>3. QED
    BY <2>1, <2>2, <1>1, <1>6 DEF Answered
<1>10. Cardinality(Answered)' = c + 1
  BY <1>7, <1>8, <1>9, FS_AddElement
<1>11. InOrder'
  <2>1. ASSUME NEW i \in Answered
        PROVE  answers'[i].name = asked[Cardinality({j \in Answered' : j <= i})]
    <3>1. {j \in Answered' : j <= i} = {j \in Answered : j <= i}
      BY <1>1, <1>8, <1>9
    <3>2. answers'[i] = answers[i]
      BY <1>1, <1>8
    <3>3. QED
      BY <3>1, <3>2, <1>3 DEF InOrder, Rank
  <2>2. answers'[n + 1].name = asked[Cardinality({j \in Answered' : j <= n + 1})]
    <3>1. \A j \in 1 .. n + 1 : j <= n + 1
      BY <1>1
    <3>2. Answered' \subseteq 1 .. n + 1
      BY <1>1, <1>8, <1>9
    <3>3. {j \in Answered' : j <= n + 1} = Answered'
      BY <3>1, <3>2, Zenon
    <3>4. QED
      BY <3>3, <1>1, <1>4, <1>10
  <2>3. QED
    BY <2>1, <2>2, <1>9 DEF InOrder, Rank
<1>12. QED
  BY <1>4, <1>5, <1>10, <1>11 DEF ReqInv, Requested

LEMMA StepKeepsRequested == TypeInv /\ ReqInv /\ [Next]_vars => ReqInv'
<1> SUFFICES ASSUME TypeInv, ReqInv, [Next]_vars PROVE ReqInv'
  OBVIOUS
<1>0. UNCHANGED selection
  <2>1. CASE PlanFails \/ EndOfSequence \/ ReadEntry
    BY <2>1 DEF PlanFails, EndOfSequence, ReadEntry
  <2>2. CASE ReadError \/ NotFound \/ Skip
    BY <2>2 DEF ReadError, NotFound, Skip
  <2>3. CASE Call \/ Plan \/ Delete \/ UNCHANGED vars
    BY <2>3 DEF Call, Plan, Delete, vars
  <2>4. QED
    BY <2>1, <2>2, <2>3 DEF Next, GetNext
<1> SUFFICES ASSUME Requested PROVE ReqInv'
  BY <1>0 DEF ReqInv, Requested
<1>1. CASE PlanFails
  <2>1. Return("error", NoName, {}) /\ UNCHANGED <<selection, started>> /\ ~started
    BY <1>1 DEF PlanFails, TypeInv
  <2>2. Answered' = Answered
    BY <2>1, NamelessAnswer
  <2>3. QED
    BY <2>1, <2>2 DEF ReqInv
<1>2. CASE EndOfSequence
  <2>1. Return("end", NoName, {}) /\ UNCHANGED <<selection, started, plan>>
    BY <1>2 DEF EndOfSequence
  <2>2. Answered' = Answered /\ (InOrder => InOrder')
    BY <2>1, NamelessAnswer
  <2>3. QED
    BY <2>1, <2>2 DEF ReqInv, Requested
<1>3. CASE ReadEntry \/ ReadError \/ NotFound
  <2>1. PICK status, name, e :
          Return(status, name, e) /\ Pop(name) /\ UNCHANGED <<selection, started>>
    BY <1>3, Zenon DEF ReadEntry, ReadError, NotFound
  <2>2. started
    BY <1>3 DEF ReadEntry, ReadError, NotFound, TypeInv, TypeOK
  <2>3. QED
    BY <2>1, <2>2, NextAnswer
<1>4. CASE Plan
  <2> DEFINE asked == selection.entrynames
  <2>1. pc = "plan" /\ ~started /\ started' /\ UNCHANGED <<selection, answers>>
    BY <1>4 DEF Plan, TypeInv
  <2>2. PICK idx \in ReadLatestIndex : plan' \in GetEntriesToRead(idx)
    BY <1>4 DEF Plan
  <2>3. plan' = [entries_to_read |-> asked, require_all |-> ~selection.ignore_missing,
                 raw_mode |-> selection.raw]
    BY <2>2 DEF Requested, GetEntriesToRead
  <2>4. Answered = {} /\ Answered' = {} /\ Cardinality(Answered') = 0
    BY <2>1, FS_EmptySet DEF ReqInv, Answered
  <2>5. LeftOf(asked, asked, 0)
    <3>1. asked \in Seq(RangeOf(asked))
      BY ReadSessionAssumption DEF Requested, TypeInv, TypeOK
    <3> HIDE DEF asked
    <3>2. QED
      BY <3>1 DEF LeftOf
  <2>6. plan' = PlanFor(asked, selection.raw) /\ plan'.entries_to_read = asked
    BY <2>1, <2>3 DEF Requested, PlanFor
  <2>7. InOrder'
    BY <2>4 DEF InOrder
  <2>8. QED
    BY <2>1, <2>4, <2>5, <2>6, <2>7 DEF ReqInv, Requested
<1>5. CASE Skip
  <2>1. started /\ ~plan.require_all
    BY <1>5 DEF Skip, TypeInv, TypeOK
  <2>2. plan.require_all
    BY <2>1 DEF ReqInv, PlanFor
  <2>3. QED
    BY <2>1, <2>2
<1>6. CASE Call \/ Delete \/ UNCHANGED vars
  <2>1. UNCHANGED <<selection, answers, started, plan>>
    BY <1>6 DEF Call, Delete, vars
  <2>2. Answered' = Answered /\ InOrder' = InOrder
    BY <2>1 DEF Answered, InOrder, Rank
  <2>3. QED
    BY <2>1, <2>2 DEF ReqInv, Requested
<1>7. QED
  BY <1>1, <1>2, <1>3, <1>4, <1>5, <1>6 DEF Next, GetNext

(* Who asks for entries by name, and not to ignore missing ones, gets one  *)
(* answer for each name in the order asked, whatever is deleted and        *)
(* however many answers are errors or NotFound.                            *)
THEOREM EachRequestIsAnswered == Spec => []RequestedAnswered
<1>1. Init => ReqInv
  BY DEF Init, ReqInv, Answered
<1>2. TypeInv /\ ReqInv => RequestedAnswered
  BY DEF ReqInv, Requested, RequestedAnswered, LeftOf, InOrder, Rank
<1>3. QED
  BY InitTypeInv, StepKeepsTypes, StepKeepsRequested, <1>1, <1>2, PTL DEF Spec

-----------------------------------------------------------------------------
(* What is read of an archive of which entries are deleted.                *)

LEMMA NotFoundMeansNone ==
    ASSUME NEW k, NEW T, NEW list \in Seq(T), NEW n, ReadAsStr(k, list, n) = {}
    PROVE  \A r \in RangeOf(list) : ~SameEntry(k, r.name, n)
<1> DEFINE J == {j \in DOMAIN list : SameEntry(k, list[j].name, n)}
<1>1. DOMAIN list = 1 .. Len(list) /\ Len(list) \in Nat
  BY LenProperties
<1>2. J = {}
  <2> SUFFICES ASSUME J # {} PROVE FALSE
    OBVIOUS
  <2>1. J \in SUBSET (1 .. Len(list)) /\ J \in SUBSET Nat
    BY <1>1
  <2>2. PICK first \in J : \A j \in J : first <= j
    <3> HIDE DEF J
    <3> QED
      BY <2>1, LeastElement
  <2>3. PICK last \in J : \A j \in J : j <= last
    <3> HIDE DEF J
    <3> QED
      BY <1>1, <2>1, GreatestElement
  <2>4. list[first] \in ReadAsStr(k, list, n) \/ list[last] \in ReadAsStr(k, list, n)
    BY <2>2, <2>3 DEF ReadAsStr
  <2>5. QED
    BY <2>4
<1>3. QED
  BY <1>2 DEF RangeOf

LEMMA NotFoundStays ==
    ASSUME NEW k, NEW T, NEW list \in Seq(T), NEW n, ReadAsStr(k, list, n) = {},
           NEW rest, RangeOf(rest) \subseteq RangeOf(list)
    PROVE  ReadAsStr(k, rest, n) = {}
<1>1. \A r \in RangeOf(rest) : ~SameEntry(k, r.name, n)
  BY NotFoundMeansNone
<1>2. \A j \in DOMAIN rest : rest[j] \in RangeOf(rest)
  BY DEF RangeOf
<1>3. QED
  BY <1>1, <1>2 DEF ReadAsStr

(* Every index that can be read is in order.                               *)
TTsOK(tts) ==
    /\ tts \in Seq(RangeOf(tts))
    /\ \A k \in DOMAIN tts : tts[k].entryname # NoName
    /\ \A k, l \in DOMAIN tts : k <= l => tts[k].stamp <= tts[l].stamp

ArchiveInv ==
    /\ archive \in Seq(RangeOf(archive))
    /\ \A r \in RangeOf(archive) : \A idx \in r.index : TTsOK(idx.time_ordered_entries)

LEMMA ReadLatestIndexOK ==
    ASSUME ArchiveInv, NEW idx \in ReadLatestIndex
    PROVE  TTsOK(idx.time_ordered_entries)
<1>1. PICK r \in IndexEntries : idx \in r.index
  BY DEF ReadLatestIndex
<1>2. PICK n : r \in ReadAsStr(kind, archive, n)
  BY DEF IndexEntries
<1>3. r \in RangeOf(archive)
  BY <1>2 DEF ReadAsStr, RangeOf
<1>4. QED
  BY <1>1, <1>3 DEF ArchiveInv

LEMMA DeletesOnly ==
    ASSUME ArchiveInv, Delete
    PROVE  /\ archive' \in Seq(RangeOf(archive')) /\ RangeOf(archive') \subseteq RangeOf(archive)
           /\ UNCHANGED <<kind, selection, pc, started, plan, answers, index>>
<1>1. PICK name :
        archive' = Sublist(archive, {r \in RangeOf(archive) : ~SameEntry(kind, r.name, name)})
  BY DEF Delete
<1>2. PICK kept : kept = {r \in RangeOf(archive) : ~SameEntry(kind, r.name, name)}
  OBVIOUS
<1>3. /\ archive' \in Seq(RangeOf(archive)) /\ Len(archive') \in Nat
      /\ DOMAIN archive' = 1 .. Len(archive')
      /\ RangeOf(archive') = {x \in RangeOf(archive) : x \in kept}
  BY <1>1, <1>2, SublistFacts DEF ArchiveInv
<1>4. archive' \in Seq(RangeOf(archive'))
  BY <1>3, RangeTyped
<1>5. QED
  BY <1>3, <1>4 DEF Delete

-----------------------------------------------------------------------------
(* Playback by time: the names answered and the names left, one after the  *)
(* other, are in the order of the stamps they are indexed with; and what a *)
(* window wants is answered, left, or cannot be found.                     *)
ByTime == selection.criteria \in {"window", "events"}

NotAfter(n, m) ==
    \E tt, uu \in Indexed :
        tt.entryname = n /\ uu.entryname = m /\ tt.stamp <= uu.stamp

Wanted == {tt.entryname : tt \in {tt \in Indexed : Selects(selection, tt)}}

PlanOK ==
    /\ plan = [entries_to_read |-> plan.entries_to_read, require_all |-> plan.require_all,
               raw_mode |-> plan.raw_mode]
    /\ plan.entries_to_read \in Seq(RangeOf(plan.entries_to_read))
    /\ NoName \notin RangeOf(plan.entries_to_read)

TimeInv ==
    LET left == plan.entries_to_read
    IN  /\ \A i, j \in Answered : i < j => NotAfter(answers[i].name, answers[j].name)
        /\ \A i \in Answered, k \in DOMAIN left : NotAfter(answers[i].name, left[k])
        /\ \A k, l \in DOMAIN left : k < l => NotAfter(left[k], left[l])

WindowInv ==
    selection.criteria = "window" /\ started =>
        LET known == AnsweredNames \cup RangeOf(plan.entries_to_read)
        IN  /\ known \subseteq Wanted
            /\ \A n \in Wanted \ known : ReadAsStr(kind, archive, n) = {}

PlaybackInv ==
    ByTime => /\ ~started => Answered = {}
              /\ PlanOK /\ TimeInv /\ WindowInv

PInv == TypeInv /\ ArchiveInv /\ PlaybackInv

LEMMA PopFacts ==
    ASSUME PlanOK, NEW name, Pop(name), NEW left, left = plan.entries_to_read
    PROVE  /\ PlanOK' /\ plan'.entries_to_read = Tail(left)
           /\ 1 \in DOMAIN left /\ name = left[1] /\ name # NoName
           /\ \A k \in DOMAIN Tail(left) :
                k \in Nat /\ k + 1 \in DOMAIN left /\ Tail(left)[k] = left[k + 1]
           /\ RangeOf(left) = {name} \cup RangeOf(Tail(left))
<1>1. left # <<>> /\ name = Head(left) /\ left \in Seq(RangeOf(left))
  BY DEF Pop, PlanOK
<1>2. /\ Len(left) \in Nat /\ Len(left) # 0 /\ DOMAIN left = 1 .. Len(left)
      /\ name = left[1] /\ DOMAIN Tail(left) = 1 .. Len(left) - 1
      /\ Tail(left) \in Seq(RangeOf(left)) /\ Len(Tail(left)) = Len(left) - 1
      /\ \A k \in 1 .. Len(left) - 1 : Tail(left)[k] = left[k + 1]
  <2>1. PICK S : S = RangeOf(left) /\ left \in Seq(S)
    BY <1>1
  <2>2. Len(left) \in Nat /\ Len(left) # 0 /\ DOMAIN left = 1 .. Len(left)
    BY <1>1, <2>1, EmptySeq, LenProperties
  <2>3. /\ Tail(left) \in Seq(S) /\ Len(Tail(left)) = Len(left) - 1
        /\ \A k \in 1 .. Len(left) - 1 : Tail(left)[k] = left[k + 1]
    BY <1>1, <2>1, HeadTailProperties
  <2>4. DOMAIN Tail(left) = 1 .. Len(left) - 1
    BY <2>3, LenProperties
  <2>5. name = left[1]
    BY <1>1, <2>1
  <2>6. QED
    BY <2>1, <2>2, <2>3, <2>4, <2>5
<1>3. RangeOf(left) = {name} \cup RangeOf(Tail(left))
  <2>1. ASSUME NEW k \in DOMAIN left, k # 1 PROVE left[k] \in RangeOf(Tail(left))
    <3>1. k - 1 \in DOMAIN Tail(left) /\ Tail(left)[k - 1] = left[k]
      BY <1>2, <2>1
    <3>2. QED
      BY <3>1 DEF RangeOf
  <2>2. RangeOf(left) \subseteq {name} \cup RangeOf(Tail(left))
    <3> SUFFICES ASSUME NEW x \in RangeOf(left) PROVE x \in {name} \cup RangeOf(Tail(left))
      OBVIOUS
    <3>1. PICK k \in DOMAIN left : x = left[k]
      BY DEF RangeOf
    <3>2. QED
      BY <1>2, <2>1, <3>1
  <2>3. \A k \in DOMAIN Tail(left) : k + 1 \in DOMAIN left /\ Tail(left)[k] = left[k + 1]
    BY <1>2
  <2>4. {name} \cup RangeOf(Tail(left)) \subseteq RangeOf(left)
    BY <1>2, <2>3 DEF RangeOf
  <2>5. QED
    BY <2>2, <2>4
<1>4. name # NoName
  BY <1>3 DEF PlanOK
<1>5. plan' = [entries_to_read |-> Tail(left), require_all |-> plan.require_all,
               raw_mode |-> plan.raw_mode]
  <2>1. PICK all, raw : all = plan.require_all /\ raw = plan.raw_mode
    OBVIOUS
  <2>2. plan = [entries_to_read |-> left, require_all |-> all, raw_mode |-> raw]
    BY <2>1 DEF PlanOK
  <2>3. plan' = [plan EXCEPT !.entries_to_read = Tail(left)]
    BY DEF Pop
  <2>4. QED
    BY <2>1, <2>2, <2>3
<1>6. Tail(left) \in Seq(RangeOf(Tail(left)))
  BY <1>2, RangeTyped
<1>7. NoName \notin RangeOf(Tail(left))
  BY <1>3 DEF PlanOK
<1>8. PlanOK'
  BY <1>5, <1>6, <1>7 DEF PlanOK
<1>9. QED
  BY <1>2, <1>3, <1>4, <1>5, <1>8

(* An entry is answered.                                                   *)
LEMMA NamedAnswerKeeps ==
    ASSUME PInv, ByTime, started, NEW status, NEW name, NEW e,
           Return(status, name, e), Pop(name),
           UNCHANGED <<kind, archive, selection, started, index>>
    PROVE  PlaybackInv'
<1>1. PICK left : left = plan.entries_to_read
  OBVIOUS
<1>2. TypeInv /\ PlanOK /\ TimeInv /\ WindowInv
  BY DEF PInv, PlaybackInv
<1>3. /\ PlanOK' /\ plan'.entries_to_read = Tail(left)
      /\ 1 \in DOMAIN left /\ name = left[1] /\ name # NoName
      /\ \A k \in DOMAIN Tail(left) :
           k \in Nat /\ k + 1 \in DOMAIN left /\ Tail(left)[k] = left[k + 1]
      /\ RangeOf(left) = {name} \cup RangeOf(Tail(left))
  BY <1>1, <1>2, PopFacts
<1>4. PICK n : n = Len(answers)
  OBVIOUS
<1>5. /\ n \in Nat /\ DOMAIN answers = 1 .. n /\ DOMAIN answers' = 1 .. n + 1
      /\ \A i \in 1 .. n : answers'[i] = answers[i]
      /\ answers'[n + 1].name = name
  BY <1>2, <1>4, ReturnAppends DEF TypeInv
<1>6. /\ Answered' = Answered \cup {n + 1} /\ Answered \subseteq 1 .. n
      /\ \A i \in Answered : answers'[i] = answers[i]
  <2>1. \A i \in DOMAIN answers' : i \in DOMAIN answers \/ i = n + 1
    BY <1>5
  <2>2. n + 1 \in DOMAIN answers' /\ \A i \in DOMAIN answers : i \in DOMAIN answers'
    BY <1>5
  <2>3. QED
    BY <1>3, <1>5, <2>1, <2>2 DEF Answered
<1>7. \A a, b : NotAfter(a, b)' = NotAfter(a, b)
  BY DEF NotAfter, Indexed
<1>8. /\ \A i, j \in Answered : i < j => NotAfter(answers[i].name, answers[j].name)
      /\ \A i \in Answered, k \in DOMAIN left : NotAfter(answers[i].name, left[k])
      /\ \A k, l \in DOMAIN left : k < l => NotAfter(left[k], left[l])
  BY <1>1, <1>2 DEF TimeInv
<1>9. TimeInv'
  <2>1. ASSUME NEW i \in Answered', NEW j \in Answered', i < j
        PROVE  NotAfter(answers'[i].name, answers'[j].name)
    <3>1. i \in Answered
      BY <1>5, <1>6, <2>1
    <3>2. CASE j \in Answered
      BY <1>6, <1>8, <2>1, <3>1, <3>2
    <3>3. CASE j = n + 1
      BY <1>3, <1>5, <1>6, <1>8, <3>1, <3>3
    <3>4. QED
      BY <1>6, <3>2, <3>3
  <2>2. ASSUME NEW i \in Answered', NEW k \in DOMAIN Tail(left)
        PROVE  NotAfter(answers'[i].name, Tail(left)[k])
    <3>1. CASE i \in Answered
      BY <1>3, <1>6, <1>8, <3>1
    <3>2. CASE i = n + 1
      <4>1. k + 1 \in DOMAIN left /\ 1 < k + 1 /\ Tail(left)[k] = left[k + 1]
        <5>1. k \in Nat /\ k + 1 \in DOMAIN left /\ Tail(left)[k] = left[k + 1]
          BY <1>3
        <5>2. k # 0
          BY <1>1, <1>2, <5>1, LenProperties DEF PlanOK
        <5>3. QED
          BY <5>1, <5>2
      <4>2. QED
        BY <1>3, <1>5, <1>8, <3>2, <4>1
    <3>3. QED
      BY <1>6, <3>1, <3>2
  <2>3. ASSUME NEW k \in DOMAIN Tail(left), NEW l \in DOMAIN Tail(left), k < l
        PROVE  NotAfter(Tail(left)[k], Tail(left)[l])
    <3>1. k + 1 < l + 1
      BY <1>3, <2>3
    <3>2. QED
      BY <1>3, <1>8, <3>1
  <2>4. QED
    BY <1>3, <1>7, <2>1, <2>2, <2>3 DEF TimeInv
<1>10. WindowInv'
  <2>1. AnsweredNames' = AnsweredNames \cup {name}
    BY <1>5, <1>6 DEF AnsweredNames
  <2>2. AnsweredNames' \cup RangeOf(plan'.entries_to_read)
          = AnsweredNames \cup RangeOf(plan.entries_to_read)
    BY <1>1, <1>3, <2>1
  <2>3. Wanted' = Wanted
    BY DEF Wanted, Indexed
  <2>4. QED
    BY <1>2, <2>2, <2>3 DEF WindowInv
<1>11. QED
  BY <1>3, <1>9, <1>10 DEF PlaybackInv, ByTime

(* An entry that cannot be found is passed over.                           *)
LEMMA SkipKeeps ==
    ASSUME PInv, ByTime, Skip
    PROVE  PlaybackInv'
<1>1. PICK left, name :
         /\ left = plan.entries_to_read /\ Pop(name) /\ ReadAsStr(kind, archive, name) = {}
  BY DEF Skip
<1>2. PlanOK /\ TimeInv /\ WindowInv /\ started
  BY DEF PInv, PlaybackInv, TypeInv, TypeOK, Skip
<1>3. /\ PlanOK' /\ plan'.entries_to_read = Tail(left)
      /\ \A k \in DOMAIN Tail(left) :
           k \in Nat /\ k + 1 \in DOMAIN left /\ Tail(left)[k] = left[k + 1]
      /\ RangeOf(left) = {name} \cup RangeOf(Tail(left))
  BY <1>1, <1>2, PopFacts
<1>4. UNCHANGED <<kind, archive, selection, started, answers, index>>
  BY DEF Skip
<1>5. Answered' = Answered /\ AnsweredNames' = AnsweredNames /\ Wanted' = Wanted
  BY <1>4 DEF Answered, AnsweredNames, Wanted, Indexed
<1>6. \A a, b : NotAfter(a, b)' = NotAfter(a, b)
  BY <1>4 DEF NotAfter, Indexed
<1>7. TimeInv'
  <2>1. /\ \A i, j \in Answered : i < j => NotAfter(answers[i].name, answers[j].name)
        /\ \A i \in Answered, k \in DOMAIN left : NotAfter(answers[i].name, left[k])
        /\ \A k, l \in DOMAIN left : k < l => NotAfter(left[k], left[l])
    BY <1>1, <1>2 DEF TimeInv
  <2>2. \A i \in Answered, k \in DOMAIN Tail(left) : NotAfter(answers[i].name, Tail(left)[k])
    BY <1>3, <2>1
  <2>3. ASSUME NEW k \in DOMAIN Tail(left), NEW l \in DOMAIN Tail(left), k < l
        PROVE  NotAfter(Tail(left)[k], Tail(left)[l])
    <3>1. k + 1 < l + 1
      BY <1>3, <2>3
    <3>2. QED
      BY <1>3, <2>1, <3>1
  <2>4. QED
    BY <1>3, <1>4, <1>5, <1>6, <2>1, <2>2, <2>3 DEF TimeInv
<1>8. WindowInv'
  <2> SUFFICES ASSUME selection.criteria = "window"
               PROVE  LET known == AnsweredNames \cup RangeOf(Tail(left))
                      IN  /\ known \subseteq Wanted
                          /\ \A n \in Wanted \ known : ReadAsStr(kind, archive, n) = {}
    BY <1>3, <1>4, <1>5 DEF WindowInv
  <2>1. LET known == AnsweredNames \cup RangeOf(left)
        IN  /\ known \subseteq Wanted
            /\ \A n \in Wanted \ known : ReadAsStr(kind, archive, n) = {}
    BY <1>1, <1>2 DEF WindowInv
  <2>2. QED
    BY <1>1, <1>3, <2>1
<1>9. QED
  BY <1>2, <1>3, <1>4, <1>7, <1>8 DEF PlaybackInv

(* What a plan by time lists.                                              *)
NamesByTime(left, tts, S) ==
    /\ left \in Seq(RangeOf(left)) /\ NoName \notin RangeOf(left)
    /\ RangeOf(left) = {tt.entryname : tt \in {x \in RangeOf(tts) : x \in S}}
    /\ \A k, l \in DOMAIN left : k <= l =>
         \E tt, uu \in RangeOf(tts) :
             tt.entryname = left[k] /\ uu.entryname = left[l] /\ tt.stamp <= uu.stamp

LEMMA NamesOfSublist ==
    ASSUME NEW tts, TTsOK(tts), NEW S, NEW left, left = NamesOf(Sublist(tts, S))
    PROVE  NamesByTime(left, tts, S)
<1>1. PICK sub : sub = Sublist(tts, S) /\ left = [i \in DOMAIN sub |-> sub[i].entryname]
  BY DEF NamesOf
<1>2. /\ sub \in Seq(RangeOf(tts)) /\ Len(sub) \in Nat /\ DOMAIN sub = 1 .. Len(sub)
      /\ RangeOf(sub) = {x \in RangeOf(tts) : x \in S}
      /\ \A k, l \in DOMAIN sub : k <= l =>
           \E i, j \in DOMAIN tts : i <= j /\ sub[k] = tts[i] /\ sub[l] = tts[j]
  BY <1>1, SublistFacts DEF TTsOK
<1>3. DOMAIN left = DOMAIN sub /\ \A i \in DOMAIN sub : left[i] = sub[i].entryname
  BY <1>1
<1>4. RangeOf(left) = {tt.entryname : tt \in RangeOf(sub)}
  BY <1>3 DEF RangeOf
<1>5. left \in Seq(RangeOf(left))
  <2>1. \A i \in 1 .. Len(sub) : left[i] \in RangeOf(left)
    BY <1>2, <1>3 DEF RangeOf
  <2>2. left = [i \in 1 .. Len(sub) |-> left[i]]
    BY <1>1, <1>2, <1>3
  <2>3. left \in [1 .. Len(sub) -> RangeOf(left)]
    BY <2>1, <2>2
  <2>4. QED
    BY <1>2, <2>3
<1>6. \A tt \in RangeOf(tts) : tt.entryname # NoName
  BY DEF TTsOK, RangeOf
<1>7. NoName \notin RangeOf(left)
  BY <1>2, <1>4, <1>6
<1>8. ASSUME NEW k \in DOMAIN left, NEW l \in DOMAIN left, k <= l
      PROVE  \E tt, uu \in RangeOf(tts) :
                tt.entryname = left[k] /\ uu.entryname = left[l] /\ tt.stamp <= uu.stamp
  <2>1. PICK i, j \in DOMAIN tts : i <= j /\ sub[k] = tts[i] /\ sub[l] = tts[j]
    BY <1>2, <1>3, <1>8
  <2>2. tts[i].stamp <= tts[j].stamp /\ tts[i] \in RangeOf(tts) /\ tts[j] \in RangeOf(tts)
    BY <2>1 DEF TTsOK, RangeOf
  <2>3. tts[i].entryname = left[k] /\ tts[j].entryname = left[l]
    BY <1>3, <2>1
  <2>4. QED
    BY <2>2, <2>3
<1>9. QED
  BY <1>2, <1>4, <1>5, <1>7, <1>8 DEF NamesByTime

LEMMA PlanKeeps ==
    ASSUME PInv, ByTime, Plan
    PROVE  PlaybackInv'
<1>1. /\ ~started /\ started' /\ UNCHANGED <<kind, archive, selection, answers>>
      /\ Answered = {} /\ ArchiveInv
  BY DEF PInv, TypeInv, PlaybackInv, Plan
<1>2. PICK idx \in ReadLatestIndex : plan' \in GetEntriesToRead(idx) /\ index' = {idx}
  BY DEF Plan
<1>3. PICK tts : tts = idx.time_ordered_entries /\ TTsOK(tts)
  BY <1>1, <1>2, ReadLatestIndexOK
<1>4. PICK S :
        /\ plan' = [entries_to_read |-> NamesOf(Sublist(tts, S)),
                    require_all |-> plan'.require_all, raw_mode |-> plan'.raw_mode]
        /\ selection.criteria = "window" => S = {tt \in RangeOf(tts) : InWindow(selection, tt)}
  <2>1. CASE selection.criteria = "window"
    <3>1. plan' = [entries_to_read |-> NamesOf(Sublist(tts,
                      {tt \in RangeOf(tts) : InWindow(selection, tt)})),
                   require_all |-> FALSE, raw_mode |-> FALSE]
      BY <1>2, <1>3, <2>1 DEF GetEntriesToRead
    <3>2. plan'.require_all = FALSE /\ plan'.raw_mode = FALSE
      BY <3>1
    <3>3. QED
      BY <3>1, <3>2
  <2>2. CASE selection.criteria = "events"
    <3>1. plan' \in
            IF selection.require_all /\ EventsMissing(idx) THEN {}
            ELSE {[entries_to_read |-> NamesOf(Sublist(tts,
                     {tt \in RangeOf(tts) : Event(tt) \in selection.events})),
                   require_all |-> selection.require_all, raw_mode |-> FALSE]}
      BY <1>2, <1>3, <2>2 DEF GetEntriesToRead
    <3>2. plan' = [entries_to_read |-> NamesOf(Sublist(tts,
                     {tt \in RangeOf(tts) : Event(tt) \in selection.events})),
                   require_all |-> selection.require_all, raw_mode |-> FALSE]
      BY <3>1
    <3>3. plan'.require_all = selection.require_all /\ plan'.raw_mode = FALSE
      BY <3>2
    <3>4. QED
      BY <2>2, <3>2, <3>3
  <2>3. QED
    BY <2>1, <2>2 DEF ByTime
<1>5. PICK left : left = NamesOf(Sublist(tts, S)) /\ left = plan'.entries_to_read
  BY <1>4
<1>6. NamesByTime(left, tts, S)
  BY <1>3, <1>5, NamesOfSublist
<1>7. Indexed' = RangeOf(tts)
  BY <1>2, <1>3 DEF Indexed
<1>8. Answered' = {} /\ AnsweredNames' = {}
  BY <1>1 DEF Answered, AnsweredNames
<1>9. PlanOK'
  BY <1>4, <1>5, <1>6 DEF PlanOK, NamesByTime
<1>10. TimeInv'
  <2>1. \A k, l \in DOMAIN left : k < l => k <= l
    BY <1>6, LenProperties DEF NamesByTime
  <2>2. \A k, l \in DOMAIN left : k < l => NotAfter(left[k], left[l])'
    BY <1>5, <1>6, <1>7, <2>1 DEF NotAfter, NamesByTime
  <2>3. QED
    BY <1>5, <1>8, <2>2 DEF TimeInv
<1>11. WindowInv'
  <2> SUFFICES ASSUME selection.criteria = "window"
               PROVE  RangeOf(left) = Wanted'
    BY <1>1, <1>5, <1>8 DEF WindowInv
  <2>1. \A tt : InWindow(selection, tt) <=> Selects(selection, tt)
    BY DEF InWindow, Selects
  <2>2. {x \in RangeOf(tts) : x \in S} = {tt \in RangeOf(tts) : Selects(selection, tt)}
    BY <1>4, <2>1
  <2>3. Wanted' = {tt.entryname : tt \in {tt \in RangeOf(tts) : Selects(selection, tt)}}
    BY <1>1, <1>7 DEF Wanted, Selects
  <2>4. QED
    BY <1>6, <2>2, <2>3 DEF NamesByTime
<1>12. QED
  BY <1>1, <1>9, <1>10, <1>11 DEF PlaybackInv

(* Nothing is answered by name, nor is the plan changed.                   *)
LEMMA OthersKeepPlayback ==
    ASSUME PInv, ByTime, UNCHANGED <<kind, selection, started, plan, index>>,
           RangeOf(archive') \subseteq RangeOf(archive),
           Answered' = Answered, \A i \in Answered : answers'[i] = answers[i]
    PROVE  PlaybackInv'
<1>1. PlanOK /\ TimeInv /\ WindowInv /\ (~started => Answered = {}) /\ ArchiveInv
  BY DEF PInv, PlaybackInv
<1>2. PlanOK'
  BY <1>1 DEF PlanOK
<1>3. \A a, b : NotAfter(a, b)' = NotAfter(a, b)
  BY DEF NotAfter, Indexed
<1>4. TimeInv'
  BY <1>1, <1>3 DEF TimeInv
<1>5. WindowInv'
  <2>1. AnsweredNames' = AnsweredNames /\ Wanted' = Wanted
    BY DEF AnsweredNames, Wanted, Indexed
  <2>2. \A n : ReadAsStr(kind, archive, n) = {} => ReadAsStr(kind, archive', n) = {}
    BY <1>1, NotFoundStays DEF ArchiveInv
  <2>3. QED
    BY <1>1, <2>1, <2>2 DEF WindowInv
<1>6. QED
  BY <1>1, <1>2, <1>4, <1>5 DEF PlaybackInv

LEMMA InitPInv == Init => PInv
<1> SUFFICES ASSUME Init PROVE PInv
  OBVIOUS
<1>1. PICK c \in Contents : archive = c.archive
  BY DEF Init
<1>2. ArchiveInv
  BY <1>1, ContentsAssumption DEF ArchiveInv, TTsOK, Playable, RangeOf
<1>3. Answered = {} /\ plan = NoPlan /\ ~started
  BY DEF Init, Answered
<1>4. PlanOK
  <2>1. plan.entries_to_read = <<>> /\ RangeOf(<<>>) = {} /\ <<>> \in Seq({})
    BY <1>3, EmptySeq DEF NoPlan, RangeOf
  <2>2. QED
    BY <1>3, <2>1 DEF PlanOK, NoPlan
<1>5. TimeInv /\ WindowInv
  BY <1>3 DEF TimeInv, WindowInv, NoPlan
<1>6. QED
  BY <1>2, <1>3, <1>4, <1>5, InitTypeInv DEF PInv, PlaybackInv

LEMMA StepKeepsPInv == PInv /\ [Next]_vars => PInv'
<1> SUFFICES ASSUME PInv, [Next]_vars PROVE PInv'
  OBVIOUS
<1>1. TypeInv'
  BY StepKeepsTypes DEF PInv
<1>2. TypeInv /\ ArchiveInv
  BY DEF PInv
<1>3. UNCHANGED <<kind, selection>>
  BY DEF Next, GetNext, Call, PlanFails, Plan, EndOfSequence, ReadEntry, ReadError, NotFound,
         Skip, Delete, vars
<1>4. /\ ArchiveInv' /\ RangeOf(archive') \subseteq RangeOf(archive)
      /\ Delete \/ UNCHANGED archive
  <2>1. CASE Delete
    BY <1>2, <2>1, DeletesOnly DEF ArchiveInv
  <2>2. CASE ~Delete
    <3>1. UNCHANGED archive
      BY <2>2 DEF Next, GetNext, Call, PlanFails, Plan, EndOfSequence, ReadEntry, ReadError,
                  NotFound, Skip, vars
    <3>2. QED
      BY <1>2, <3>1 DEF ArchiveInv
  <2>3. QED
    BY <2>1, <2>2
<1>5. ASSUME ByTime PROVE PlaybackInv'
  <2>1. CASE PlanFails \/ EndOfSequence
    <3>1. PICK status : /\ Return(status, NoName, {})
                        /\ UNCHANGED <<kind, archive, selection, started, plan, index>>
      BY <2>1 DEF PlanFails, EndOfSequence
    <3>2. Answered' = Answered
      BY <1>2, <3>1, NamelessAnswer
    <3>3. \A i \in Answered : answers'[i] = answers[i]
      BY <1>2, <3>1, ReturnAppends DEF TypeInv, Answered
    <3>4. QED
      BY <1>4, <1>5, <3>1, <3>2, <3>3, OthersKeepPlayback
  <2>2. CASE ReadEntry \/ ReadError \/ NotFound
    <3>1. PICK status, name, e :
             /\ Return(status, name, e) /\ Pop(name)
             /\ UNCHANGED <<kind, archive, selection, started, index>>
      BY <2>2, Zenon DEF ReadEntry, ReadError, NotFound
    <3>2. started
      BY <1>2, <2>2 DEF ReadEntry, ReadError, NotFound, TypeInv, TypeOK
    <3>3. QED
      BY <1>5, <3>1, <3>2, NamedAnswerKeeps
  <2>3. CASE Plan \/ Skip
    BY <1>5, <2>3, PlanKeeps, SkipKeeps
  <2>4. CASE Call \/ Delete \/ UNCHANGED vars
    <3>1. UNCHANGED <<kind, selection, started, plan, index, answers>>
      BY <1>3, <2>4, <1>2 DEF Call, Delete, vars
    <3>2. Answered' = Answered
      BY <3>1 DEF Answered
    <3>3. QED
      BY <1>4, <1>5, <3>1, <3>2, OthersKeepPlayback
  <2>5. QED
    BY <2>1, <2>2, <2>3, <2>4 DEF Next, GetNext
<1>6. PlaybackInv'
  <2>1. ByTime' = ByTime
    BY <1>3 DEF ByTime
  <2>2. QED
    BY <1>5, <2>1 DEF PlaybackInv
<1>7. QED
  BY <1>1, <1>4, <1>6 DEF PInv

(* Messages are played back in the order of time, whatever order they were *)
(* written in, and whichever are passed over or deleted in the meantime.   *)
THEOREM PlaybackIsInTimeOrder == Spec => []PlaybackInTimeOrder
<1>1. PInv => PlaybackInTimeOrder
  BY DEF PInv, PlaybackInv, ByTime, TimeInv, NotAfter, PlaybackInTimeOrder
<1>2. QED
  BY InitPInv, StepKeepsPInv, <1>1, PTL DEF Spec

(* A window is played back to its last message: none is passed over that   *)
(* could be found, and none is answered that it does not select.           *)
THEOREM PlaybackIsComplete == Spec => []PlaybackComplete
<1>1. PInv => PlaybackComplete
  <2> SUFFICES ASSUME PInv, selection.criteria = "window", started,
                      plan.entries_to_read = <<>>
               PROVE  /\ AnsweredNames \subseteq Wanted
                      /\ \A n \in Wanted \ AnsweredNames : ReadAsStr(kind, archive, n) = {}
    BY DEF PlaybackComplete, Wanted
  <2>1. RangeOf(<<>>) = {}
    BY DEF RangeOf
  <2>2. QED
    BY <2>1 DEF PInv, PlaybackInv, ByTime, WindowInv
<1>2. QED
  BY InitPInv, StepKeepsPInv, <1>1, PTL DEF Spec

=============================================================================

-------------------------- MODULE OrderPromiseProofs --------------------------
(***************************************************************************)
(* What follows from the promise alone, for every number of calls and      *)
(* keys.  A specification that keeps the promise, or uses it, has it from  *)
(* here (SubmitOrderProofs, JourneyProofs, AgentRunsProofs).               *)
(*                                                                         *)
(* The answers are tied to each other through the record: PromiseInv says  *)
(* that an order on record was asked for under its key, that an answer is  *)
(* what is on record, and that a refused call has neither.                 *)
(***************************************************************************)
EXTENDS OrderPromise, TLAPS

PromiseInv ==
    /\ TypeOK /\ RecordsAreReal /\ AnswersOnRecord /\ RefusalsHold
    /\ \A c \in Calls : c \in executed \/ told[c] # None => asked[c] # None

LEMMA InitPromise == Init => PromiseInv
BY DEF Init, PromiseInv, TypeOK, RecordsAreReal, AnswersOnRecord, RefusalsHold

LEMMA NextPromise ==
    PromiseInv /\ [Next]_promiseVars => PromiseInv' /\ [Kept]_promiseVars
<1> SUFFICES ASSUME PromiseInv, [Next]_promiseVars
             PROVE  PromiseInv' /\ [Kept]_promiseVars
  OBVIOUS
<1> USE DEF PromiseInv, TypeOK, RecordsAreReal, AnswersOnRecord, RefusalsHold, Kept,
            Open
<1>1. ASSUME NEW c \in Calls, NEW k \in Keys, Ask(c, k)
      PROVE  PromiseInv' /\ Kept
  BY <1>1 DEF Ask
<1>2. ASSUME NEW c \in Calls, Execute(c) PROVE PromiseInv' /\ Kept
  BY <1>2 DEF Execute
<1>3. ASSUME NEW c \in Calls, Record(c) PROVE PromiseInv' /\ Kept
  BY <1>3 DEF Record
<1>4. ASSUME NEW c \in Calls, Tell(c) PROVE PromiseInv' /\ Kept
  BY <1>4 DEF Tell
<1>5. ASSUME NEW c \in Calls, Refuse(c) PROVE PromiseInv' /\ Kept
  BY <1>5 DEF Refuse
<1>6. CASE UNCHANGED promiseVars
  BY <1>6 DEF promiseVars
<1> QED
  BY <1>1, <1>2, <1>3, <1>4, <1>5, <1>6 DEF Next

LEMMA PromiseHolds == Spec => []PromiseInv
BY InitPromise, NextPromise, PTL DEF Spec

(* Callers of one key are told one order.                                  *)
THEOREM PromiseAgrees == Spec => []AnswersAgree
<1>1. PromiseInv => AnswersAgree
  BY DEF PromiseInv, AnswersOnRecord, AnswersAgree
<1> QED
  BY <1>1, PromiseHolds, PTL

(* An answer is the order on record, the caller's own if there is one, and *)
(* that order exists and was asked for under the caller's key.             *)
THEOREM PromiseIsReal == Spec => [](RecordsAreReal /\ AnswersOnRecord)
<1>1. PromiseInv => RecordsAreReal /\ AnswersOnRecord
  BY DEF PromiseInv
<1> QED
  BY <1>1, PromiseHolds, PTL

(* A refused call has no order: what it asked for was not done.            *)
THEOREM PromiseRefuses == Spec => []RefusalsHold
<1>1. PromiseInv => RefusalsHold
  BY DEF PromiseInv
<1> QED
  BY <1>1, PromiseHolds, PTL

(* Neither an order nor its record nor an answer is ever withdrawn, and no *)
(* refusal.                                                                *)
THEOREM PromiseLasts == Spec => NothingWithdrawn
BY NextPromise, PromiseHolds, PTL DEF Spec, NothingWithdrawn

=============================================================================

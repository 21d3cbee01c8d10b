---------------------------- MODULE OrderPromise ----------------------------
(***************************************************************************)
(* What the Gateway's one write tool promises to the agent that calls it,  *)
(* whatever fails underneath: an order may be executed more than once for  *)
(* one idempotency key (by different calls), but at most one call's order  *)
(* is ever recorded under the key, the record is never replaced, and every *)
(* caller that is told "success" is told the recorded order.  A call whose *)
(* own order exists is never told of another call's order, and one that is *)
(* refused has no order and never will.                                    *)
(*                                                                         *)
(* An order is named by the call whose POST created it: a call posts at    *)
(* most one.                                                               *)
(***************************************************************************)
CONSTANTS
    Calls,   \* calls of the submit_order tool
    Keys,    \* idempotency keys
    None

VARIABLES
    asked,      \* the key each call presented, None before it starts
    executed,   \* the calls whose order exists in the order system
    recorded,   \* the call whose order is on record under each key
    told,       \* the order each call was told succeeded
    refused     \* the calls that were refused

promiseVars == <<asked, executed, recorded, told, refused>>

TypeOK ==
    /\ asked \in [Calls -> Keys \cup {None}]
    /\ executed \subseteq Calls
    /\ recorded \in [Keys -> Calls \cup {None}]
    /\ told \in [Calls -> Calls \cup {None}]
    /\ refused \subseteq Calls

Init ==
    /\ asked = [c \in Calls |-> None]
    /\ executed = {}
    /\ recorded = [k \in Keys |-> None]
    /\ told = [c \in Calls |-> None]
    /\ refused = {}

(* Asked, and neither told nor refused yet.                                *)
Open(c) == asked[c] # None /\ told[c] = None /\ c \notin refused

Ask(c, k) ==
    /\ asked[c] = None
    /\ asked' = [asked EXCEPT ![c] = k]
    /\ UNCHANGED <<executed, recorded, told, refused>>

Execute(c) ==
    /\ Open(c)
    /\ c \notin executed
    /\ executed' = executed \cup {c}
    /\ UNCHANGED <<asked, recorded, told, refused>>

(* Mutant: a later order of the key replaces the one on record. *)
MutantRecord(c) ==
    /\ c \in executed
    /\ recorded' = [recorded EXCEPT ![asked[c]] = c]
    /\ UNCHANGED <<asked, executed, told, refused>>

Record(c) ==
    /\ c \in executed
    /\ recorded[asked[c]] = None
    /\ recorded' = [recorded EXCEPT ![asked[c]] = c]
    /\ UNCHANGED <<asked, executed, told, refused>>

(* Mutant: a call answers with its own order without a look at the record. *)
MutantTell(c) ==
    /\ Open(c)
    /\ c \in executed
    /\ told' = [told EXCEPT ![c] = c]
    /\ UNCHANGED <<asked, executed, recorded, refused>>

(* The answer comes from the record, and a call whose own order was made   *)
(* is answered with that order or not at all.                              *)
Tell(c) ==
    /\ Open(c)
    /\ LET order == recorded[asked[c]] IN
        /\ order # None
        /\ order = c \/ c \notin executed
        /\ told' = [told EXCEPT ![c] = order]
    /\ UNCHANGED <<asked, executed, recorded, refused>>

Refuse(c) ==
    /\ Open(c)
    /\ c \notin executed
    /\ refused' = refused \cup {c}
    /\ UNCHANGED <<asked, executed, recorded, told>>

Next ==
    \E c \in Calls :
        \/ \E k \in Keys : Ask(c, k)
        \/ Execute(c)
        \/ Record(c)
        \/ Tell(c)
        \/ Refuse(c)

Spec == Init /\ [][Next]_promiseVars

-----------------------------------------------------------------------------
(* Properties: what an agent may conclude from an answer.                  *)

(* Callers of one key that are told "success" are told one order.          *)
AnswersAgree ==
    \A c, d \in Calls :
        asked[c] = asked[d] /\ None \notin {told[c], told[d]} => told[c] = told[d]

(* What is on record under a key exists and was asked for under that key.  *)
RecordsAreReal ==
    \A k \in Keys :
        recorded[k] # None => recorded[k] \in executed /\ asked[recorded[k]] = k

(* An answer is what is on record, and a caller whose own order exists is  *)
(* told of that one or of none.                                            *)
AnswersOnRecord ==
    \A c \in Calls :
        told[c] # None => /\ told[c] = recorded[asked[c]]
                          /\ c \in executed => told[c] = c

(* A refused call has no order, and is not told of another's.              *)
RefusalsHold == \A c \in refused : c \notin executed /\ told[c] = None

(* An order, the record of one and an answer are there to stay, and so is  *)
(* a refusal.                                                              *)
Kept ==
    /\ executed \subseteq executed' /\ refused \subseteq refused'
    /\ \A k \in Keys : recorded[k] # None => recorded'[k] = recorded[k]
    /\ \A c \in Calls : /\ asked[c] # None => asked'[c] = asked[c]
                        /\ told[c] # None => told'[c] = told[c]

NothingWithdrawn == [][Kept]_promiseVars

=============================================================================

----------------------------- MODULE SubmitOrder -----------------------------
(***************************************************************************)
(* The Gateway's write path: submit_order (bluemarble_tools.py) with the   *)
(* idempotency check, the audit row and its unique index, and the order    *)
(* system's create_order (mock-bluemarble).  Every await of the handler is *)
(* a step, so calls interleave between any two of them.                    *)
(*                                                                         *)
(* Abstractions.  An order is named by the call whose POST created it (a   *)
(* call posts once, and order ids come from a sequence).  The audit trail  *)
(* is the row each call wrote: a call writes at most one.  Prices are in   *)
(* cents.  The code subtracts them as floats and rounds to cents; the      *)
(* float's error is an error of at most one Tick, a tenth of a cent.       *)
(***************************************************************************)
EXTENDS Integers

CONSTANTS
    Calls,              \* calls of the tool, each made at most once
    Requests,           \* arguments a call may carry
    Keys,               \* idempotency keys
    Customers,          \* customers the analytics views know
    Offers,             \* offer ids a request may name
    Rows,               \* values a customer's row of customer_360 may take
    Catalog,            \* price in cents of each offer of the catalogue
    AutoApproveDelta,   \* AUTO_APPROVE_DELTA_EUR, in cents
    EmptyKey,           \* the idempotency key ""
    Faults,             \* failures this instance allows, see FaultKinds
    Overlap,            \* may two calls be in progress at once?
    None

FaultKinds ==
    { "read",      \* a database or catalogue read raises
      "post",      \* the order system refuses or never receives the POST
      "timeout",   \* the POST's 10 s client timeout expires first
      "audit",     \* the INSERT of the audit row raises
      "crash" }    \* the gateway process dies

ASSUME RequestsAssumption ==
    /\ None \notin Calls /\ None \notin Requests /\ None \notin Keys
    /\ None \notin Rows /\ None \notin Int
    /\ \A r \in Requests : r.key \in Keys /\ r.offer \in Offers

ASSUME PricesAssumption ==
    /\ \A row \in Rows : row.spend_current_month \in Int
                      /\ row.outstanding_balance \in Int
    /\ DOMAIN Catalog \subseteq Offers
    /\ \A offer \in DOMAIN Catalog : Catalog[offer] \in Int
    /\ AutoApproveDelta \in Int

ASSUME SwitchesAssumption == Faults \subseteq FaultKinds /\ Overlap \in BOOLEAN

VARIABLES
    customer360,   \* the row each known customer has now
    pc,            \* where each call is in submit_order
    req,           \* the arguments each call was made with
    eligibility,   \* the row its eligibility query returned
    spend,         \* the amount its spend query returned
    verdict,       \* what the handler decided, and then what it will record
    wire,          \* its POST /productOrder
    trail,         \* its row of audit.audit_trail: what it says happened
    rowKey,        \* and that row's column idempotency_key, None if NULL
    reply,         \* what its caller got
    seen           \* history: rows its customer had before the gate decided

handlerVars == <<pc, req, eligibility, spend, verdict, reply>>
vars == <<customer360, pc, req, eligibility, spend, verdict, wire, trail,
          rowKey, reply, seen>>

Verdicts == {"none", "blocked", "escalated", "approved", "failure", "success"}
Statuses == {"none", "error", "blocked", "escalated", "success"}
Points == {"idle", "check", "eligibility", "spend", "catalog", "post", "audit",
           "return", "done", "dead"}

Recordable == {"blocked", "escalated", "failure", "success"}
Undecided == {"check", "eligibility", "spend", "catalog"}
InProgress == Undecided \cup {"post", "audit", "return"}
Active(c) == pc[c] \in InProgress

(* The orders of bluemarble.product_order. *)
orders == {c \in Calls : wire[c] = "created"}

Init ==
    /\ customer360 \in [Customers -> Rows]
    /\ pc = [c \in Calls |-> "idle"]
    /\ req = [c \in Calls |-> None]
    /\ eligibility = [c \in Calls |-> None]
    /\ spend = [c \in Calls |-> None]
    /\ verdict = [c \in Calls |-> "none"]
    /\ wire = [c \in Calls |-> "none"]
    /\ trail = [c \in Calls |-> "none"]
    /\ rowKey = [c \in Calls |-> None]
    /\ reply = [c \in Calls |-> [status |-> "none", order |-> None]]
    /\ seen = [c \in Calls |-> {}]

-----------------------------------------------------------------------------
(* The policy gate and the two lookups on the trail.                       *)

Eligible(row) ==
    /\ row.upgrade_eligible
    /\ row.outstanding_balance <= 0
    /\ row.credit_flag = "green"

(* round(target - current, 2) of two floats: a float error, at most a Tick  *)
(* either way, disappears in the rounding.                                 *)
Ticks == 10
FloatError == -1..1
Round(ticks) == (ticks + Ticks \div 2) \div Ticks

(* Mutant: the difference of the two floats is compared as it is, so that  *)
(* a hair above the threshold counts as above.                             *)
MutantDelta(current, offer, error) ==
    Catalog[offer] - current + (IF error > 0 THEN 1 ELSE 0)

Delta(current, offer, error) ==
    Round(Ticks * (Catalog[offer] - current) + error)

(* Mutant: the price delta is not checked. *)
MutantGate(row, delta) == IF Eligible(row) THEN "approved" ELSE "blocked"

Gate(row, delta) ==
    CASE ~Eligible(row) -> "blocked"
      [] Eligible(row) /\ delta > AutoApproveDelta -> "escalated"
      [] OTHER -> "approved"

(* Rows with outcome_status 'success': a refusal is one of them.           *)
Succeeded == {"blocked", "escalated", "success"}

SuccessRows(key) == {d \in Calls : trail[d] \in Succeeded /\ rowKey[d] = key}

(* Those with a result in outcome_detail: a refusal has none.              *)
OrderRows(key) == {d \in SuccessRows(key) : trail[d] = "success"}

(* Mutant: the test of the falsy key is inverted. *)
MutantCached(key) == IF key = EmptyKey THEN OrderRows(key) ELSE {}
(* Mutant: the lookup leaves its WHERE on the key out. *)
MutantCachedAny(key) ==
    IF key = EmptyKey THEN {} ELSE {d \in Calls : trail[d] = "success"}

(* check_cached_result looks nothing up for a falsy key.                   *)
Cached(key) == IF key = EmptyKey THEN {} ELSE OrderRows(key)

(* Mutant: every row of the call carries its key. *)
MutantKeyColumn(c) == req[c].key

(* Only the row of an order carries the call's key.                        *)
KeyColumn(c) == IF verdict[c] = "success" THEN req[c].key ELSE None

(* Mutant: no unique index. *)
MutantNoIndex(c) == TRUE

(* audit_trail_idempotency_key_uq: unique among the rows with a key and    *)
(* outcome_status 'success'.                                               *)
IndexAdmits(c) ==
    verdict[c] \in Succeeded /\ KeyColumn(c) # None =>
        SuccessRows(KeyColumn(c)) = {}

-----------------------------------------------------------------------------
(* The handler.                                                            *)

Answer(c, status, order) ==
    /\ pc' = [pc EXCEPT ![c] = "done"]
    /\ reply' = [reply EXCEPT ![c] = [status |-> status, order |-> order]]

(* Mutant: the exception becomes a result of its own. *)
MutantRaise(c) == Answer(c, "failure", None)

(* An exception leaves the handler: the agent gets an error, not a status. *)
Raise(c) == Answer(c, "error", None)

GoTo(c, point) == pc' = [pc EXCEPT ![c] = point] /\ UNCHANGED reply

Start(c, r) ==
    /\ pc[c] = "idle"
    /\ Overlap \/ \A d \in Calls : ~Active(d)
    /\ req' = [req EXCEPT ![c] = r]
    /\ GoTo(c, "check")
    /\ seen' = [seen EXCEPT ![c] = IF r.customer \in Customers
                                     THEN {customer360[r.customer]} ELSE {}]
    /\ UNCHANGED <<customer360, eligibility, spend, verdict, wire, trail,
                   rowKey>>

CheckCachedResult(c) ==
    /\ pc[c] = "check"
    /\ \/ Cached(req[c].key) = {} /\ GoTo(c, "eligibility")
       \/ \E d \in Cached(req[c].key) : Answer(c, "success", d)
    /\ UNCHANGED <<customer360, req, eligibility, spend, verdict, wire, trail,
                   rowKey, seen>>

ReadEligibility(c) ==
    /\ pc[c] = "eligibility"
    /\ \/ /\ req[c].customer \in Customers
          /\ eligibility' = [eligibility EXCEPT
                               ![c] = customer360[req[c].customer]]
          /\ GoTo(c, "spend")
       \/ /\ req[c].customer \notin Customers
          /\ Raise(c)
          /\ UNCHANGED eligibility
    /\ UNCHANGED <<customer360, req, spend, verdict, wire, trail, rowKey,
                   seen>>

ReadSpend(c) ==
    /\ pc[c] = "spend"
    /\ spend' = [spend EXCEPT
                   ![c] = customer360[req[c].customer].spend_current_month]
    /\ GoTo(c, "catalog")
    /\ UNCHANGED <<customer360, req, eligibility, verdict, wire, trail, rowKey,
                   seen>>

(* Mutant: the POST leaves before the gate has decided. *)
MutantReadCatalog(c) ==
    /\ pc[c] = "catalog"
    /\ req[c].offer \in DOMAIN Catalog
    /\ wire' = [wire EXCEPT ![c] = "sent"]
    /\ \E error \in FloatError :
       LET decision == Gate(eligibility[c], Delta(spend[c], req[c].offer, error)) IN
        /\ verdict' = [verdict EXCEPT ![c] = decision]
        /\ GoTo(c, IF decision = "approved" THEN "post" ELSE "audit")
    /\ UNCHANGED <<customer360, req, eligibility, spend, trail, rowKey, seen>>

(* The catalogue answers, the gate decides and, with no await in between,  *)
(* either the POST leaves or the refusal goes to the trail.                *)
ReadCatalog(c) ==
    /\ pc[c] = "catalog"
    /\ req[c].offer \in DOMAIN Catalog
    /\ \E error \in FloatError :
       LET decision == Gate(eligibility[c], Delta(spend[c], req[c].offer, error)) IN
        /\ verdict' = [verdict EXCEPT ![c] = decision]
        /\ \/ /\ decision = "approved"
              /\ wire' = [wire EXCEPT ![c] = "sent"]
              /\ GoTo(c, "post")
           \/ /\ decision # "approved"
              /\ GoTo(c, "audit")
              /\ UNCHANGED wire
    /\ UNCHANGED <<customer360, req, eligibility, spend, trail, rowKey, seen>>

(* None of the reads is inside the try block: what they raise is not       *)
(* recorded.                                                               *)
ReadFails(c) ==
    /\ \/ pc[c] \in Undecided /\ "read" \in Faults
       \/ pc[c] = "catalog" /\ req[c].offer \notin DOMAIN Catalog
    /\ Raise(c)
    /\ UNCHANGED <<customer360, req, eligibility, spend, verdict, wire, trail,
                   rowKey, seen>>

(* Mutant: raise_for_status is forgotten. *)
MutantPostReturns(c) ==
    /\ pc[c] = "post"
    /\ wire[c] \in {"created", "rejected"}
    /\ verdict' = [verdict EXCEPT ![c] = "success"]
    /\ GoTo(c, "audit")
    /\ UNCHANGED <<customer360, req, eligibility, spend, wire, trail, rowKey,
                   seen>>

PostReturns(c) ==
    /\ pc[c] = "post"
    /\ wire[c] = "created"
    /\ verdict' = [verdict EXCEPT ![c] = "success"]
    /\ GoTo(c, "audit")
    /\ UNCHANGED <<customer360, req, eligibility, spend, wire, trail, rowKey,
                   seen>>

(* Mutants: no client timeout; one too short for the order system. *)
MutantNoTimeout(c) == wire[c] = "rejected"
MutantShortTimeout(c) == TRUE

(* The client gives up after its timeout whatever has become of the POST.  *)
GivesUp(c) == wire[c] = "rejected" \/ "timeout" \in Faults

(* Mutant: a POST that timed out is taken for accepted. *)
MutantPostFails(c) ==
    /\ pc[c] = "post"
    /\ GivesUp(c)
    /\ verdict' = [verdict EXCEPT
                     ![c] = IF wire[c] = "sent" THEN "success" ELSE "failure"]
    /\ GoTo(c, "audit")
    /\ UNCHANGED <<customer360, req, eligibility, spend, wire, trail, rowKey,
                   seen>>

PostFails(c) ==
    /\ pc[c] = "post"
    /\ GivesUp(c)
    /\ verdict' = [verdict EXCEPT ![c] = "failure"]
    /\ GoTo(c, "audit")
    /\ UNCHANGED <<customer360, req, eligibility, spend, wire, trail, rowKey,
                   seen>>

Insert(c) ==
    /\ IndexAdmits(c)
    /\ trail' = [trail EXCEPT ![c] = verdict[c]]
    /\ rowKey' = [rowKey EXCEPT ![c] = KeyColumn(c)]

RecordAudit(c) ==
    /\ pc[c] = "audit"
    /\ Insert(c)
    /\ GoTo(c, "return")
    /\ UNCHANGED <<customer360, req, eligibility, spend, verdict, wire, seen>>

(* Mutant: a failure to record is swallowed. *)
MutantAuditRaises(c) ==
    /\ \/ pc[c] = "audit" /\ ~IndexAdmits(c)
       \/ pc[c] = "audit" /\ "audit" \in Faults
    /\ GoTo(c, "return")
    /\ UNCHANGED <<customer360, req, eligibility, spend, verdict, wire, trail,
                   rowKey, seen>>

(* The INSERT raises: the unique index refuses it, or the database fails   *)
(* before it commits, or the row is committed and the acknowledgement lost.*)
AuditRaises(c) ==
    /\ \/ pc[c] = "audit" /\ ~IndexAdmits(c)
       \/ pc[c] \in {"audit", "return"} /\ "audit" \in Faults
    /\ Raise(c)
    /\ UNCHANGED <<customer360, req, eligibility, spend, verdict, wire, trail,
                   rowKey, seen>>

(* The database commits an INSERT whose sender has given up on the         *)
(* connection or died.                                                     *)
LateCommit(c) ==
    /\ Faults \cap {"audit", "crash"} # {}
    /\ pc[c] \in {"done", "dead"}
    /\ verdict[c] \in Recordable /\ trail[c] = "none"
    /\ Insert(c)
    /\ UNCHANGED <<customer360, handlerVars, wire, seen>>

Return(c) ==
    /\ pc[c] = "return"
    /\ \/ verdict[c] = "success" /\ Answer(c, "success", c)
       \/ verdict[c] = "failure" /\ Raise(c)
       \/ verdict[c] \in {"blocked", "escalated"} /\ Answer(c, verdict[c], None)
    /\ UNCHANGED <<customer360, req, eligibility, spend, verdict, wire, trail,
                   rowKey, seen>>

-----------------------------------------------------------------------------
(* The order system, the source of the customer data, and crashes.         *)

(* create_order: no deduplication, one row of product_order per POST, even *)
(* when nobody is waiting for the answer any more.                         *)
CreateOrder(c) ==
    /\ wire[c] = "sent"
    /\ wire' = [wire EXCEPT ![c] = "created"]
    /\ UNCHANGED <<customer360, handlerVars, trail, rowKey, seen>>

RejectOrder(c) ==
    /\ "post" \in Faults
    /\ wire[c] = "sent"
    /\ wire' = [wire EXCEPT ![c] = "rejected"]
    /\ UNCHANGED <<customer360, handlerVars, trail, rowKey, seen>>

(* customer_360 is loaded from outside this repository. *)
Refresh(customer, row) ==
    /\ customer360[customer] # row
    /\ customer360' = [customer360 EXCEPT ![customer] = row]
    /\ seen' = [c \in Calls |->
                  IF pc[c] \in Undecided /\ req[c].customer = customer
                    THEN seen[c] \cup {row} ELSE seen[c]]
    /\ UNCHANGED <<handlerVars, wire, trail, rowKey>>

(* The process dies: every call in progress is lost with its local state,  *)
(* the trail and the order system stay.                                    *)
Crash ==
    /\ "crash" \in Faults
    /\ \E c \in Calls : Active(c)
    /\ pc' = [c \in Calls |-> IF Active(c) THEN "dead" ELSE pc[c]]
    /\ UNCHANGED <<customer360, req, eligibility, spend, verdict, wire, trail,
                   rowKey, reply, seen>>

Handler(c) ==
    \/ CheckCachedResult(c)
    \/ ReadEligibility(c)
    \/ ReadSpend(c)
    \/ ReadCatalog(c)
    \/ ReadFails(c)
    \/ PostReturns(c)
    \/ PostFails(c)
    \/ RecordAudit(c)
    \/ AuditRaises(c)
    \/ Return(c)

Next ==
    \/ \E c \in Calls :
        \/ \E r \in Requests : Start(c, r)
        \/ Handler(c)
        \/ CreateOrder(c)
        \/ RejectOrder(c)
        \/ LateCommit(c)
    \/ \E customer \in Customers, row \in Rows : Refresh(customer, row)
    \/ Crash

(* The event loop resumes a coroutine whose await has finished, and every  *)
(* await of the handler finishes: the database answers or raises, the HTTP *)
(* client times out.  The order system owes nobody an answer.              *)
Spec == Init /\ [][Next]_vars /\ \A c \in Calls : WF_vars(Handler(c))

-----------------------------------------------------------------------------
(* Properties.                                                             *)

TypeOK ==
    /\ customer360 \in [Customers -> Rows]
    /\ pc \in [Calls -> Points]
    /\ req \in [Calls -> Requests \cup {None}]
    /\ eligibility \in [Calls -> Rows \cup {None}]
    /\ spend \in [Calls -> Int \cup {None}]
    /\ verdict \in [Calls -> Verdicts]
    /\ wire \in [Calls -> {"none", "sent", "created", "rejected"}]
    /\ trail \in [Calls -> Recordable \cup {"none"}]
    /\ rowKey \in [Calls -> Keys \cup {None}]
    /\ reply \in [Calls -> [status : Statuses, order : Calls \cup {None}]]
    /\ seen \in [Calls -> SUBSET Rows]

Told(c) == reply[c].status = "success"
Refused(c) == reply[c].status \in {"blocked", "escalated"}

(* As long as one key stands for one request, a success reports an order   *)
(* for the customer and the offer of the call it answers, also when it     *)
(* comes from the cache, which looks at the key alone (idempotency.py).    *)
(* The key is idem-<proposal id>, and an id is 24 random bits.             *)
KeysIdentify ==
    \A r, s \in Requests : r.key = s.key /\ r.key # EmptyKey => r = s

SuccessFitsRequest ==
    KeysIdentify =>
        \A c \in Calls : Told(c) => req[reply[c].order] = req[c]

(* All callers of one key that are told "success", by their own order or   *)
(* from the cache, are told the same order id, whatever interleaved or     *)
(* failed (idempotency.py, the unique index of 001_audit_trail.sql).       *)
SameKeySameOrder ==
    \A c, d \in Calls :
        Told(c) /\ Told(d) /\ req[c].key = req[d].key
            => reply[c].order = reply[d].order

(* A caller told "success" can be shown an order that exists in the order  *)
(* system, and it is its own order whenever its own POST created one: the  *)
(* cache never hides an order the same call has just made.                 *)
SuccessIsReal ==
    \A c \in Calls :
        Told(c) => /\ reply[c].order \in orders
                   /\ c \in orders => reply[c].order = c

(* No answer of submit_order runs ahead of the trail: a refusal has its own *)
(* committed row, a success the committed success row of the same key.     *)
AnswersAreOnRecord ==
    \A c \in Calls :
        /\ Refused(c) => trail[c] = reply[c].status
        /\ Told(c) => reply[c].order \in OrderRows(req[c].key)

(* A call whose refusal was recorded or reported has not ordered and never *)
(* will: nothing of it is left on the wire to be delivered late.           *)
RefusedNeverOrders ==
    \A c \in Calls :
        Refused(c) \/ trail[c] \in {"blocked", "escalated"} => wire[c] = "none"

AboveThreshold(row, offer) ==
    Catalog[offer] > row.spend_current_month + AutoApproveDelta

(* Every order was let through on data that was true while its call ran: a *)
(* row that was eligible and a spend within the threshold, both held by    *)
(* the customer between the call's start and the gate.  They may be two    *)
(* different rows: the handler reads twice.  A delta of the threshold      *)
(* itself passes.                                                          *)
OrdersPassedTheGate ==
    \A c \in orders :
        /\ \E row \in seen[c] : Eligible(row)
        /\ \E row \in seen[c] : ~AboveThreshold(row, req[c].offer)

(* Nobody is turned away for nothing: a blocked call had a row that was    *)
(* not eligible while it ran, an escalated one had a spend the offer       *)
(* exceeds by more than the threshold, and not by a float's error.         *)
RefusalsAreDeserved ==
    \A c \in Calls :
        /\ trail[c] = "blocked" => \E row \in seen[c] : ~Eligible(row)
        /\ trail[c] = "escalated" =>
             \E row \in seen[c] : AboveThreshold(row, req[c].offer)

(* A failed attempt leaves its key free (001_audit_trail.sql): neither a   *)
(* refusal nor a failure under the same key takes a later call's success   *)
(* away.  As long as the database itself does not fail, a call whose order *)
(* was accepted ends in an error only if the trail holds another order of  *)
(* its key.                                                                *)
FailuresLeaveTheKeyFree ==
    \A c \in Calls :
        reply[c].status = "error" /\ verdict[c] = "success" =>
            \E d \in orders \ {c} :
                trail[d] = "success" /\ req[d].key = req[c].key

(* One idempotency key, one order (docs/eval-cases.md, row 6).             *)
OneOrderPerKey ==
    \A c, d \in orders :
        req[c].key = req[d].key /\ req[c].key # EmptyKey => c = d

(* The trail is the source of truth for "has this write already happened": *)
(* once a call with a key is over, its order is in the trail               *)
(* (idempotency.py).  The blank key is left out: the lookup ignores it, the *)
(* unique index does not.                                                  *)
NoOrphanOrder ==
    \A c \in orders :
        pc[c] \in {"done", "dead"} /\ req[c].key # EmptyKey
            => trail[c] = "success"

(* Every call is answered or dies with the process, also when the order    *)
(* system never answers.                                                   *)
EveryCallEnds ==
    \A c \in Calls : pc[c] = "check" ~> pc[c] \in {"done", "dead"}

(* The write path implements its promise.                                  *)
OneOf(rows) == IF rows = {} THEN None ELSE CHOOSE d \in rows : TRUE
Recorded(key) == OneOf(OrderRows(key))
Refusals == {c \in Calls : Refused(c)}

Promise ==
    INSTANCE OrderPromise WITH
        asked    <- [c \in Calls |-> IF req[c] = None THEN None ELSE req[c].key],
        executed <- orders,
        recorded <- [key \in Keys |-> Recorded(key)],
        told     <- [c \in Calls |-> reply[c].order],
        refused  <- Refusals

PromiseKept == Promise!Spec

=============================================================================

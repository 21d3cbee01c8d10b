-------------------------- MODULE SubmitSerialProofs --------------------------
(***************************************************************************)
(* What holds of the write path when calls do not overlap and nothing but  *)
(* a read or the order system itself fails (Serial): one order per key,    *)
(* and no order outside the trail.  The two runs that refute these         *)
(* properties lift one of the two conditions each, so the conditions are   *)
(* what the properties need.  Beside them, two facts that need neither.    *)
(*                                                                         *)
(* AloneInv: the one call in progress owns its key and its POST, and an    *)
(* order is on its way to the trail or there already.  FreeKeyInv and      *)
(* OwnInv say why a caller gets an error after its order was made, and     *)
(* that the cache never answers for the blank key.                         *)
(***************************************************************************)
EXTENDS SubmitOrderProofs

Serial == ~Overlap /\ Faults \subseteq {"read", "post"}

InOrder == \A c, d \in Calls : Active(c) /\ Active(d) => c = d

OwnsKey(c) ==
    Active(c) /\ pc[c] # "check" /\ req[c].key # EmptyKey =>
        OrderRows(req[c].key) \subseteq {c}

OnItsWay(c) ==
    /\ wire[c] = "sent" => pc[c] = "post"
    /\ wire[c] = "created" /\ req[c].key # EmptyKey =>
         \/ pc[c] = "post"
         \/ pc[c] = "audit" /\ verdict[c] = "success"
         \/ trail[c] = "success"

AloneInv ==
    Serial => InOrder /\ \A c \in Calls : OwnsKey(c) /\ OnItsWay(c)

(* Another order of the call's key is on the trail.                        *)
Beaten(c) ==
    \E d \in orders \ {c} : trail[d] = "success" /\ req[d].key = req[c].key

FreeKeyInv ==
    "audit" \notin Faults => FailuresLeaveTheKeyFree

OwnInv ==
    \A c \in Calls : Told(c) /\ req[c].key = EmptyKey => reply[c].order = c

SInv == IInv /\ AloneInv /\ FreeKeyInv /\ OwnInv

LEMMA InitSInv == Init => SInv
<1> SUFFICES ASSUME Init PROVE SInv
  OBVIOUS
<1>1. IInv
  BY InitIInv
<1>2. AloneInv
  BY DEF Init, AloneInv, InOrder, OwnsKey, OnItsWay, Active, InProgress, Undecided
<1>3. FreeKeyInv /\ OwnInv
  BY DEF Init, FreeKeyInv, FailuresLeaveTheKeyFree, OwnInv, Told
<1> QED
  BY <1>1, <1>2, <1>3 DEF SInv

(* A recorded order stays one.                                             *)
LEMMA BeatenStays ==
    ASSUME IInv', NEW c \in Calls, Beaten(c), req'[c] = req[c],
           \A d \in Calls : trail[d] = "success" =>
              trail'[d] = "success" /\ req'[d] = req[d]
    PROVE  Beaten(c)'
<1>1. PICK d \in orders \ {c} : trail[d] = "success" /\ req[d].key = req[c].key
  BY DEF Beaten
<1>2. d \in Calls /\ trail'[d] = "success" /\ req'[d] = req[d]
  BY <1>1 DEF orders
<1>3. d \in orders'
  BY <1>2 DEF IInv, CallInv, DecisionInv, orders
<1> QED
  BY <1>1, <1>2, <1>3 DEF Beaten

(* Steps that write no row and give no answer.                             *)
LEMMA QuietStep ==
    ASSUME SInv, IInv', NEW a \in Calls,
           UNCHANGED <<trail, rowKey, reply>>,
           \A c \in Calls : \/ req'[c] = req[c]
                            \/ c = a /\ req[a] = None,
           \A c \in Calls : \/ verdict'[c] = verdict[c]
                            \/ c = a /\ pc[a] # "done"
    PROVE  FreeKeyInv' /\ OwnInv'
<1>1. \A c \in Calls : CallInv(c)
  BY DEF SInv, IInv
<1>2. req[a] = None => pc[a] = "idle" /\ trail[a] = "none"
  BY <1>1, RequestsAssumption DEF CallInv, ReadingInv
<1>3. \A c \in Calls : reply[c].status # "none" =>
         req'[c] = req[c] /\ verdict'[c] = verdict[c]
  BY <1>1, <1>2 DEF CallInv, ReplyInv
<1>4. \A d \in Calls : trail[d] = "success" => req'[d] = req[d]
  BY <1>2
<1>5. OwnInv'
  BY <1>3 DEF SInv, OwnInv, Told
<1>6. ASSUME "audit" \notin Faults, NEW c \in Calls,
             reply'[c].status = "error", verdict'[c] = "success"
      PROVE  Beaten(c)'
  <2>1. Beaten(c) /\ req'[c] = req[c]
    BY <1>3, <1>6 DEF SInv, FreeKeyInv, FailuresLeaveTheKeyFree, Beaten
  <2> QED
    BY <1>4, <2>1, BeatenStays
<1>7. FreeKeyInv'
  BY <1>6 DEF FreeKeyInv, FailuresLeaveTheKeyFree, Beaten
<1> QED
  BY <1>5, <1>7

-----------------------------------------------------------------------------
(* One call at a time.                                                     *)

LEMMA StartAlone ==
    ASSUME SInv, Serial, NEW a \in Calls, NEW r \in Requests, Start(a, r)
    PROVE  AloneInv'
<1> USE DEF Active, InProgress, Undecided
<1>1. TypeOK /\ (\A c \in Calls : CallInv(c)) /\ AloneInv
  BY DEF SInv, IInv
<1>2. /\ \A c \in Calls : ~Active(c)
      /\ pc[a] = "idle" /\ pc' = [pc EXCEPT ![a] = "check"]
      /\ req' = [req EXCEPT ![a] = r]
      /\ UNCHANGED <<wire, trail, rowKey, verdict>>
  BY DEF Start, Serial, GoTo
<1>3. wire[a] = "none" /\ trail[a] = "none"
  BY <1>1, <1>2 DEF CallInv, ReadingInv
<1>4. InOrder'
  BY <1>1, <1>2 DEF InOrder, TypeOK
<1>5. ASSUME NEW c \in Calls PROVE OwnsKey(c)' /\ OnItsWay(c)'
  <2>1. CASE c = a
    BY <1>1, <1>2, <1>3, <2>1 DEF OwnsKey, OnItsWay, TypeOK
  <2>2. CASE c # a
    BY <1>1, <1>2, <2>2 DEF OwnsKey, OnItsWay, TypeOK, AloneInv
  <2> QED
    BY <2>1, <2>2
<1> QED
  BY <1>4, <1>5 DEF AloneInv

(* A step of the one call in progress leaves the finished ones alone.      *)
LEMMA OthersRest ==
    ASSUME SInv, Serial, NEW a \in Calls, Active(a),
           \A c \in Calls \ {a} : /\ pc'[c] = pc[c] /\ req'[c] = req[c]
                                 /\ wire'[c] = wire[c] /\ trail'[c] = trail[c]
                                 /\ verdict'[c] = verdict[c],
           OwnsKey(a)', OnItsWay(a)'
    PROVE  AloneInv'
<1>1. \A c \in Calls : c # a => ~Active(c) /\ ~Active(c)'
  BY DEF SInv, AloneInv, InOrder, Active
<1>2. InOrder'
  BY <1>1 DEF InOrder
<1>3. ASSUME NEW c \in Calls, c # a PROVE OwnsKey(c)' /\ OnItsWay(c)'
  BY <1>1, <1>3 DEF SInv, AloneInv, OwnsKey, OnItsWay
<1> QED
  BY <1>2, <1>3 DEF AloneInv

LEMMA ReadsAlone ==
    ASSUME SInv, Serial, NEW a \in Calls,
           \/ CheckCachedResult(a) \/ ReadEligibility(a) \/ ReadSpend(a)
           \/ ReadCatalog(a) \/ ReadFails(a)
    PROVE  AloneInv'
<1> USE DEF Active, InProgress, Undecided, GoTo, Raise, Answer
<1>1. TypeOK /\ CallInv(a) /\ AloneInv /\ OwnsKey(a)
  BY DEF SInv, IInv, AloneInv
<1>2. /\ pc[a] \in Undecided /\ wire[a] = "none" /\ trail[a] = "none"
      /\ verdict[a] = "none"
  BY <1>1 DEF CallInv, ReadingInv, CheckCachedResult, ReadEligibility, ReadSpend,
              ReadCatalog, ReadFails
<1>3. UNCHANGED <<req, trail, rowKey>>
  BY DEF CheckCachedResult, ReadEligibility, ReadSpend, ReadCatalog, ReadFails
<1>4. /\ \A c \in Calls \ {a} : pc'[c] = pc[c] /\ wire'[c] = wire[c]
                               /\ verdict'[c] = verdict[c]
      /\ wire'[a] \in {"none", "sent"}
      /\ wire'[a] = "sent" => pc'[a] = "post"
  BY <1>1, <1>2 DEF TypeOK, CheckCachedResult, ReadEligibility, ReadSpend,
              ReadCatalog, ReadFails
<1>5. OnItsWay(a)'
  BY <1>4 DEF OnItsWay
<1>6. pc'[a] = "eligibility" /\ pc[a] = "check" /\ req[a].key # EmptyKey
        => OrderRows(req[a].key) = {}
  BY <1>1 DEF TypeOK, CheckCachedResult, ReadEligibility, ReadSpend, ReadCatalog,
              ReadFails, Cached
<1>7. pc[a] = "check" => pc'[a] \in {"eligibility", "done"}
  BY <1>1 DEF TypeOK, CheckCachedResult, ReadEligibility, ReadSpend, ReadCatalog,
              ReadFails
<1>8. OwnsKey(a)'
  BY <1>1, <1>2, <1>3, <1>6, <1>7 DEF OwnsKey, OrderRows, SuccessRows, Succeeded
<1> QED
  BY <1>2, <1>3, <1>4, <1>5, <1>8, OthersRest

LEMMA OrderAlone ==
    ASSUME SInv, Serial, NEW a \in Calls,
           \/ PostReturns(a) \/ PostFails(a) \/ RecordAudit(a)
           \/ AuditRaises(a) \/ Return(a)
    PROVE  AloneInv'
<1> USE DEF Active, InProgress, Undecided, GoTo, Raise, Answer
<1>1. TypeOK /\ CallInv(a) /\ AloneInv /\ OwnsKey(a) /\ OnItsWay(a)
  BY DEF SInv, IInv, AloneInv
<1>2. /\ pc[a] \in {"post", "audit", "return"}
      /\ pc'[a] # "check" /\ UNCHANGED <<req, wire>>
      /\ \A c \in Calls \ {a} : /\ pc'[c] = pc[c] /\ trail'[c] = trail[c]
                               /\ verdict'[c] = verdict[c]
                               /\ rowKey'[c] = rowKey[c]
  BY <1>1 DEF TypeOK, PostReturns, PostFails, RecordAudit, AuditRaises, Return, Insert
<1>3. OwnsKey(a)'
  BY <1>1, <1>2 DEF OwnsKey, OrderRows, SuccessRows, Succeeded
<1>4. trail[a] = "success" => trail'[a] = "success"
  BY <1>1 DEF TypeOK, CallInv, DecisionInv, PostReturns, PostFails, RecordAudit,
              AuditRaises, Return, Insert
(* Nothing of the call is left on the wire when it turns to the trail.     *)
<1>5. wire[a] = "sent" => pc'[a] = "post"
  BY <1>1 DEF OnItsWay, CallInv, DecisionInv, Serial, GivesUp, PostReturns,
              PostFails, RecordAudit, AuditRaises, Return
(* The index admits the row of a call that owns its key.                   *)
<1>6. ASSUME wire[a] = "created", req[a].key # EmptyKey
      PROVE  \/ pc'[a] = "post" \/ (pc'[a] = "audit" /\ verdict'[a] = "success")
             \/ trail'[a] = "success"
  <2>1. CASE PostReturns(a)
    BY <1>1, <2>1 DEF TypeOK, PostReturns
  <2>2. ~PostFails(a)
    BY <1>6 DEF PostFails, GivesUp, Serial
  <2>3. CASE RecordAudit(a)
    BY <1>1, <1>6, <2>3 DEF TypeOK, OnItsWay, RecordAudit, Insert, CallInv, DecisionInv
  <2>4. ~AuditRaises(a) \/ trail[a] = "success"
    <3>1. ASSUME pc[a] = "audit" PROVE trail[a] = "none" /\ OrderRows(req[a].key) = {}
      BY <1>1, <1>6, <3>1
         DEF OwnsKey, OrderRows, SuccessRows, CallInv, DecisionInv
    <3>2. pc[a] = "audit" => IndexAdmits(a)
      BY <1>1, <3>1, IndexGuardsOrders DEF SInv, CallInv, ReadingInv
    <3> QED
      BY <3>2 DEF AuditRaises, Serial
  <2>5. CASE Return(a)
    BY <1>1, <1>4, <1>6, <2>5 DEF OnItsWay, Return
  <2> QED
    BY <1>4, <2>1, <2>2, <2>3, <2>4, <2>5
<1>7. OnItsWay(a)'
  BY <1>2, <1>5, <1>6 DEF OnItsWay
<1> QED
  BY <1>2, <1>3, <1>7, OthersRest

LEMMA WireAlone ==
    ASSUME SInv, Serial, NEW a \in Calls, CreateOrder(a) \/ RejectOrder(a)
    PROVE  AloneInv'
<1> USE DEF Active, InProgress, Undecided
<1>1. TypeOK /\ AloneInv /\ OwnsKey(a) /\ OnItsWay(a)
  BY DEF SInv, IInv, AloneInv
<1>2. wire[a] = "sent" /\ UNCHANGED <<pc, req, trail, rowKey, verdict>>
  BY DEF CreateOrder, RejectOrder, handlerVars
<1>3. /\ \A c \in Calls \ {a} : wire'[c] = wire[c]
      /\ wire'[a] \in {"created", "rejected"}
  BY <1>1 DEF CreateOrder, RejectOrder, TypeOK
<1>4. OwnsKey(a)' /\ OnItsWay(a)'
  BY <1>1, <1>2, <1>3 DEF OwnsKey, OnItsWay, OrderRows, SuccessRows, Succeeded
<1> QED
  BY <1>1, <1>2, <1>3, <1>4, OthersRest DEF OnItsWay

LEMMA RestAlone ==
    ASSUME SInv, UNCHANGED <<pc, req, trail, rowKey, verdict, wire>>
    PROVE  AloneInv'
BY DEF SInv, AloneInv, InOrder, OwnsKey, OnItsWay, OrderRows, SuccessRows, Succeeded, Active

LEMMA NextAlone == SInv /\ [Next]_vars => AloneInv'
<1> SUFFICES ASSUME SInv, [Next]_vars, Serial PROVE AloneInv'
  BY DEF AloneInv
<1>1. ~Crash /\ \A a \in Calls : ~LateCommit(a)
  BY DEF Crash, LateCommit, Serial
<1>2. ASSUME NEW customer \in Customers, NEW row \in Rows, Refresh(customer, row)
      PROVE  AloneInv'
  BY <1>2, RestAlone DEF Refresh, handlerVars
<1>3. CASE UNCHANGED vars
  BY <1>3, RestAlone DEF vars
<1> QED
  BY <1>1, <1>2, <1>3, StartAlone, ReadsAlone, OrderAlone, WireAlone
     DEF Next, Handler

-----------------------------------------------------------------------------
(* Errors after an order, and the blank key.                               *)

LEMMA AnswerStep ==
    ASSUME SInv, IInv', NEW a \in Calls, NEW answer,
           UNCHANGED <<req, verdict, trail>>,
           reply' = [reply EXCEPT ![a] = answer],
           answer.status = "error" /\ verdict[a] = "success"
             /\ "audit" \notin Faults => Beaten(a),
           answer.status = "success" /\ req[a].key = EmptyKey => answer.order = a
    PROVE  FreeKeyInv' /\ OwnInv'
<1>1. \A c \in Calls : reply'[c] = IF c = a THEN answer ELSE reply[c]
  BY DEF SInv, IInv, TypeOK
<1>2. OwnInv'
  BY <1>1 DEF SInv, OwnInv, Told
<1>3. ASSUME "audit" \notin Faults, NEW c \in Calls,
             reply'[c].status = "error", verdict[c] = "success"
      PROVE  Beaten(c)'
  <2>1. Beaten(c)
    BY <1>1, <1>3 DEF SInv, FreeKeyInv, FailuresLeaveTheKeyFree, Beaten
  <2> QED
    BY <2>1, BeatenStays
<1>4. FreeKeyInv'
  BY <1>3 DEF FreeKeyInv, FailuresLeaveTheKeyFree, Beaten
<1> QED
  BY <1>2, <1>4

LEMMA CachedAnswer ==
    ASSUME SInv, IInv', NEW a \in Calls, CheckCachedResult(a)
    PROVE  FreeKeyInv' /\ OwnInv'
<1>1. CASE UNCHANGED reply
  BY <1>1, QuietStep DEF CheckCachedResult
<1>2. ASSUME NEW d \in Cached(req[a].key), Answer(a, "success", d)
      PROVE  FreeKeyInv' /\ OwnInv'
  <2>1. req[a].key # EmptyKey
    BY <1>2 DEF Cached
  <2> QED
    BY <1>2, <2>1, AnswerStep DEF CheckCachedResult, Answer
<1> QED
  BY <1>1, <1>2 DEF CheckCachedResult, GoTo

LEMMA ReadAnswers ==
    ASSUME SInv, IInv', NEW a \in Calls,
           ReadEligibility(a) \/ ReadSpend(a) \/ ReadCatalog(a) \/ ReadFails(a)
    PROVE  FreeKeyInv' /\ OwnInv'
<1>1. verdict[a] = "none" /\ pc[a] # "done"
  BY DEF SInv, IInv, CallInv, ReadingInv, Undecided, ReadEligibility, ReadSpend,
         ReadCatalog, ReadFails
<1>2. CASE UNCHANGED reply
  <2>1. \A c \in Calls : c # a => verdict'[c] = verdict[c]
    BY DEF SInv, IInv, TypeOK, ReadEligibility, ReadSpend, ReadCatalog, ReadFails
  <2>2. UNCHANGED <<req, trail, rowKey>>
    BY DEF ReadEligibility, ReadSpend, ReadCatalog, ReadFails
  <2> QED
    BY <1>1, <1>2, <2>1, <2>2, QuietStep
<1>3. CASE Raise(a) /\ UNCHANGED <<req, verdict, trail>>
  BY <1>1, <1>3, AnswerStep DEF Raise, Answer
<1> QED
  BY <1>2, <1>3 DEF ReadEligibility, ReadSpend, ReadCatalog, ReadFails, GoTo

LEMMA PostAnswers ==
    ASSUME SInv, IInv', NEW a \in Calls, PostReturns(a) \/ PostFails(a)
    PROVE  FreeKeyInv' /\ OwnInv'
<1>1. \A c \in Calls : c # a => verdict'[c] = verdict[c]
  BY DEF SInv, IInv, TypeOK, PostReturns, PostFails
<1> QED
  BY <1>1, QuietStep DEF PostReturns, PostFails, GoTo

LEMMA RecordStep ==
    ASSUME SInv, IInv', NEW a \in Calls, RecordAudit(a) \/ LateCommit(a)
    PROVE  FreeKeyInv' /\ OwnInv'
<1>1. UNCHANGED <<req, verdict, reply>> /\ trail[a] = "none"
      /\ \A c \in Calls : c # a => trail'[c] = trail[c]
  BY DEF SInv, IInv, TypeOK, CallInv, DecisionInv, RecordAudit, LateCommit, Insert,
         GoTo, handlerVars
<1>2. OwnInv'
  BY <1>1 DEF SInv, OwnInv, Told
<1>3. ASSUME "audit" \notin Faults, NEW c \in Calls,
             reply[c].status = "error", verdict[c] = "success"
      PROVE  Beaten(c)'
  <2>1. Beaten(c)
    BY <1>3 DEF SInv, FreeKeyInv, FailuresLeaveTheKeyFree, Beaten
  <2>2. \A d \in Calls : trail[d] = "success" => trail'[d] = "success"
    BY <1>1
  <2> QED
    BY <1>1, <2>1, <2>2, BeatenStays
<1>4. FreeKeyInv'
  BY <1>1, <1>3 DEF FreeKeyInv, FailuresLeaveTheKeyFree, Beaten
<1> QED
  BY <1>2, <1>4

(* Only the row of another order of its key makes the index refuse the row *)
(* of an order: refusals and failures carry no key.                        *)
LEMMA LastAnswers ==
    ASSUME SInv, IInv', NEW a \in Calls, AuditRaises(a) \/ Return(a)
    PROVE  FreeKeyInv' /\ OwnInv'
<1>1. CallInv(a)
  BY DEF SInv, IInv
<1>2. CASE AuditRaises(a)
  <2>1. ASSUME "audit" \notin Faults, verdict[a] = "success" PROVE Beaten(a)
    <3>1. pc[a] = "audit" /\ ~IndexAdmits(a) /\ trail[a] = "none"
      BY <1>1, <1>2, <2>1 DEF AuditRaises, CallInv, DecisionInv
    <3>2. PICK d \in OrderRows(req[a].key) : TRUE
      BY <1>1, <2>1, <3>1, IndexGuardsOrders DEF SInv, CallInv, ReadingInv
    <3>3. d \in orders /\ trail[d] = "success" /\ req[d].key = req[a].key
      BY <3>2 DEF SInv, IInv, CallInv, DecisionInv, OrderRows, SuccessRows, orders
    <3> QED
      BY <3>1, <3>3 DEF Beaten
  <2> QED
    BY <1>2, <2>1, AnswerStep DEF AuditRaises, Raise, Answer
<1>3. CASE Return(a)
  BY <1>1, <1>3, AnswerStep DEF Return, Raise, Answer, CallInv, DecisionInv
<1> QED
  BY <1>2, <1>3

LEMMA NextKeys == SInv /\ IInv' /\ [Next]_vars => FreeKeyInv' /\ OwnInv'
<1> SUFFICES ASSUME SInv, IInv', [Next]_vars PROVE FreeKeyInv' /\ OwnInv'
  OBVIOUS
<1>1. ASSUME NEW a \in Calls, NEW r \in Requests, Start(a, r)
      PROVE  FreeKeyInv' /\ OwnInv'
  <2>1. req[a] = None
    BY <1>1 DEF SInv, IInv, CallInv, ReadingInv, Start
  <2>2. \A c \in Calls : c # a => req'[c] = req[c]
    BY <1>1 DEF SInv, IInv, TypeOK, Start
  <2> QED
    BY <1>1, <2>1, <2>2, QuietStep DEF Start, GoTo
<1>2. ASSUME NEW a \in Calls, CreateOrder(a) \/ RejectOrder(a)
      PROVE  FreeKeyInv' /\ OwnInv'
  BY <1>2, QuietStep DEF CreateOrder, RejectOrder, handlerVars
<1>3. CASE UNCHANGED <<req, verdict, trail, reply>>
  <2>1. FreeKeyInv'
    <3>1. ASSUME "audit" \notin Faults, NEW c \in Calls,
                 reply[c].status = "error", verdict[c] = "success"
          PROVE  Beaten(c)'
      <4>1. Beaten(c)
        BY <3>1 DEF SInv, FreeKeyInv, FailuresLeaveTheKeyFree, Beaten
      <4> QED
        BY <1>3, <4>1, BeatenStays
    <3> QED
      BY <1>3, <3>1 DEF FreeKeyInv, FailuresLeaveTheKeyFree, Beaten
  <2> QED
    BY <1>3, <2>1 DEF SInv, OwnInv, Told
<1>4. (\E customer \in Customers, row \in Rows : Refresh(customer, row))
        \/ Crash \/ UNCHANGED vars
      => UNCHANGED <<req, verdict, trail, reply>>
  BY DEF Refresh, Crash, vars, handlerVars
<1> QED
  BY <1>1, <1>2, <1>3, <1>4, CachedAnswer, ReadAnswers, PostAnswers, RecordStep,
     LastAnswers DEF Next, Handler

LEMMA SInvHolds == Spec => []SInv
<1>1. SInv /\ [Next]_vars => SInv'
  BY NextIInv, NextAlone, NextKeys DEF SInv
<1> QED
  BY <1>1, InitSInv, PTL DEF Spec

-----------------------------------------------------------------------------
(* The theorems.                                                           *)

(* One call at a time: one key, one order.                                 *)
THEOREM SerialOneOrder == Spec => [](Serial => OneOrderPerKey)
<1>1. SInv => (Serial => OneOrderPerKey)
  <2> SUFFICES ASSUME SInv, Serial, NEW c \in orders, NEW d \in orders,
                      req[c].key = req[d].key, req[c].key # EmptyKey
               PROVE  c = d
    BY DEF OneOrderPerKey
  <2> USE DEF SInv, IInv, AloneInv, OnItsWay, orders
  <2>1. CASE trail[c] = "success" /\ trail[d] = "success"
    BY <2>1 DEF UniqueIndex
  <2>2. CASE trail[c] # "success"
    BY <2>2, RowsAreOrders
       DEF CallInv, OwnsKey, InOrder, Active, InProgress, Undecided
  <2>3. CASE trail[d] # "success"
    BY <2>3, RowsAreOrders
       DEF CallInv, OwnsKey, InOrder, Active, InProgress, Undecided
  <2> QED
    BY <2>1, <2>2, <2>3
<1> QED
  BY <1>1, SInvHolds, PTL

(* One call at a time: the order of a finished call is on the trail.       *)
THEOREM SerialOnRecord == Spec => [](Serial => NoOrphanOrder)
<1>1. SInv => (Serial => NoOrphanOrder)
  BY DEF SInv, AloneInv, OnItsWay, NoOrphanOrder, orders
<1> QED
  BY <1>1, SInvHolds, PTL

(* As long as the database does not fail, the call that made an order ends *)
(* in an error only if another order of its key is on the trail: no        *)
(* refusal and no failure takes the key, whatever overlaps.                *)
THEOREM KeyStaysFree ==
    Spec => []("audit" \notin Faults => FailuresLeaveTheKeyFree)
<1>1. SInv => ("audit" \notin Faults => FailuresLeaveTheKeyFree)
  BY DEF SInv, FreeKeyInv
<1> QED
  BY <1>1, SInvHolds, PTL

(* A success, cached or not, is an order for the request it answers, as    *)
(* long as one key stands for one request.                                 *)
THEOREM SuccessFits == Spec => []SuccessFitsRequest
<1>1. SInv => SuccessFitsRequest
  <2> SUFFICES ASSUME SInv, KeysIdentify, NEW c \in Calls, Told(c)
               PROVE  req[reply[c].order] = req[c]
    BY DEF SuccessFitsRequest
  <2>1. CallInv(c) /\ reply[c].order \in OrderRows(req[c].key)
    BY DEF SInv, IInv, CallInv, ReplyInv
  <2>2. CASE req[c].key = EmptyKey
    BY <2>2 DEF SInv, OwnInv
  <2>3. CASE req[c].key # EmptyKey
    <3> DEFINE d == reply[c].order
    <3>1. d \in Calls /\ trail[d] = "success" /\ req[d].key = req[c].key
      BY <2>1, RowsAreOrders DEF SInv, IInv, CallInv
    <3>2. pc[d] # "idle" /\ pc[c] # "idle"
      BY <2>1, <3>1 DEF SInv, IInv, CallInv, ReadingInv, ReplyInv, Told
    <3>3. req[d] \in Requests /\ req[c] \in Requests
      BY <3>1, <3>2 DEF SInv, IInv, CallInv, ReadingInv
    <3> QED
      BY <2>3, <3>1, <3>3 DEF KeysIdentify
  <2> QED
    BY <2>2, <2>3
<1> QED
  BY <1>1, SInvHolds, PTL

=============================================================================

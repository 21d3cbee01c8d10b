-------------------------- MODULE SubmitOrderProofs --------------------------
(***************************************************************************)
(* What SubmitOrder's runs show on small instances, for every set of       *)
(* calls, requests, keys, customers and prices, any of the failures, and   *)
(* with or without overlapping calls.                                      *)
(*                                                                         *)
(* The safety properties speak of answers and orders; none of them is      *)
(* inductive, for they say nothing of a call half way.  CallInv says what  *)
(* each point of the handler knows: what it has read was true during the   *)
(* call, what is on the wire passed the gate, what is on the trail is what *)
(* was decided.  UniqueIndex relates two calls, as the database's index    *)
(* does.                                                                   *)
(***************************************************************************)
EXTENDS SubmitOrder, TLAPS

(* Before the first read, and between two of them, nothing has happened    *)
(* outside the handler, and the customer's row of now is among those seen. *)
ReadingInv(c) ==
    /\ pc[c] = "idle" => req[c] = None
    /\ pc[c] # "idle" => req[c] \in Requests
    /\ pc[c] \in Undecided \cup {"idle"} =>
         verdict[c] = "none" /\ wire[c] = "none" /\ trail[c] = "none"
    /\ pc[c] \in Undecided /\ req[c].customer \in Customers =>
         customer360[req[c].customer] \in seen[c]
    /\ pc[c] \in {"spend", "catalog"} =>
         req[c].customer \in Customers /\ eligibility[c] \in seen[c]
    /\ pc[c] = "catalog" =>
         \E row \in seen[c] : spend[c] = row.spend_current_month

(* What is, or may yet arrive, on the wire was let through; what was       *)
(* refused deserved it.                                                    *)
GateInv(c) ==
    /\ wire[c] # "none" =>
         /\ \E row \in seen[c] : Eligible(row)
         /\ \E row \in seen[c] : ~AboveThreshold(row, req[c].offer)
    /\ verdict[c] = "blocked" => \E row \in seen[c] : ~Eligible(row)
    /\ verdict[c] = "escalated" =>
         \E row \in seen[c] : AboveThreshold(row, req[c].offer)

(* The decision, the POST and the row agree.                               *)
DecisionInv(c) ==
    /\ pc[c] = "post" => verdict[c] = "approved" /\ trail[c] = "none"
    /\ pc[c] = "audit" =>
         /\ verdict[c] \in {"blocked", "escalated", "failure", "success"}
         /\ trail[c] = "none"
    /\ pc[c] = "return" => trail[c] = verdict[c] /\ trail[c] # "none"
    /\ verdict[c] = "success" => wire[c] = "created"
    /\ verdict[c] \in {"none", "blocked", "escalated"} => wire[c] = "none"
    /\ trail[c] # "none" => trail[c] = verdict[c]
    /\ rowKey[c] = IF trail[c] = "success" THEN req[c].key ELSE None

(* Every answer is on the trail, and only a finished call has one.         *)
ReplyInv(c) ==
    /\ pc[c] # "done" => reply[c].status = "none"
    /\ reply[c].status # "success" => reply[c].order = None
    /\ Refused(c) => trail[c] = reply[c].status
    /\ Told(c) => /\ reply[c].order \in OrderRows(req[c].key)
                  /\ reply[c].order = c \/ wire[c] = "none"

CallInv(c) == ReadingInv(c) /\ GateInv(c) /\ DecisionInv(c) /\ ReplyInv(c)

UniqueIndex ==
    \A c, d \in Calls :
        trail[c] = "success" /\ trail[d] = "success" /\ req[c].key = req[d].key
            => c = d

IInv == TypeOK /\ (\A c \in Calls : CallInv(c)) /\ UniqueIndex

-----------------------------------------------------------------------------
(* The types.                                                              *)

LEMMA InitType == Init => TypeOK
BY DEF Init, TypeOK, Points, Verdicts, Statuses

LEMMA KeyType ==
    ASSUME NEW c \in Calls, req[c] \in Requests
    PROVE  KeyColumn(c) \in Keys \cup {None}
BY RequestsAssumption DEF KeyColumn

(* One step of one call keeps every variable in its type.                  *)
LEMMA CallType ==
    ASSUME IInv, NEW a \in Calls,
           (\E r \in Requests : Start(a, r)) \/ Handler(a)
             \/ CreateOrder(a) \/ RejectOrder(a) \/ LateCommit(a)
    PROVE  TypeOK'
<1> USE DEF TypeOK, Points, Verdicts, Statuses, Recordable
<1>0. TypeOK /\ CallInv(a)
  BY DEF IInv
<1>1. ASSUME NEW r \in Requests, Start(a, r) PROVE TypeOK'
  BY <1>0, <1>1 DEF Start, GoTo
<1>2. CASE CheckCachedResult(a)
  BY <1>0, <1>2
     DEF CheckCachedResult, GoTo, Answer, Cached, OrderRows, SuccessRows,
         Succeeded
<1>3. CASE ReadEligibility(a)
  <2>1. CASE req[a].customer \in Customers
    BY <1>0, <1>3, <2>1 DEF ReadEligibility, GoTo
  <2>2. CASE req[a].customer \notin Customers
    BY <1>0, <1>3, <2>2, SMTT(60) DEF ReadEligibility, Raise, Answer
  <2> QED
    BY <2>1, <2>2
<1>4. CASE ReadSpend(a)
  BY <1>0, <1>4, PricesAssumption DEF ReadSpend, GoTo, CallInv, ReadingInv
<1>5. CASE ReadCatalog(a)
  BY <1>0, <1>5 DEF ReadCatalog, GoTo, Gate
<1>6. CASE ReadFails(a)
  BY <1>0, <1>6 DEF ReadFails, Raise, Answer
<1>7. CASE PostReturns(a)
  BY <1>0, <1>7 DEF PostReturns, GoTo
<1>8. CASE PostFails(a)
  BY <1>0, <1>8 DEF PostFails, GoTo
<1>9. CASE RecordAudit(a)
  BY <1>0, <1>9, KeyType
     DEF RecordAudit, Insert, GoTo, CallInv, DecisionInv, ReadingInv
<1>10. CASE AuditRaises(a)
  BY <1>0, <1>10 DEF AuditRaises, Raise, Answer
<1>11. CASE Return(a)
  BY <1>0, <1>11, SMTT(30) DEF Return, Answer, Raise
<1>12. CASE CreateOrder(a)
  BY <1>0, <1>12 DEF CreateOrder, handlerVars
<1>13. CASE RejectOrder(a)
  BY <1>0, <1>13 DEF RejectOrder, handlerVars
<1>14. CASE LateCommit(a)
  BY <1>0, <1>14, KeyType DEF LateCommit, Insert, handlerVars, CallInv, ReadingInv
<1> QED
  BY <1>1, <1>2, <1>3, <1>4, <1>5, <1>6, <1>7, <1>8, <1>9, <1>10, <1>11, <1>12, <1>13,
     <1>14 DEF Handler

LEMMA TypeStep == IInv /\ [Next]_vars => TypeOK'
<1> SUFFICES ASSUME IInv, [Next]_vars PROVE TypeOK'
  OBVIOUS
<1>0. TypeOK
  BY DEF IInv
<1>1. CASE \E a \in Calls :
             (\E r \in Requests : Start(a, r)) \/ Handler(a)
               \/ CreateOrder(a) \/ RejectOrder(a) \/ LateCommit(a)
  BY <1>1, CallType
<1>2. ASSUME NEW customer \in Customers, NEW row \in Rows,
             Refresh(customer, row)
      PROVE  TypeOK'
  BY <1>0, <1>2 DEF Refresh, TypeOK, handlerVars
<1>3. CASE Crash
  BY <1>0, <1>3 DEF Crash, TypeOK, Points
<1>4. CASE UNCHANGED vars
  BY <1>0, <1>4 DEF TypeOK, vars
<1> QED
  BY <1>1, <1>2, <1>3, <1>4 DEF Next

-----------------------------------------------------------------------------
(* The index.  Only an order's row has a key, the key of its call, so an   *)
(* order's row is refused for another order's row and nothing else.        *)

LEMMA RowsAreOrders ==
    ASSUME \A c \in Calls : DecisionInv(c)
    PROVE  /\ \A k : OrderRows(k) =
                       {d \in Calls : trail[d] = "success" /\ req[d].key = k}
           /\ \A k : k # None => SuccessRows(k) = OrderRows(k)
<1>1. \A d \in Calls : rowKey[d] # None =>
         trail[d] = "success" /\ req[d].key = rowKey[d]
  BY DEF DecisionInv
<1>2. \A d \in Calls : trail[d] = "success" => rowKey[d] = req[d].key
  BY DEF DecisionInv
<1> QED
  BY <1>1, <1>2 DEF OrderRows, SuccessRows, Succeeded

LEMMA IndexGuardsOrders ==
    ASSUME IInv, NEW c \in Calls, req[c] \in Requests
    PROVE  /\ verdict[c] # "success" => IndexAdmits(c)
           /\ verdict[c] = "success" =>
                (IndexAdmits(c) <=> OrderRows(req[c].key) = {})
<1>1. req[c].key # None
  BY RequestsAssumption
<1>2. SuccessRows(req[c].key) = OrderRows(req[c].key)
  BY <1>1, RowsAreOrders DEF IInv, CallInv
<1> QED
  BY <1>1, <1>2 DEF IndexAdmits, KeyColumn, Succeeded

-----------------------------------------------------------------------------
(* The other calls.                                                        *)

(* Success rows only accumulate: no step of the call a that leaves the     *)
(* others alone takes one from the trail.                                  *)
LEMMA RowsStay ==
    ASSUME NEW a \in Calls, TypeOK, TypeOK',
           \A c \in Calls \ {a} : trail'[c] = trail[c] /\ rowKey'[c] = rowKey[c],
           trail[a] = "none" \/ (trail'[a] = trail[a] /\ rowKey'[a] = rowKey[a]),
           NEW k
    PROVE  OrderRows(k) \subseteq OrderRows(k)'
BY DEF OrderRows, SuccessRows, Succeeded, TypeOK

(* What holds of a call survives a step of another one.                    *)
LEMMA Frame ==
    ASSUME NEW a \in Calls, NEW c \in Calls \ {a}, IInv, TypeOK',
           customer360' = customer360,
           \A d \in Calls \ {a} :
             /\ pc'[d] = pc[d] /\ req'[d] = req[d] /\ spend'[d] = spend[d]
             /\ eligibility'[d] = eligibility[d] /\ verdict'[d] = verdict[d]
             /\ wire'[d] = wire[d] /\ trail'[d] = trail[d]
             /\ rowKey'[d] = rowKey[d]
             /\ reply'[d] = reply[d] /\ seen'[d] = seen[d],
           trail[a] = "none" \/ (trail'[a] = trail[a] /\ rowKey'[a] = rowKey[a])
    PROVE  CallInv(c)'
<1>0. TypeOK /\ CallInv(c)
  BY DEF IInv
<1>1. ReadingInv(c)'
  BY <1>0 DEF CallInv, ReadingInv
<1>2. GateInv(c)'
  BY <1>0 DEF CallInv, GateInv
<1>3. DecisionInv(c)'
  BY <1>0 DEF CallInv, DecisionInv
<1>4. ReplyInv(c)'
  <2>1. OrderRows(req[c].key) \subseteq OrderRows(req[c].key)'
    <3>1. ASSUME NEW k PROVE OrderRows(k) \subseteq OrderRows(k)'
      BY <1>0, RowsStay
    <3> QED
      BY <3>1 DEF OrderRows, SuccessRows, Succeeded
  <2>2. Told(c) => reply[c].order \in OrderRows(req[c].key)'
    BY <1>0, <2>1 DEF CallInv, ReplyInv
  <2> QED
    BY <1>0, <2>2 DEF CallInv, ReplyInv, Told, Refused
<1> QED
  BY <1>1, <1>2, <1>3, <1>4 DEF CallInv

-----------------------------------------------------------------------------
(* One step of the call itself, action by action: the conjuncts of its     *)
(* invariant that the action can disturb.                                  *)

LEMMA StartStep ==
    ASSUME NEW a \in Calls, NEW r \in Requests, IInv, TypeOK', Start(a, r)
    PROVE  (\A c \in Calls : CallInv(c)') /\ UniqueIndex'
<1> USE DEF Undecided
<1>0. TypeOK /\ CallInv(a) /\ UniqueIndex
  BY DEF IInv
<1>1. ReadingInv(a)'
  BY <1>0 DEF TypeOK, CallInv, ReadingInv, DecisionInv, Start, GoTo
<1>2. GateInv(a)'
  BY <1>0 DEF TypeOK, CallInv, GateInv, ReadingInv, Start, GoTo
<1>3. DecisionInv(a)'
  BY <1>0 DEF TypeOK, CallInv, DecisionInv, ReadingInv, ReplyInv, Start, GoTo
<1>4. ReplyInv(a)'
  BY <1>0
     DEF TypeOK, CallInv, ReplyInv, ReadingInv, DecisionInv, Start, GoTo,
         Told, Refused, OrderRows, SuccessRows, Succeeded
<1>5. \A c \in Calls \ {a} : CallInv(c)'
  BY Frame, <1>0 DEF TypeOK, CallInv, ReadingInv, DecisionInv, Start, GoTo
<1>6. UniqueIndex'
  BY <1>0 DEF TypeOK, UniqueIndex, CallInv, ReadingInv, DecisionInv, Start, GoTo
<1> QED
  BY <1>1, <1>2, <1>3, <1>4, <1>5, <1>6 DEF CallInv

LEMMA CheckCachedResultStep ==
    ASSUME NEW a \in Calls, IInv, TypeOK', CheckCachedResult(a)
    PROVE  (\A c \in Calls : CallInv(c)') /\ UniqueIndex'
<1> USE DEF Undecided
<1>0. TypeOK /\ CallInv(a) /\ UniqueIndex
  BY DEF IInv
<1>1. ReadingInv(a)'
  BY <1>0
     DEF TypeOK, CallInv, ReadingInv, DecisionInv, CheckCachedResult, GoTo,
         Answer, Cached
<1>2. GateInv(a)'
  BY <1>0
     DEF TypeOK, CallInv, GateInv, ReadingInv, CheckCachedResult, GoTo,
         Answer, Cached
<1>3. DecisionInv(a)'
  BY <1>0
     DEF TypeOK, CallInv, DecisionInv, ReadingInv, ReplyInv,
         CheckCachedResult, GoTo, Answer, Cached
<1>4. ReplyInv(a)'
  BY <1>0
     DEF TypeOK, CallInv, ReplyInv, ReadingInv, DecisionInv,
         CheckCachedResult, GoTo, Answer, Cached, Told, Refused, OrderRows,
         SuccessRows, Succeeded
<1>5. \A c \in Calls \ {a} : CallInv(c)'
  BY Frame, <1>0
     DEF TypeOK, CallInv, ReadingInv, DecisionInv, CheckCachedResult, GoTo,
         Answer, Cached
<1>6. UniqueIndex'
  BY <1>0
     DEF TypeOK, UniqueIndex, CallInv, ReadingInv, DecisionInv,
         CheckCachedResult, GoTo, Answer, Cached
<1> QED
  BY <1>1, <1>2, <1>3, <1>4, <1>5, <1>6 DEF CallInv

LEMMA ReadEligibilityStep ==
    ASSUME NEW a \in Calls, IInv, TypeOK', ReadEligibility(a)
    PROVE  (\A c \in Calls : CallInv(c)') /\ UniqueIndex'
<1> USE DEF Undecided
<1>0. TypeOK /\ CallInv(a) /\ UniqueIndex
  BY DEF IInv
<1>1. ReadingInv(a)'
  BY <1>0
     DEF TypeOK, CallInv, ReadingInv, DecisionInv, ReadEligibility, GoTo,
         Raise, Answer
<1>2. GateInv(a)'
  BY <1>0
     DEF TypeOK, CallInv, GateInv, ReadingInv, ReadEligibility, GoTo, Raise,
         Answer
<1>3. DecisionInv(a)'
  BY <1>0
     DEF TypeOK, CallInv, DecisionInv, ReadingInv, ReplyInv, ReadEligibility,
         GoTo, Raise, Answer
<1>4. ReplyInv(a)'
  BY <1>0
     DEF TypeOK, CallInv, ReplyInv, ReadingInv, DecisionInv, ReadEligibility,
         GoTo, Raise, Answer, Told, Refused, OrderRows, SuccessRows, Succeeded
<1>5. \A c \in Calls \ {a} : CallInv(c)'
  BY Frame, <1>0
     DEF TypeOK, CallInv, ReadingInv, DecisionInv, ReadEligibility, GoTo,
         Raise, Answer
<1>6. UniqueIndex'
  BY <1>0
     DEF TypeOK, UniqueIndex, CallInv, ReadingInv, DecisionInv,
         ReadEligibility, GoTo, Raise, Answer
<1> QED
  BY <1>1, <1>2, <1>3, <1>4, <1>5, <1>6 DEF CallInv

LEMMA ReadSpendStep ==
    ASSUME NEW a \in Calls, IInv, TypeOK', ReadSpend(a)
    PROVE  (\A c \in Calls : CallInv(c)') /\ UniqueIndex'
<1> USE DEF Undecided
<1>0. TypeOK /\ CallInv(a) /\ UniqueIndex
  BY DEF IInv
<1>1. ReadingInv(a)'
  BY <1>0 DEF TypeOK, CallInv, ReadingInv, DecisionInv, ReadSpend, GoTo
<1>2. GateInv(a)'
  BY <1>0 DEF TypeOK, CallInv, GateInv, ReadingInv, ReadSpend, GoTo
<1>3. DecisionInv(a)'
  BY <1>0 DEF TypeOK, CallInv, DecisionInv, ReadingInv, ReplyInv, ReadSpend, GoTo
<1>4. ReplyInv(a)'
  BY <1>0
     DEF TypeOK, CallInv, ReplyInv, ReadingInv, DecisionInv, ReadSpend, GoTo,
         Told, Refused, OrderRows, SuccessRows, Succeeded
<1>5. \A c \in Calls \ {a} : CallInv(c)'
  BY Frame, <1>0 DEF TypeOK, CallInv, ReadingInv, DecisionInv, ReadSpend, GoTo
<1>6. UniqueIndex'
  BY <1>0 DEF TypeOK, UniqueIndex, CallInv, ReadingInv, DecisionInv, ReadSpend, GoTo
<1> QED
  BY <1>1, <1>2, <1>3, <1>4, <1>5, <1>6 DEF CallInv

LEMMA RoundingIsExact ==
    ASSUME NEW current \in Int, NEW offer, Catalog[offer] \in Int,
           NEW error \in FloatError
    PROVE  Delta(current, offer, error) = Catalog[offer] - current
BY DEF Delta, Round, Ticks, FloatError

LEMMA ReadCatalogStep ==
    ASSUME NEW a \in Calls, IInv, TypeOK', ReadCatalog(a)
    PROVE  (\A c \in Calls : CallInv(c)') /\ UniqueIndex'
<1> USE DEF Undecided
<1>0. TypeOK /\ CallInv(a) /\ UniqueIndex
  BY DEF IInv
<1>1. ReadingInv(a)'
  BY <1>0 DEF TypeOK, CallInv, ReadingInv, DecisionInv, ReadCatalog, GoTo
<1>2. GateInv(a)'
  <2>1. PICK error \in FloatError :
          LET decision == Gate(eligibility[a], Delta(spend[a], req[a].offer, error))
          IN  /\ verdict' = [verdict EXCEPT ![a] = decision]
              /\ decision = "approved" \/ UNCHANGED wire
    BY DEF ReadCatalog
  <2>2. req[a] \in Requests /\ req[a].offer \in DOMAIN Catalog /\ UNCHANGED <<seen, req>>
    BY <1>0 DEF CallInv, ReadingInv, ReadCatalog
  <2>3. PICK row \in seen[a] : spend[a] = row.spend_current_month
    BY <1>0 DEF CallInv, ReadingInv, ReadCatalog
  <2>4. row \in Rows
    BY <1>0 DEF TypeOK
  <2>5. spend[a] \in Int /\ Catalog[req[a].offer] \in Int
    BY <2>2, <2>3, <2>4, PricesAssumption
  <2>6. Delta(spend[a], req[a].offer, error) = Catalog[req[a].offer] - spend[a]
    BY <2>5, RoundingIsExact
  <2>7. Delta(spend[a], req[a].offer, error) > AutoApproveDelta
          <=> AboveThreshold(row, req[a].offer)
    BY <2>3, <2>5, <2>6, PricesAssumption DEF AboveThreshold
  <2>8. eligibility[a] \in seen[a] /\ wire[a] = "none"
    BY <1>0 DEF CallInv, ReadingInv, ReadCatalog
  <2> DEFINE decision == Gate(eligibility[a], Delta(spend[a], req[a].offer, error))
  <2>9. /\ decision = "blocked" => ~Eligible(eligibility[a])
        /\ decision = "escalated" => AboveThreshold(row, req[a].offer)
        /\ decision = "approved" =>
             Eligible(eligibility[a]) /\ ~AboveThreshold(row, req[a].offer)
    BY <2>7 DEF Gate
  <2>10. verdict'[a] = decision /\ (decision = "approved" \/ wire'[a] = "none")
    BY <1>0, <2>1, <2>8 DEF TypeOK
  <2>11. AboveThreshold(row, req[a].offer)' <=> AboveThreshold(row, req[a].offer)
    BY <2>2 DEF AboveThreshold
  <2>12. \A r \in Rows : AboveThreshold(r, req'[a].offer)
                           <=> AboveThreshold(r, req[a].offer)
    BY <2>2
  <2> HIDE DEF decision
  <2> QED
    BY <2>2, <2>3, <2>8, <2>9, <2>10 DEF GateInv, AboveThreshold
<1>3. DecisionInv(a)'
  BY <1>0
     DEF TypeOK, CallInv, DecisionInv, ReadingInv, ReplyInv, ReadCatalog,
         GoTo, Gate
<1>4. ReplyInv(a)'
  BY <1>0
     DEF TypeOK, CallInv, ReplyInv, ReadingInv, DecisionInv, ReadCatalog,
         GoTo, Told, Refused, OrderRows, SuccessRows, Succeeded
<1>5. \A c \in Calls \ {a} : CallInv(c)'
  BY Frame, <1>0 DEF TypeOK, CallInv, ReadingInv, DecisionInv, ReadCatalog, GoTo
<1>6. UniqueIndex'
  BY <1>0
     DEF TypeOK, UniqueIndex, CallInv, ReadingInv, DecisionInv, ReadCatalog,
         GoTo
<1> QED
  BY <1>1, <1>2, <1>3, <1>4, <1>5, <1>6 DEF CallInv

LEMMA ReadFailsStep ==
    ASSUME NEW a \in Calls, IInv, TypeOK', ReadFails(a)
    PROVE  (\A c \in Calls : CallInv(c)') /\ UniqueIndex'
<1> USE DEF Undecided
<1>0. TypeOK /\ CallInv(a) /\ UniqueIndex
  BY DEF IInv
<1>1. ReadingInv(a)'
  BY <1>0 DEF TypeOK, CallInv, ReadingInv, DecisionInv, ReadFails, Raise, Answer
<1>2. GateInv(a)'
  BY <1>0 DEF TypeOK, CallInv, GateInv, ReadingInv, ReadFails, Raise, Answer
<1>3. DecisionInv(a)'
  BY <1>0
     DEF TypeOK, CallInv, DecisionInv, ReadingInv, ReplyInv, ReadFails, Raise,
         Answer
<1>4. ReplyInv(a)'
  BY <1>0
     DEF TypeOK, CallInv, ReplyInv, ReadingInv, DecisionInv, ReadFails, Raise,
         Answer, Told, Refused, OrderRows, SuccessRows, Succeeded
<1>5. \A c \in Calls \ {a} : CallInv(c)'
  BY Frame, <1>0
     DEF TypeOK, CallInv, ReadingInv, DecisionInv, ReadFails, Raise, Answer
<1>6. UniqueIndex'
  BY <1>0
     DEF TypeOK, UniqueIndex, CallInv, ReadingInv, DecisionInv, ReadFails,
         Raise, Answer
<1> QED
  BY <1>1, <1>2, <1>3, <1>4, <1>5, <1>6 DEF CallInv

LEMMA PostReturnsStep ==
    ASSUME NEW a \in Calls, IInv, TypeOK', PostReturns(a)
    PROVE  (\A c \in Calls : CallInv(c)') /\ UniqueIndex'
<1> USE DEF Undecided
<1>0. TypeOK /\ CallInv(a) /\ UniqueIndex
  BY DEF IInv
<1>1. ReadingInv(a)'
  BY <1>0 DEF TypeOK, CallInv, ReadingInv, DecisionInv, PostReturns, GoTo
<1>2. GateInv(a)'
  BY <1>0 DEF TypeOK, CallInv, GateInv, ReadingInv, PostReturns, GoTo
<1>3. DecisionInv(a)'
  BY <1>0 DEF TypeOK, CallInv, DecisionInv, ReadingInv, ReplyInv, PostReturns, GoTo
<1>4. ReplyInv(a)'
  BY <1>0
     DEF TypeOK, CallInv, ReplyInv, ReadingInv, DecisionInv, PostReturns,
         GoTo, Told, Refused, OrderRows, SuccessRows, Succeeded
<1>5. \A c \in Calls \ {a} : CallInv(c)'
  BY Frame, <1>0 DEF TypeOK, CallInv, ReadingInv, DecisionInv, PostReturns, GoTo
<1>6. UniqueIndex'
  BY <1>0
     DEF TypeOK, UniqueIndex, CallInv, ReadingInv, DecisionInv, PostReturns,
         GoTo
<1> QED
  BY <1>1, <1>2, <1>3, <1>4, <1>5, <1>6 DEF CallInv

LEMMA PostFailsStep ==
    ASSUME NEW a \in Calls, IInv, TypeOK', PostFails(a)
    PROVE  (\A c \in Calls : CallInv(c)') /\ UniqueIndex'
<1> USE DEF Undecided
<1>0. TypeOK /\ CallInv(a) /\ UniqueIndex
  BY DEF IInv
<1>1. ReadingInv(a)'
  BY <1>0 DEF TypeOK, CallInv, ReadingInv, DecisionInv, PostFails, GoTo
<1>2. GateInv(a)'
  BY <1>0 DEF TypeOK, CallInv, GateInv, ReadingInv, PostFails, GoTo
<1>3. DecisionInv(a)'
  BY <1>0 DEF TypeOK, CallInv, DecisionInv, ReadingInv, ReplyInv, PostFails, GoTo
<1>4. ReplyInv(a)'
  BY <1>0
     DEF TypeOK, CallInv, ReplyInv, ReadingInv, DecisionInv, PostFails, GoTo,
         Told, Refused, OrderRows, SuccessRows, Succeeded
<1>5. \A c \in Calls \ {a} : CallInv(c)'
  BY Frame, <1>0 DEF TypeOK, CallInv, ReadingInv, DecisionInv, PostFails, GoTo
<1>6. UniqueIndex'
  BY <1>0 DEF TypeOK, UniqueIndex, CallInv, ReadingInv, DecisionInv, PostFails, GoTo
<1> QED
  BY <1>1, <1>2, <1>3, <1>4, <1>5, <1>6 DEF CallInv

(* What a committed row changes, on time or late.                          *)
LEMMA InsertStep ==
    ASSUME NEW a \in Calls, IInv, TypeOK', Insert(a), req[a] \in Requests,
           trail[a] = "none", verdict[a] \in Recordable,
           UNCHANGED <<req, verdict, wire>>
    PROVE  /\ UniqueIndex'
           /\ trail'[a] = verdict[a]
           /\ rowKey'[a] = IF trail'[a] = "success" THEN req'[a].key ELSE None
           /\ \A c \in Calls \ {a} : trail'[c] = trail[c] /\ rowKey'[c] = rowKey[c]
<1>0. TypeOK /\ UniqueIndex /\ \A c \in Calls : DecisionInv(c)
  BY DEF IInv, CallInv
<1>1. /\ trail'[a] = verdict[a] /\ rowKey'[a] = KeyColumn(a)
      /\ \A c \in Calls \ {a} : trail'[c] = trail[c] /\ rowKey'[c] = rowKey[c]
  BY <1>0 DEF TypeOK, Insert
<1>2. verdict[a] = "success" =>
         \A d \in Calls : trail[d] = "success" => req[d].key # req[a].key
  BY <1>0, IndexGuardsOrders, RowsAreOrders DEF Insert
<1>3. UniqueIndex'
  BY <1>0, <1>1, <1>2 DEF UniqueIndex
<1> QED
  BY <1>1, <1>3 DEF KeyColumn

LEMMA RecordAuditStep ==
    ASSUME NEW a \in Calls, IInv, TypeOK', RecordAudit(a)
    PROVE  (\A c \in Calls : CallInv(c)') /\ UniqueIndex'
<1> USE DEF Undecided
<1>0. TypeOK /\ CallInv(a) /\ UniqueIndex
  BY DEF IInv
<1>1. /\ pc[a] = "audit" /\ trail[a] = "none" /\ verdict[a] \in Recordable
      /\ req[a] \in Requests /\ Insert(a) /\ UNCHANGED <<req, verdict, wire>>
  BY <1>0 DEF RecordAudit, CallInv, DecisionInv, ReadingInv, Recordable
<1>2. /\ UniqueIndex'
      /\ trail'[a] = verdict[a]
      /\ rowKey'[a] = IF trail'[a] = "success" THEN req'[a].key ELSE None
      /\ \A c \in Calls \ {a} : trail'[c] = trail[c] /\ rowKey'[c] = rowKey[c]
  BY <1>1, InsertStep
<1>3. ReadingInv(a)'
  BY <1>0 DEF TypeOK, CallInv, ReadingInv, RecordAudit, GoTo
<1>4. GateInv(a)'
  BY <1>0 DEF CallInv, GateInv, RecordAudit, GoTo, AboveThreshold
<1>5. DecisionInv(a)'
  BY <1>0, <1>1, <1>2
     DEF TypeOK, CallInv, DecisionInv, RecordAudit, GoTo, Recordable
<1>6. ReplyInv(a)'
  BY <1>0, <1>1 DEF TypeOK, CallInv, ReplyInv, RecordAudit, GoTo, Told, Refused
<1>7. \A c \in Calls \ {a} : CallInv(c)'
  BY Frame, <1>0, <1>1, <1>2 DEF TypeOK, RecordAudit, GoTo
<1> QED
  BY <1>2, <1>3, <1>4, <1>5, <1>6, <1>7 DEF CallInv

(* Its caller has been answered with an error, or is dead.                 *)
LEMMA LateCommitStep ==
    ASSUME NEW a \in Calls, IInv, TypeOK', LateCommit(a)
    PROVE  (\A c \in Calls : CallInv(c)') /\ UniqueIndex'
<1> USE DEF Undecided
<1>0. TypeOK /\ CallInv(a) /\ UniqueIndex
  BY DEF IInv
<1>1. /\ pc[a] \in {"done", "dead"} /\ trail[a] = "none" /\ verdict[a] \in Recordable
      /\ req[a] \in Requests /\ Insert(a)
      /\ UNCHANGED <<customer360, pc, req, eligibility, spend, verdict, reply, wire, seen>>
  BY <1>0 DEF LateCommit, handlerVars, CallInv, ReadingInv
<1>2. /\ UniqueIndex'
      /\ trail'[a] = verdict[a]
      /\ rowKey'[a] = IF trail'[a] = "success" THEN req'[a].key ELSE None
      /\ \A c \in Calls \ {a} : trail'[c] = trail[c] /\ rowKey'[c] = rowKey[c]
  BY <1>1, InsertStep
<1>3. ReadingInv(a)'
  BY <1>0, <1>1 DEF CallInv, ReadingInv
<1>4. GateInv(a)'
  BY <1>0, <1>1 DEF CallInv, GateInv, AboveThreshold
<1>5. DecisionInv(a)'
  BY <1>0, <1>1, <1>2 DEF CallInv, DecisionInv, Recordable
<1>6. ReplyInv(a)'
  <2>1. ~Refused(a)
    BY <1>0, <1>1 DEF CallInv, ReplyInv, Refused
  <2>2. OrderRows(req[a].key) \subseteq OrderRows(req[a].key)'
    <3>1. ASSUME NEW k PROVE OrderRows(k) \subseteq OrderRows(k)'
      BY <1>0, <1>1, <1>2, RowsStay
    <3> QED
      BY <1>1, <3>1 DEF OrderRows, SuccessRows
  <2> QED
    BY <1>0, <1>1, <2>1, <2>2 DEF CallInv, ReplyInv, Told, Refused
<1>7. \A c \in Calls \ {a} : CallInv(c)'
  BY Frame, <1>0, <1>1, <1>2
<1> QED
  BY <1>2, <1>3, <1>4, <1>5, <1>6, <1>7 DEF CallInv

LEMMA AuditRaisesStep ==
    ASSUME NEW a \in Calls, IInv, TypeOK', AuditRaises(a)
    PROVE  (\A c \in Calls : CallInv(c)') /\ UniqueIndex'
<1> USE DEF Undecided
<1>0. TypeOK /\ CallInv(a) /\ UniqueIndex
  BY DEF IInv
<1>1. ReadingInv(a)'
  BY <1>0 DEF TypeOK, CallInv, ReadingInv, DecisionInv, AuditRaises, Raise, Answer
<1>2. GateInv(a)'
  BY <1>0 DEF TypeOK, CallInv, GateInv, ReadingInv, AuditRaises, Raise, Answer
<1>3. DecisionInv(a)'
  BY <1>0
     DEF TypeOK, CallInv, DecisionInv, ReadingInv, ReplyInv, AuditRaises,
         Raise, Answer
<1>4. ReplyInv(a)'
  BY <1>0
     DEF TypeOK, CallInv, ReplyInv, ReadingInv, DecisionInv, AuditRaises,
         Raise, Answer, Told, Refused, OrderRows, SuccessRows, Succeeded
<1>5. \A c \in Calls \ {a} : CallInv(c)'
  BY Frame, <1>0
     DEF TypeOK, CallInv, ReadingInv, DecisionInv, AuditRaises, Raise, Answer
<1>6. UniqueIndex'
  BY <1>0
     DEF TypeOK, UniqueIndex, CallInv, ReadingInv, DecisionInv, AuditRaises,
         Raise, Answer
<1> QED
  BY <1>1, <1>2, <1>3, <1>4, <1>5, <1>6 DEF CallInv

LEMMA ReturnStep ==
    ASSUME NEW a \in Calls, IInv, TypeOK', Return(a)
    PROVE  (\A c \in Calls : CallInv(c)') /\ UniqueIndex'
<1> USE DEF Undecided
<1>0. TypeOK /\ CallInv(a) /\ UniqueIndex
  BY DEF IInv
<1>1. ReadingInv(a)'
  BY <1>0 DEF TypeOK, CallInv, ReadingInv, DecisionInv, Return, Answer, Raise
<1>2. GateInv(a)'
  BY <1>0 DEF TypeOK, CallInv, GateInv, ReadingInv, Return, Answer, Raise
<1>3. DecisionInv(a)'
  BY <1>0
     DEF TypeOK, CallInv, DecisionInv, ReadingInv, ReplyInv, Return, Answer,
         Raise
<1>4. ReplyInv(a)'
  BY <1>0
     DEF TypeOK, CallInv, ReplyInv, ReadingInv, DecisionInv, Return, Answer,
         Raise, Told, Refused, OrderRows, SuccessRows, Succeeded
<1>5. \A c \in Calls \ {a} : CallInv(c)'
  BY Frame, <1>0 DEF TypeOK, CallInv, ReadingInv, DecisionInv, Return, Answer, Raise
<1>6. UniqueIndex'
  BY <1>0
     DEF TypeOK, UniqueIndex, CallInv, ReadingInv, DecisionInv, Return,
         Answer, Raise
<1> QED
  BY <1>1, <1>2, <1>3, <1>4, <1>5, <1>6 DEF CallInv

LEMMA CreateOrderStep ==
    ASSUME NEW a \in Calls, IInv, TypeOK', CreateOrder(a)
    PROVE  (\A c \in Calls : CallInv(c)') /\ UniqueIndex'
<1> USE DEF Undecided
<1>0. TypeOK /\ CallInv(a) /\ UniqueIndex
  BY DEF IInv
<1>1. ReadingInv(a)'
  BY <1>0 DEF TypeOK, CallInv, ReadingInv, DecisionInv, CreateOrder, handlerVars
<1>2. GateInv(a)'
  BY <1>0 DEF TypeOK, CallInv, GateInv, ReadingInv, CreateOrder, handlerVars
<1>3. DecisionInv(a)'
  BY <1>0
     DEF TypeOK, CallInv, DecisionInv, ReadingInv, ReplyInv, CreateOrder,
         handlerVars
<1>4. ReplyInv(a)'
  BY <1>0
     DEF TypeOK, CallInv, ReplyInv, ReadingInv, DecisionInv, CreateOrder,
         handlerVars, Told, Refused, OrderRows, SuccessRows, Succeeded
<1>5. \A c \in Calls \ {a} : CallInv(c)'
  BY Frame, <1>0
     DEF TypeOK, CallInv, ReadingInv, DecisionInv, CreateOrder, handlerVars
<1>6. UniqueIndex'
  BY <1>0
     DEF TypeOK, UniqueIndex, CallInv, ReadingInv, DecisionInv, CreateOrder,
         handlerVars
<1> QED
  BY <1>1, <1>2, <1>3, <1>4, <1>5, <1>6 DEF CallInv

LEMMA RejectOrderStep ==
    ASSUME NEW a \in Calls, IInv, TypeOK', RejectOrder(a)
    PROVE  (\A c \in Calls : CallInv(c)') /\ UniqueIndex'
<1> USE DEF Undecided
<1>0. TypeOK /\ CallInv(a) /\ UniqueIndex
  BY DEF IInv
<1>1. ReadingInv(a)'
  BY <1>0 DEF TypeOK, CallInv, ReadingInv, DecisionInv, RejectOrder, handlerVars
<1>2. GateInv(a)'
  BY <1>0 DEF TypeOK, CallInv, GateInv, ReadingInv, RejectOrder, handlerVars
<1>3. DecisionInv(a)'
  BY <1>0
     DEF TypeOK, CallInv, DecisionInv, ReadingInv, ReplyInv, RejectOrder,
         handlerVars
<1>4. ReplyInv(a)'
  BY <1>0
     DEF TypeOK, CallInv, ReplyInv, ReadingInv, DecisionInv, RejectOrder,
         handlerVars, Told, Refused, OrderRows, SuccessRows, Succeeded
<1>5. \A c \in Calls \ {a} : CallInv(c)'
  BY Frame, <1>0
     DEF TypeOK, CallInv, ReadingInv, DecisionInv, RejectOrder, handlerVars
<1>6. UniqueIndex'
  BY <1>0
     DEF TypeOK, UniqueIndex, CallInv, ReadingInv, DecisionInv, RejectOrder,
         handlerVars
<1> QED
  BY <1>1, <1>2, <1>3, <1>4, <1>5, <1>6 DEF CallInv

-----------------------------------------------------------------------------
(* The environment, and the invariant.                                    *)

(* A new row of customer_360 joins the rows seen by every call that is     *)
(* still reading, and touches nothing else.                                *)
LEMMA RefreshStep ==
    ASSUME IInv, TypeOK', NEW customer \in Customers, NEW row \in Rows,
           Refresh(customer, row)
    PROVE  (\A c \in Calls : CallInv(c)') /\ UniqueIndex'
<1> USE DEF Refresh, handlerVars
<1>1. ASSUME NEW c \in Calls PROVE CallInv(c)'
  <2>0. TypeOK /\ CallInv(c)
    BY DEF IInv
  <2>1. ReadingInv(c)'
    BY <2>0 DEF TypeOK, CallInv, ReadingInv, Undecided
  <2>2. GateInv(c)'
    <3>1. seen[c] \subseteq seen'[c]
      BY <2>0 DEF TypeOK
    <3> QED
      BY <2>0, <3>1 DEF TypeOK, CallInv, GateInv
  <2>3. DecisionInv(c)'
    BY <2>0 DEF CallInv, DecisionInv
  <2>4. ReplyInv(c)'
    BY <2>0 DEF CallInv, ReplyInv, Told, Refused, OrderRows, SuccessRows, Succeeded
  <2> QED
    BY <2>1, <2>2, <2>3, <2>4 DEF CallInv
<1>2. UniqueIndex'
  BY DEF IInv, UniqueIndex
<1> QED
  BY <1>1, <1>2

(* A crash ends the calls in progress where they stand.                    *)
LEMMA CrashStep ==
    ASSUME IInv, TypeOK', Crash
    PROVE  (\A c \in Calls : CallInv(c)') /\ UniqueIndex'
<1> USE DEF Crash
<1>1. ASSUME NEW c \in Calls PROVE CallInv(c)'
  <2>0. TypeOK /\ CallInv(c)
    BY DEF IInv
  <2>1. ReadingInv(c)'
    BY <2>0 DEF TypeOK, CallInv, ReadingInv, Undecided, Active, InProgress
  <2>2. GateInv(c)'
    BY <2>0 DEF CallInv, GateInv
  <2>3. DecisionInv(c)'
    BY <2>0 DEF TypeOK, CallInv, DecisionInv
  <2>4. ReplyInv(c)'
    BY <2>0
       DEF TypeOK, CallInv, ReplyInv, Told, Refused, OrderRows, SuccessRows,
           Succeeded,
                Active, InProgress, Undecided
  <2> QED
    BY <2>1, <2>2, <2>3, <2>4 DEF CallInv
<1>2. UniqueIndex'
  BY DEF IInv, UniqueIndex
<1> QED
  BY <1>1, <1>2

LEMMA InitIInv == Init => IInv
<1> SUFFICES ASSUME Init PROVE IInv
  OBVIOUS
<1>1. TypeOK
  BY InitType
<1>2. ASSUME NEW c \in Calls PROVE CallInv(c)
  BY DEF Init, CallInv, ReadingInv, GateInv, DecisionInv, ReplyInv, Refused,
         Told, Undecided
<1>3. UniqueIndex
  BY DEF Init, UniqueIndex
<1> QED
  BY <1>1, <1>2, <1>3 DEF IInv

LEMMA NextIInv == IInv /\ [Next]_vars => IInv'
<1> SUFFICES ASSUME IInv, [Next]_vars PROVE IInv'
  OBVIOUS
<1>0. TypeOK'
  BY TypeStep
<1>1. CASE \E a \in Calls : \E r \in Requests : Start(a, r)
  BY <1>0, <1>1, StartStep DEF IInv
<1>2. CASE \E a \in Calls : CheckCachedResult(a)
  BY <1>0, <1>2, CheckCachedResultStep DEF IInv
<1>3. CASE \E a \in Calls : ReadEligibility(a)
  BY <1>0, <1>3, ReadEligibilityStep DEF IInv
<1>4. CASE \E a \in Calls : ReadSpend(a)
  BY <1>0, <1>4, ReadSpendStep DEF IInv
<1>5. CASE \E a \in Calls : ReadCatalog(a)
  BY <1>0, <1>5, ReadCatalogStep DEF IInv
<1>6. CASE \E a \in Calls : ReadFails(a)
  BY <1>0, <1>6, ReadFailsStep DEF IInv
<1>7. CASE \E a \in Calls : PostReturns(a)
  BY <1>0, <1>7, PostReturnsStep DEF IInv
<1>8. CASE \E a \in Calls : PostFails(a)
  BY <1>0, <1>8, PostFailsStep DEF IInv
<1>9. CASE \E a \in Calls : RecordAudit(a)
  BY <1>0, <1>9, RecordAuditStep DEF IInv
<1>10. CASE \E a \in Calls : AuditRaises(a)
  BY <1>0, <1>10, AuditRaisesStep DEF IInv
<1>11. CASE \E a \in Calls : Return(a)
  BY <1>0, <1>11, ReturnStep DEF IInv
<1>12. CASE \E a \in Calls : CreateOrder(a)
  BY <1>0, <1>12, CreateOrderStep DEF IInv
<1>13. CASE \E a \in Calls : RejectOrder(a)
  BY <1>0, <1>13, RejectOrderStep DEF IInv
<1>17. CASE \E a \in Calls : LateCommit(a)
  BY <1>0, <1>17, LateCommitStep DEF IInv
<1>14. CASE \E customer \in Customers, row \in Rows : Refresh(customer, row)
  BY <1>0, <1>14, RefreshStep DEF IInv
<1>15. CASE Crash
  BY <1>0, <1>15, CrashStep DEF IInv
<1>16. CASE UNCHANGED vars
  BY <1>0, <1>16 DEF vars, IInv, UniqueIndex, CallInv, ReadingInv, GateInv,
                   DecisionInv, ReplyInv, Refused, Told, OrderRows, SuccessRows, Succeeded
<1> QED
  BY <1>1, <1>2, <1>3, <1>4, <1>5, <1>6, <1>7, <1>8, <1>9,
     <1>10, <1>11, <1>12, <1>13, <1>14, <1>15, <1>16, <1>17
     DEF Next, Handler

(* The inductive invariant holds in every reachable state.                 *)
THEOREM Invariance == Spec => []IInv
BY InitIInv, NextIInv, PTL DEF Spec

(* Every variable of the write path keeps its type.                        *)
THEOREM TypeCorrect == Spec => []TypeOK
<1>1. IInv => TypeOK
  BY DEF IInv
<1> QED
  BY <1>1, Invariance, PTL

(* All callers of a key that are told "success" are told the same order,   *)
(* for any number of calls, overlapping or not, whatever fails.            *)
THEOREM Agreement == Spec => []SameKeySameOrder
<1>1. IInv => SameKeySameOrder
  <2> SUFFICES ASSUME IInv, NEW c \in Calls, NEW d \in Calls,
                      Told(c), Told(d), req[c].key = req[d].key
               PROVE  reply[c].order = reply[d].order
    BY DEF SameKeySameOrder
  <2>1. /\ reply[c].order \in OrderRows(req[c].key)
        /\ reply[d].order \in OrderRows(req[c].key)
    BY DEF IInv, CallInv, ReplyInv
  <2> QED
    BY <2>1, RowsAreOrders DEF IInv, CallInv, UniqueIndex
<1> QED
  BY <1>1, Invariance, PTL

(* A caller told "success" is told of an order that exists, its own if it  *)
(* made one.                                                               *)
THEOREM RealSuccess == Spec => []SuccessIsReal
<1>1. IInv => SuccessIsReal
  <2> SUFFICES ASSUME IInv, NEW c \in Calls, Told(c)
               PROVE  /\ reply[c].order \in orders
                      /\ c \in orders => reply[c].order = c
    BY DEF SuccessIsReal
  <2>1. /\ reply[c].order \in OrderRows(req[c].key)
        /\ reply[c].order = c \/ wire[c] = "none"
    BY DEF IInv, CallInv, ReplyInv
  <2>2. ASSUME NEW d \in OrderRows(req[c].key) PROVE d \in orders
    BY <2>2
       DEF IInv, CallInv, DecisionInv, OrderRows, SuccessRows, Succeeded,
           orders
  <2> QED
    BY <2>1, <2>2 DEF orders
<1> QED
  BY <1>1, Invariance, PTL

(* No answer runs ahead of the trail.                                      *)
THEOREM OnRecord == Spec => []AnswersAreOnRecord
<1>1. IInv => AnswersAreOnRecord
  BY DEF IInv, CallInv, ReplyInv, AnswersAreOnRecord
<1> QED
  BY <1>1, Invariance, PTL

(* A refused call has not ordered and never will.                          *)
THEOREM RefusalIsFinal == Spec => []RefusedNeverOrders
<1>1. IInv => RefusedNeverOrders
  BY DEF IInv, CallInv, ReplyInv, DecisionInv, RefusedNeverOrders, Refused
<1> QED
  BY <1>1, Invariance, PTL

(* Every order passed the gate on rows its customer had during the call.   *)
THEOREM GateHolds == Spec => []OrdersPassedTheGate
<1>1. IInv => OrdersPassedTheGate
  BY DEF IInv, CallInv, GateInv, OrdersPassedTheGate, orders
<1> QED
  BY <1>1, Invariance, PTL

(* Every refusal on the trail had its reason in a row its customer had     *)
(* during the call, whatever the float's error.                            *)
THEOREM RefusalsDeserved == Spec => []RefusalsAreDeserved
<1>1. IInv => RefusalsAreDeserved
  BY DEF IInv, CallInv, GateInv, DecisionInv, RefusalsAreDeserved
<1> QED
  BY <1>1, Invariance, PTL

-----------------------------------------------------------------------------
(* The write path implements OrderPromise, step by step.                 *)

(* The record of a key is the call that has its only success row.          *)
LEMMA RecordOfKey ==
    ASSUME IInv, NEW key
    PROVE  /\ OrderRows(key) = {} => Recorded(key) = None
           /\ \A d \in OrderRows(key) : Recorded(key) = d
<1>1. \A d, e \in OrderRows(key) : d = e
  BY RowsAreOrders DEF IInv, CallInv, UniqueIndex
<1> QED
  BY <1>1 DEF Recorded, OneOf

(* Steps that leave keys, orders, trail and answers alone.                 *)
LEMMA Stutter ==
    ASSUME req' = req, trail' = trail, rowKey' = rowKey, orders' = orders,
           \A c \in Calls : reply'[c].order = reply[c].order,
           Refusals' = Refusals
    PROVE  UNCHANGED Promise!promiseVars
<1>1. \A key : OrderRows(key)' = OrderRows(key)
  BY DEF OrderRows, SuccessRows, Succeeded
<1>2. \A key : Recorded(key)' = Recorded(key)
  BY <1>1 DEF Recorded
<1> QED
  BY <1>2 DEF Promise!promiseVars

LEMMA StartAsks ==
    ASSUME IInv, NEW a \in Calls, NEW r \in Requests, Start(a, r)
    PROVE  Promise!Ask(a, r.key)
<1>0. TypeOK /\ CallInv(a)
  BY DEF IInv
<1>1. /\ req[a] = None /\ trail[a] = "none"
      /\ req' = [req EXCEPT ![a] = r]
      /\ UNCHANGED <<trail, rowKey, wire, reply>>
  BY <1>0 DEF CallInv, ReadingInv, Start, GoTo
<1>2. \A key : OrderRows(key)' = OrderRows(key)
  BY <1>0, <1>1 DEF TypeOK, OrderRows, SuccessRows, Succeeded
<1>3. \A key : Recorded(key)' = Recorded(key)
  BY <1>2 DEF Recorded
<1>4. r # None
  BY RequestsAssumption
<1>5. orders' = orders /\ Refusals' = Refusals
  BY <1>1 DEF orders, Refusals, Refused
<1> QED
  BY <1>0, <1>1, <1>3, <1>4, <1>5 DEF TypeOK, Promise!Ask

LEMMA CreateOrderExecutes ==
    ASSUME IInv, NEW a \in Calls, CreateOrder(a)
    PROVE  Promise!Execute(a)
<1>0. TypeOK /\ CallInv(a)
  BY DEF IInv
<1>1. /\ wire[a] = "sent" /\ wire' = [wire EXCEPT ![a] = "created"]
      /\ UNCHANGED <<req, trail, rowKey, reply>>
  BY DEF CreateOrder, handlerVars
<1>2. req[a] \in Requests /\ verdict[a] # "success"
  BY <1>0, <1>1 DEF TypeOK, Points, CallInv, ReadingInv, DecisionInv, Undecided
<1>3. req[a] # None /\ req[a].key # None
  BY <1>2, RequestsAssumption
<1>4. ~Told(a)
  BY <1>0, <1>1, <1>2
     DEF CallInv, ReplyInv, DecisionInv, OrderRows, SuccessRows, Succeeded
<1>5. reply[a].order = None /\ a \notin Refusals /\ Refusals' = Refusals
  <2>1. trail[a] \notin {"blocked", "escalated"}
    BY <1>0, <1>1 DEF CallInv, DecisionInv
  <2> QED
    BY <1>0, <1>1, <1>4, <2>1 DEF CallInv, ReplyInv, Told, Refused, Refusals
<1>6. a \notin orders /\ orders' = orders \cup {a}
  BY <1>0, <1>1 DEF TypeOK, orders
<1>7. \A key : Recorded(key)' = Recorded(key)
  BY <1>1 DEF Recorded, OrderRows, SuccessRows, Succeeded
<1> QED
  BY <1>1, <1>3, <1>5, <1>6, <1>7 DEF Promise!Execute, Promise!Open

(* A refusal or a failure leaves the promise where it was; a success row   *)
(* is the record of its key, which was free: the index admitted it.        *)
LEMMA InsertRecords ==
    ASSUME IInv, IInv', NEW a \in Calls, Insert(a), trail[a] = "none",
           verdict[a] \in Recordable, req[a] \in Requests,
           UNCHANGED <<req, verdict, wire>>, Refusals' = Refusals,
           \A c \in Calls : reply'[c].order = reply[c].order
    PROVE  Promise!Record(a) \/ UNCHANGED Promise!promiseVars
<1>0. TypeOK /\ CallInv(a)
  BY DEF IInv
<1>1. /\ trail'[a] = verdict[a]
      /\ rowKey'[a] = IF trail'[a] = "success" THEN req'[a].key ELSE None
      /\ \A c \in Calls \ {a} : trail'[c] = trail[c] /\ rowKey'[c] = rowKey[c]
  BY InsertStep DEF IInv
<1>2. req[a] # None /\ req[a].key \in Keys
  BY RequestsAssumption
<1>3. orders' = orders
  BY DEF orders
<1>4. [c \in Calls |-> reply[c].order]' = [c \in Calls |-> reply[c].order]
  OBVIOUS
<1>5. CASE verdict[a] = "success"
  <2>1. OrderRows(req[a].key) = {} /\ a \in orders
    BY <1>0, <1>5, IndexGuardsOrders DEF Insert, CallInv, DecisionInv, orders
  <2>2. Recorded(req[a].key) = None
    BY <2>1 DEF Recorded, OneOf
  <2>3. a \in OrderRows(req[a].key)'
    BY <1>1, <1>5 DEF OrderRows, SuccessRows, Succeeded
  <2>4. Recorded(req[a].key)' = a
    <3>1. UniqueIndex' /\ \A c \in Calls : DecisionInv(c)'
      BY DEF IInv, CallInv
    <3>2. \A d \in OrderRows(req[a].key)' :
             d \in Calls /\ trail'[d] = "success" /\ rowKey'[d] = req[a].key
      BY DEF OrderRows, SuccessRows
    <3>3. \A d \in OrderRows(req[a].key)' : d = a
      BY <1>1, <1>5, <3>1, <3>2 DEF UniqueIndex, DecisionInv
    <3> QED
      BY <2>3, <3>3 DEF Recorded, OneOf
  <2>5. ASSUME NEW key, key # req[a].key PROVE Recorded(key)' = Recorded(key)
    <3>1. OrderRows(key)' = OrderRows(key)
      BY <1>1, <1>5, <2>5 DEF OrderRows, SuccessRows
    <3> QED
      BY <3>1 DEF Recorded
  <2>6. [key \in Keys |-> Recorded(key)]'
          = [[key \in Keys |-> Recorded(key)] EXCEPT ![req[a].key] = a]
    BY <1>2, <2>4, <2>5
  <2> QED
    BY <1>2, <1>3, <1>4, <2>1, <2>2, <2>6 DEF Promise!Record
<1>6. CASE verdict[a] # "success"
  <2>1. \A key : OrderRows(key)' = OrderRows(key)
    BY <1>1, <1>6 DEF OrderRows, SuccessRows
  <2>2. \A key : Recorded(key)' = Recorded(key)
    BY <2>1 DEF Recorded
  <2> QED
    BY <1>3, <1>4, <2>2 DEF Promise!promiseVars
<1> QED
  BY <1>5, <1>6

LEMMA RowsRecord ==
    ASSUME IInv, IInv', NEW a \in Calls, RecordAudit(a) \/ LateCommit(a)
    PROVE  Promise!Record(a) \/ UNCHANGED Promise!promiseVars
<1>1. CallInv(a)
  BY DEF IInv
<1>2. /\ Insert(a) /\ trail[a] = "none" /\ verdict[a] \in Recordable
      /\ req[a] \in Requests /\ UNCHANGED <<req, verdict, wire, reply>>
  BY <1>1 DEF RecordAudit, LateCommit, GoTo, handlerVars, CallInv, DecisionInv,
              ReadingInv, Recordable
<1>3. Refusals' = Refusals
  BY <1>2 DEF Refusals, Refused
<1> QED
  BY <1>2, <1>3, InsertRecords

(* Whoever is answered "success" with the order d of its key's success row *)
(* is told what the promise has on record.                                 *)
LEMMA AnswerTells ==
    ASSUME IInv, NEW a \in Calls, pc[a] # "idle", pc[a] # "done",
           NEW d \in OrderRows(req[a].key), Answer(a, "success", d),
           d = a \/ wire[a] = "none",
           UNCHANGED <<req, trail, rowKey, wire>>
    PROVE  Promise!Tell(a)
<1>0. TypeOK /\ CallInv(a) /\ UniqueIndex
  BY DEF IInv
<1>1. req[a] \in Requests
  BY <1>0 DEF CallInv, ReadingInv
<1>2. req[a] # None /\ req[a].key \in Keys /\ req[a].key # None /\ d # None
  BY <1>1, RequestsAssumption DEF OrderRows, SuccessRows, Succeeded
<1>3. Recorded(req[a].key) = d
  BY <1>0, RecordOfKey
<1>4. reply[a].order = None
  BY <1>0 DEF CallInv, ReplyInv
<1>5. d = a \/ a \notin orders
  BY DEF orders
<1>6. [c \in Calls |-> reply[c].order]'
        = [[c \in Calls |-> reply[c].order] EXCEPT ![a] = d]
  BY <1>0 DEF TypeOK, Answer
<1>7. orders' = orders
  BY DEF orders
<1>8. \A key : Recorded(key)' = Recorded(key)
  BY DEF Recorded, OrderRows, SuccessRows, Succeeded
<1>9. a \notin Refusals /\ Refusals' = Refusals
  BY <1>0 DEF TypeOK, CallInv, ReplyInv, Answer, Refusals, Refused
<1> QED
  BY <1>2, <1>3, <1>4, <1>5, <1>6, <1>7, <1>8, <1>9 DEF Promise!Tell, Promise!Open

(* A refusal is one for the promise: no order, and none to come.           *)
LEMMA RefusalRefuses ==
    ASSUME IInv, NEW a \in Calls, pc[a] = "return",
           NEW status \in {"blocked", "escalated"}, verdict[a] = status,
           Answer(a, status, None), UNCHANGED <<req, trail, rowKey, wire>>
    PROVE  Promise!Refuse(a)
<1>0. TypeOK /\ CallInv(a)
  BY DEF IInv
<1>1. req[a] \in Requests
  BY <1>0 DEF CallInv, ReadingInv
<1>2. req[a] # None /\ req[a].key # None
  BY <1>1, RequestsAssumption
<1>3. reply[a].order = None /\ a \notin Refusals
  BY <1>0 DEF CallInv, ReplyInv, Refusals, Refused
<1>4. a \notin orders /\ orders' = orders
  BY <1>0 DEF CallInv, DecisionInv, orders
<1>5. [c \in Calls |-> reply[c].order]' = [c \in Calls |-> reply[c].order]
  BY <1>0, <1>3 DEF TypeOK, Answer
<1>6. Refusals' = Refusals \cup {a}
  BY <1>0 DEF TypeOK, Answer, Refusals, Refused
<1>7. \A key : Recorded(key)' = Recorded(key)
  BY DEF Recorded, OrderRows, SuccessRows, Succeeded
<1> QED
  BY <1>2, <1>3, <1>4, <1>5, <1>6, <1>7 DEF Promise!Refuse, Promise!Open

LEMMA InitRefines == Init => Promise!Init
<1> SUFFICES ASSUME Init PROVE Promise!Init
  OBVIOUS
<1>1. orders = {}
  BY DEF Init, orders
<1>2. \A key : Recorded(key) = None
  BY DEF Init, Recorded, OneOf, OrderRows, SuccessRows, Succeeded
<1>3. Refusals = {}
  BY DEF Init, Refusals, Refused
<1> QED
  BY <1>1, <1>2, <1>3 DEF Init, Promise!Init

(* Every other step of a call is invisible to its caller.                  *)
LEMMA OtherSteps ==
    ASSUME IInv, NEW a \in Calls,
           \/ ReadEligibility(a) \/ ReadSpend(a) \/ ReadCatalog(a)
           \/ ReadFails(a) \/ PostReturns(a) \/ PostFails(a)
           \/ AuditRaises(a) \/ RejectOrder(a)
    PROVE  UNCHANGED Promise!promiseVars
<1>0. TypeOK /\ CallInv(a)
  BY DEF IInv
<1> USE DEF GoTo, Raise, Answer, handlerVars
<1>1. req' = req /\ trail' = trail /\ rowKey' = rowKey
  BY DEF ReadEligibility, ReadSpend, ReadCatalog, ReadFails, PostReturns,
         PostFails, AuditRaises, RejectOrder
<1>2. orders' = orders
  <2>1. CASE RejectOrder(a)
    BY <1>0, <2>1 DEF RejectOrder, TypeOK, orders
  <2>2. CASE ReadCatalog(a)
    BY <1>0, <2>2 DEF ReadCatalog, TypeOK, orders, CallInv, ReadingInv, Undecided
  <2>3. CASE ~RejectOrder(a) /\ ~ReadCatalog(a)
    BY <2>3 DEF ReadEligibility, ReadSpend, ReadFails, PostReturns, PostFails,
                AuditRaises, orders
  <2> QED
    BY <2>1, <2>2, <2>3
<1>3. \/ reply' = reply
      \/ pc[a] # "done" /\ reply' = [reply EXCEPT
                                       ![a] = [status |-> "error", order |-> None]]
  BY DEF ReadEligibility, ReadSpend, ReadCatalog, ReadFails, PostReturns,
         PostFails, AuditRaises, RejectOrder, Undecided
<1>4. \A c \in Calls : reply'[c].order = reply[c].order
  BY <1>0, <1>3 DEF TypeOK, CallInv, ReplyInv
<1>5. Refusals' = Refusals
  BY <1>0, <1>3 DEF TypeOK, CallInv, ReplyInv, Refusals, Refused
<1> QED
  BY <1>1, <1>2, <1>4, <1>5, Stutter

LEMMA NextRefines ==
    IInv /\ IInv' /\ [Next]_vars => [Promise!Next]_Promise!promiseVars
<1> SUFFICES ASSUME IInv, IInv', [Next]_vars
             PROVE  Promise!Next \/ UNCHANGED Promise!promiseVars
  OBVIOUS
<1>0. TypeOK
  BY DEF IInv
<1>1. ASSUME NEW a \in Calls, NEW r \in Requests, Start(a, r)
      PROVE  Promise!Next
  <2>1. r.key \in Keys
    BY RequestsAssumption
  <2> QED
    BY <1>1, <2>1, StartAsks DEF Promise!Next
<1>2. ASSUME NEW a \in Calls, CheckCachedResult(a)
      PROVE  Promise!Next \/ UNCHANGED Promise!promiseVars
  <2>0. CallInv(a)
    BY DEF IInv
  <2>1. pc[a] = "check" /\ wire[a] = "none" /\ UNCHANGED <<req, trail, rowKey, wire>>
    BY <1>2, <2>0 DEF CheckCachedResult, CallInv, ReadingInv, Undecided
  <2>2. CASE GoTo(a, "eligibility")
    BY <2>1, <2>2, Stutter DEF GoTo, orders, Refusals, Refused
  <2>3. ASSUME NEW d \in Cached(req[a].key), Answer(a, "success", d)
        PROVE  Promise!Next
    <3>1. d \in OrderRows(req[a].key)
      BY <2>3 DEF Cached
    <3>2. Promise!Tell(a)
      BY <2>1, <2>3, <3>1, AnswerTells
    <3> QED
      BY <3>2 DEF Promise!Next
  <2> QED
    BY <1>2, <2>2, <2>3 DEF CheckCachedResult
<1>3. ASSUME NEW a \in Calls, CreateOrder(a) PROVE Promise!Next
  BY <1>3, CreateOrderExecutes DEF Promise!Next
<1>4. ASSUME NEW a \in Calls, RecordAudit(a) \/ LateCommit(a)
      PROVE  Promise!Next \/ UNCHANGED Promise!promiseVars
  BY <1>4, RowsRecord DEF Promise!Next
<1>5. ASSUME NEW a \in Calls, Return(a)
      PROVE  Promise!Next \/ UNCHANGED Promise!promiseVars
  <2>0. CallInv(a)
    BY DEF IInv
  <2>1. pc[a] = "return" /\ UNCHANGED <<req, trail, rowKey, wire>>
    BY <1>5 DEF Return
  <2>2. CASE verdict[a] = "success"
    <3>1. a \in OrderRows(req[a].key) /\ Answer(a, "success", a)
      BY <1>5, <2>0, <2>1, <2>2
         DEF Return, CallInv, DecisionInv, OrderRows, SuccessRows, Succeeded
    <3>2. Promise!Tell(a)
      BY <2>1, <3>1, AnswerTells
    <3> QED
      BY <3>2 DEF Promise!Next
  <2>3. CASE verdict[a] = "failure"
    <3>1. Answer(a, "error", None)
      BY <1>5, <2>3 DEF Return, Raise
    <3>2. \A c \in Calls : reply'[c].order = reply[c].order
      BY <1>0, <2>0, <2>1, <3>1 DEF Answer, TypeOK, CallInv, ReplyInv
    <3>3. Refusals' = Refusals
      BY <1>0, <2>0, <2>1, <3>1
         DEF Answer, TypeOK, CallInv, ReplyInv, Refusals, Refused
    <3> QED
      BY <2>1, <3>2, <3>3, Stutter DEF orders
  <2>4. CASE verdict[a] \in {"blocked", "escalated"}
    <3>1. Answer(a, verdict[a], None)
      BY <1>5, <2>4 DEF Return
    <3>2. Promise!Refuse(a)
      BY <2>1, <2>4, <3>1, RefusalRefuses
    <3> QED
      BY <3>2 DEF Promise!Next
  <2> QED
    BY <1>5, <2>2, <2>3, <2>4 DEF Return
<1>6. CASE \/ \E customer \in Customers, row \in Rows : Refresh(customer, row)
           \/ Crash \/ UNCHANGED vars
  <2>1. UNCHANGED <<req, trail, rowKey, wire, reply>>
    BY <1>6 DEF Refresh, Crash, vars, handlerVars
  <2> QED
    BY <2>1, Stutter DEF orders, Refusals, Refused
<1> QED
  BY <1>1, <1>2, <1>3, <1>4, <1>5, <1>6, OtherSteps DEF Next, Handler

(* The write path keeps the promise of OrderPromise: what its callers can  *)
(* see is a behaviour of that specification.                               *)
THEOREM Refinement == Spec => PromiseKept
BY InitRefines, NextRefines, Invariance, PTL DEF Spec, PromiseKept, Promise!Spec

-----------------------------------------------------------------------------
(* What the promise entails, of the code that keeps it.                    *)

Entailed ==
    INSTANCE OrderPromiseProofs WITH
        asked    <- [c \in Calls |-> IF req[c] = None THEN None ELSE req[c].key],
        executed <- orders,
        recorded <- [key \in Keys |-> Recorded(key)],
        told     <- [c \in Calls |-> reply[c].order],
        refused  <- Refusals

LEMMA SamePromise == PromiseKept => Entailed!Spec
BY DEF PromiseKept, Promise!Spec, Promise!Init, Promise!Next, Promise!promiseVars,
       Promise!Ask, Promise!Execute, Promise!Record, Promise!Tell, Promise!Refuse,
       Promise!Open,
       Entailed!Spec, Entailed!Init, Entailed!Next, Entailed!promiseVars,
       Entailed!Ask, Entailed!Execute, Entailed!Record, Entailed!Tell,
       Entailed!Refuse, Entailed!Open

(* The order on record under a key is never exchanged for another, also    *)
(* when calls race for the key or retry after a timeout, and no call is    *)
(* answered twice: what an agent was told stays true.                      *)
THEOREM RecordStands == Spec => Promise!NothingWithdrawn
<1>1. Entailed!NothingWithdrawn => Promise!NothingWithdrawn
  BY DEF Entailed!NothingWithdrawn, Promise!NothingWithdrawn, Entailed!Kept,
         Promise!Kept, Entailed!promiseVars, Promise!promiseVars
<1> QED
  BY <1>1, Refinement, SamePromise, Entailed!PromiseLasts, PTL

(* What is on record under a key was ordered under that key.               *)
THEOREM RecordFitsKey == Spec => []Promise!RecordsAreReal
<1>1. Entailed!RecordsAreReal => Promise!RecordsAreReal
  BY DEF Entailed!RecordsAreReal, Promise!RecordsAreReal
<1> QED
  BY <1>1, Refinement, SamePromise, Entailed!PromiseIsReal, PTL

=============================================================================

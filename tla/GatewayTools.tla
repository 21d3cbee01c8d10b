---------------------------- MODULE GatewayTools ----------------------------
(***************************************************************************)
(* The Gateway's tools but for submit_order (SubmitOrder has it): the      *)
(* three reads of the governed views (snowflake_tools.py), get_catalog and *)
(* propose_order (bluemarble_tools.py) and create_case with its            *)
(* compensation flag (salesforce_tools.py), over the CRM's POST /Case      *)
(* (mock-salesforce).  Every await of a handler is a step.                 *)
(*                                                                         *)
(* A call writes at most one row of the audit trail and posts at most one  *)
(* case; both are named by the call.  What a read returns is left out:     *)
(* only whether the customer and the offer exist matters to what happens.  *)
(***************************************************************************)
CONSTANTS
    Calls,      \* tool calls
    Known,      \* customers of the governed views
    Offered,    \* offers of the catalogue
    Faults,     \* failures this instance allows, see FaultKinds
    None

FaultKinds ==
    { "read",      \* a database or catalogue read raises
      "post",      \* the CRM refuses a case it should have opened
      "timeout",   \* the POST's 10 s client timeout expires first
      "audit",     \* the INSERT of the audit row raises
      "crash",     \* the gateway process dies
      "submit" }   \* a submit_order call ends in an error (AgentRuns)

ASSUME FaultsAssumption == Faults \subseteq FaultKinds

VARIABLES
    call,      \* the arguments each call was made with
    at,        \* where each call is
    wire,      \* its POST /Case
    verdict,   \* the outcome_status it will record
    trail,     \* the outcome_status of its row
    answer     \* what its caller got

toolVars == <<call, at, wire, verdict, trail, answer>>

Views == {"get_customer_usage", "get_customer_profile", "get_order_eligibility"}
Points == {"idle", "view", "catalog", "post", "audit", "return", "done", "dead"}
Outcomes == {"none", "success", "failure", "partial_failure"}

Active(c) == at[c] \notin {"idle", "done", "dead"}
Ended(c) == at[c] \in {"done", "dead"}

ToolsInit ==
    /\ call = [c \in Calls |-> None]
    /\ at = [c \in Calls |-> "idle"]
    /\ wire = [c \in Calls |-> "none"]
    /\ verdict = [c \in Calls |-> "none"]
    /\ trail = [c \in Calls |-> "none"]
    /\ answer = [c \in Calls |-> "none"]

(* A read of one customer or offer, and a case.  A case is for a customer   *)
(* too, whom neither create_case nor the CRM looks up: left out.           *)
Read(tool, customer, offer) ==
    [tool |-> tool, customer |-> customer, offer |-> offer]

Case(forceFail, isCompensation, order) ==
    [tool |-> "create_case", force_fail |-> forceFail,
     is_compensation |-> isCompensation, correlation_order_id |-> order]

FirstAwait(tool) ==
    CASE tool \in Views \cup {"propose_order"} -> "view"
      [] tool = "get_catalog" -> "catalog"
      [] tool = "create_case" -> "post"

GoTo(c, point) == at' = [at EXCEPT ![c] = point]

(* tools/call: create_case posts before its first await.                   *)
Call(c, args) ==
    /\ at[c] = "idle"
    /\ call' = [call EXCEPT ![c] = args]
    /\ GoTo(c, FirstAwait(args.tool))
    /\ wire' = IF args.tool = "create_case" THEN [wire EXCEPT ![c] = "sent"]
                                            ELSE wire
    /\ UNCHANGED <<verdict, trail, answer>>

Decide(c, outcome) ==
    /\ verdict' = [verdict EXCEPT ![c] = outcome]
    /\ GoTo(c, "audit")
    /\ UNCHANGED answer

(* Mutant: the outcome is handed to the agent as it is. *)
MutantRaise(c) ==
    /\ GoTo(c, "done")
    /\ answer' = [answer EXCEPT ![c] = "failure"]
    /\ verdict' = [verdict EXCEPT ![c] = "none"]

(* An exception leaves the handler: the agent gets an error.               *)
Raise(c) ==
    /\ GoTo(c, "done")
    /\ answer' = [answer EXCEPT ![c] = "error"]
    /\ verdict' = [verdict EXCEPT ![c] = "none"]

(* fetchrow: an unknown customer is put on record by the three reads and   *)
(* not by propose_order (_current_and_target_price).                       *)
ReadView(c) ==
    /\ at[c] = "view"
    /\ LET known == call[c].customer \in Known IN
        \/ call[c].tool \in Views /\ Decide(c, IF known THEN "success" ELSE "failure")
        \/ /\ call[c].tool = "propose_order" /\ known
           /\ GoTo(c, "catalog") /\ UNCHANGED <<verdict, answer>>
        \/ call[c].tool = "propose_order" /\ ~known /\ Raise(c)
    /\ UNCHANGED <<call, wire, trail>>

ReadCatalog(c) ==
    /\ at[c] = "catalog"
    /\ IF call[c].tool = "propose_order" /\ call[c].offer \notin Offered
         THEN Raise(c) ELSE Decide(c, "success")
    /\ UNCHANGED <<call, wire, trail>>

ReadFails(c) ==
    /\ at[c] \in {"view", "catalog"} /\ "read" \in Faults
    /\ Raise(c)
    /\ UNCHANGED <<call, wire, trail>>

(* Mutant: raise_for_status is forgotten. *)
MutantPostReturns(c) ==
    /\ at[c] = "post" /\ wire[c] \in {"opened", "refused"}
    /\ Decide(c, IF call[c].is_compensation THEN "partial_failure" ELSE "success")
    /\ UNCHANGED <<call, wire, trail>>

PostReturns(c) ==
    /\ at[c] = "post" /\ wire[c] = "opened"
    /\ Decide(c, IF call[c].is_compensation THEN "partial_failure" ELSE "success")
    /\ UNCHANGED <<call, wire, trail>>

(* Mutant: no client timeout. *)
MutantPostFails(c) ==
    /\ at[c] = "post" /\ wire[c] = "refused"
    /\ Decide(c, "failure")
    /\ UNCHANGED <<call, wire, trail>>

(* The CRM refuses, or the client gives up whatever becomes of the POST.   *)
PostFails(c) ==
    /\ at[c] = "post"
    /\ wire[c] = "refused" \/ "timeout" \in Faults
    /\ Decide(c, "failure")
    /\ UNCHANGED <<call, wire, trail>>

RecordAudit(c) ==
    /\ at[c] = "audit"
    /\ trail' = [trail EXCEPT ![c] = verdict[c]]
    /\ GoTo(c, "return")
    /\ UNCHANGED <<call, wire, verdict, answer>>

(* Mutant: a failure to record is swallowed. *)
MutantAuditRaises(c) ==
    /\ at[c] = "audit" /\ "audit" \in Faults
    /\ GoTo(c, "return")
    /\ UNCHANGED <<call, wire, verdict, trail, answer>>

(* The INSERT fails, or its acknowledgement is lost.                       *)
AuditRaises(c) ==
    /\ at[c] \in {"audit", "return"} /\ "audit" \in Faults
    /\ Raise(c)
    /\ UNCHANGED <<call, wire, trail>>

Return(c) ==
    /\ at[c] = "return"
    /\ \/ verdict[c] = "failure" /\ Raise(c)
       \/ /\ verdict[c] # "failure"
          /\ GoTo(c, "done")
          /\ answer' = [answer EXCEPT ![c] = "result"]
          /\ verdict' = [verdict EXCEPT ![c] = "none"]
    /\ UNCHANGED <<call, wire, trail>>

(* mock-salesforce create_case: a row of salesforce.case per POST, however *)
(* late and however often, unless force_fail is set.                       *)
OpenCase(c) ==
    /\ wire[c] = "sent" /\ ~call[c].force_fail
    /\ wire' = [wire EXCEPT ![c] = "opened"]
    /\ UNCHANGED <<call, at, verdict, trail, answer>>

RefuseCase(c) ==
    /\ wire[c] = "sent" /\ (call[c].force_fail \/ "post" \in Faults)
    /\ wire' = [wire EXCEPT ![c] = "refused"]
    /\ UNCHANGED <<call, at, verdict, trail, answer>>

(* Every tool call in progress breaks off; its caller gets an error.       *)
GatewayCrash ==
    /\ "crash" \in Faults
    /\ \E c \in Calls : Active(c)
    /\ at' = [c \in Calls |-> IF Active(c) THEN "dead" ELSE at[c]]
    /\ answer' = [c \in Calls |-> IF Active(c) THEN "error" ELSE answer[c]]
    /\ verdict' = [c \in Calls |-> "none"]
    /\ UNCHANGED <<call, wire, trail>>

Handler(c) ==
    \/ ReadView(c) \/ ReadCatalog(c) \/ ReadFails(c)
    \/ PostReturns(c) \/ PostFails(c)
    \/ RecordAudit(c) \/ AuditRaises(c) \/ Return(c)

ToolsNext ==
    \/ \E c \in Calls : Handler(c) \/ OpenCase(c) \/ RefuseCase(c)
    \/ GatewayCrash

-----------------------------------------------------------------------------
(* Properties, checked with the agents that make the calls (AgentRuns).    *)

(* No tool gives an agent a result that the trail does not hold: every     *)
(* read, proposal and case an agent works with was recorded first          *)
(* (audit_logging.py 4).                                                   *)
ResultsOnRecord ==
    \A c \in Calls :
        answer[c] = "result" => trail[c] \in {"success", "partial_failure"}

(* Every case the trail names exists in the CRM (salesforce_tools.py 77),  *)
(* though not every case is named by the trail: a POST may land after its  *)
(* timeout.                                                                *)
RecordedCasesExist ==
    \A c \in Calls :
        call[c] # None /\ call[c].tool = "create_case"
          /\ trail[c] \in {"success", "partial_failure"} => wire[c] = "opened"

=============================================================================

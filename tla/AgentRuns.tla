------------------------------ MODULE AgentRuns ------------------------------
(***************************************************************************)
(* Runs of the agents against the Gateway's tools, and the compensation of *)
(* a CRM sync that fails after an order was made (governance_agent.py).    *)
(* submit_order is present as its promise, OrderPromise; an order is named *)
(* by the run that asked for it.                                           *)
(*                                                                         *)
(* A scripted run is a governance run whose approval asked to simulate the *)
(* failure and whose model follows the steps of its prompt.  Any other run *)
(* is free: its model calls any tool of its agent with any arguments, in   *)
(* parallel or not, and replies when it likes.  Several governance runs of *)
(* one proposal are approvals that overlap or follow a request that died;  *)
(* a run whose request dies takes no further step, which the safety        *)
(* properties allow at any point, and its tool calls go on.                *)
(***************************************************************************)
EXTENDS GatewayTools

CONSTANTS
    Runs,
    Casts,      \* which agents the runs may be of, as functions from Runs
    Proposal,   \* the pending proposal of each run
    Customers,  \* customer ids a model may pass
    OrderIds,   \* order ids it may pass, made or not
    FreeSlots   \* bound: the tool calls of a free run beside submit_order

Slots == {"sync", "followup"}
Agents == {"knowledge", "transactional", "governance", "scripted"}

ASSUME RunsAssumption ==
    /\ Calls = Runs \X Slots /\ FreeSlots \subseteq Slots
    /\ Casts \subseteq [Runs -> Agents]
    /\ DOMAIN Proposal = Runs
    /\ Known \subseteq Customers
    /\ None \notin Runs \cup Calls

VARIABLES
    agent,     \* whose run each is; it never changes
    stage,     \* where each run is
    outcome,   \* how its submit_order ended
    asked, executed, recorded, told   \* the promise of submit_order

Refusals == {r \in Runs : outcome[r] = "refused"}

Orders == INSTANCE OrderPromise
            WITH Calls <- Runs, Keys <- {Proposal[r] : r \in Runs},
                 refused <- Refusals

orderVars == <<asked, executed, recorded, told>>
runVars == <<agent, stage, outcome>>
vars == <<toolVars, runVars, orderVars>>

Stages == {"work", "submit", "sync", "followup", "done"}

Init ==
    /\ ToolsInit
    /\ agent \in Casts
    /\ stage = [r \in Runs |-> IF agent[r] = "scripted" THEN "submit" ELSE "work"]
    /\ outcome = [r \in Runs |-> "none"]
    /\ Orders!Init

Step(r, next) == stage' = [stage EXCEPT ![r] = next] /\ UNCHANGED agent
Scripted == {r \in Runs : agent[r] = "scripted"}
Governing == {r \in Runs : agent[r] \in {"scripted", "governance"}}
CallsOf(r) == {c \in Calls : c[1] = r}

(* mcp_client.py: the tools each agent is given, submit_order apart.       *)
Tools(r) ==
    CASE agent[r] = "knowledge" -> {"get_customer_usage", "get_customer_profile"}
      [] agent[r] = "transactional" -> {"get_catalog", "propose_order"}
      [] OTHER -> {"get_order_eligibility", "create_case"}

(* mcp_server.py: the parameters of the tools.                             *)
Arguments(tool) ==
    CASE tool \in Views -> {Read(tool, cust, None) : cust \in Customers}
      [] tool = "get_catalog" -> {Read(tool, None, None)}
      [] tool = "propose_order" ->
           {Read(tool, cust, offer) : cust \in Customers, offer \in Offered \cup {None}}
      [] tool = "create_case" ->
           {Case(forceFail, compensation, order) :
              forceFail \in BOOLEAN, compensation \in BOOLEAN,
              order \in OrderIds \cup {None}}

-----------------------------------------------------------------------------
(* Step 1 of the prompt, and submit_order behind it.                       *)

Submit(r) ==
    /\ r \in Governing /\ stage[r] \in {"submit", "work"}
    /\ UNCHANGED <<toolVars, runVars>>
    /\ Orders!Ask(r, Proposal[r])

OrderWorks(r) ==
    /\ UNCHANGED <<toolVars, runVars>>
    /\ Orders!Execute(r) \/ Orders!Record(r)

EndSubmit(r, status) ==
    /\ asked[r] # None /\ outcome[r] = "none"
    /\ outcome' = [outcome EXCEPT ![r] = status]
    /\ UNCHANGED <<toolVars, agent, stage>>

Conflict(r) == r \in executed /\ recorded[asked[r]] \notin {None, r}

SubmitEnds(r) ==
    \/ EndSubmit(r, "success") /\ Orders!Tell(r)
    \/ EndSubmit(r, "refused") /\ Orders!Refuse(r)
    \/ /\ "submit" \in Faults \/ Conflict(r)
       /\ EndSubmit(r, "error") /\ UNCHANGED orderVars

(* Step 4: the CRM sync that is meant to fail.                             *)
Sync(r) ==
    /\ stage[r] = "submit" /\ outcome[r] = "success"
    /\ Call(<<r, "sync">>, Case(TRUE, FALSE, told[r]))
    /\ Step(r, "sync")
    /\ UNCHANGED <<outcome, orderVars>>

(* Mutant: the follow-up leaves the order id out. *)
MutantFollowUp(r) ==
    /\ stage[r] = "sync" /\ answer[<<r, "sync">>] = "error"
    /\ Call(<<r, "followup">>, Case(FALSE, TRUE, None))
    /\ Step(r, "followup")
    /\ UNCHANGED <<outcome, orderVars>>

(* Step 5: the follow-up case for the advisor team.                        *)
FollowUp(r) ==
    /\ stage[r] = "sync" /\ answer[<<r, "sync">>] = "error"
    /\ Call(<<r, "followup">>, Case(FALSE, TRUE, told[r]))
    /\ Step(r, "followup")
    /\ UNCHANGED <<outcome, orderVars>>

(* Mutant: the customer is answered before the follow-up has ended. *)
MutantReply(r) ==
    /\ \/ stage[r] = "submit" /\ outcome[r] \in {"refused", "error"}
       \/ stage[r] = "followup"
       \/ /\ stage[r] = "work"
          /\ \A c \in CallsOf(r) : ~Active(c)
          /\ asked[r] # None => outcome[r] # "none"
    /\ Step(r, "done")
    /\ UNCHANGED <<toolVars, outcome, orderVars>>

Reply(r) ==
    /\ \/ stage[r] = "submit" /\ outcome[r] \in {"refused", "error"}
       \/ stage[r] = "followup" /\ Ended(<<r, "followup">>)
       \/ /\ stage[r] = "work"
          /\ \A c \in CallsOf(r) : ~Active(c)
          /\ asked[r] # None => outcome[r] # "none"
    /\ Step(r, "done")
    /\ UNCHANGED <<toolVars, outcome, orderVars>>

-----------------------------------------------------------------------------

(* A free model.                                                           *)
UseTool(r, c) ==
    /\ stage[r] = "work" /\ c \in {r} \X FreeSlots
    /\ \E tool \in Tools(r) : \E args \in Arguments(tool) : Call(c, args)
    /\ UNCHANGED <<runVars, orderVars>>

Next ==
    \/ \E r \in Runs :
        \/ Submit(r) \/ OrderWorks(r) \/ SubmitEnds(r)
        \/ Sync(r) \/ FollowUp(r) \/ Reply(r)
        \/ \E c \in Calls : UseTool(r, c)
    \/ ToolsNext /\ UNCHANGED <<runVars, orderVars>>

(* The scripted model goes on; the awaits of the handlers end; a           *)
(* submit_order call ends (SubmitOrder: EveryCallEnds).  The CRM owes      *)
(* nobody an answer.                                                       *)
Fairness ==
    /\ \A c \in Calls : WF_vars(Handler(c) /\ UNCHANGED <<runVars, orderVars>>)
    /\ \A r \in Runs :
        /\ WF_vars(r \in Scripted /\ (Submit(r) \/ Sync(r) \/ FollowUp(r)))
        /\ WF_vars(SubmitEnds(r)) /\ WF_vars(Reply(r))

Spec == Init /\ [][Next]_vars /\ Fairness

-----------------------------------------------------------------------------
(* Properties.                                                             *)

TypeOK ==
    /\ at \in [Calls -> Points]
    /\ wire \in [Calls -> {"none", "sent", "opened", "refused"}]
    /\ verdict \in [Calls -> Outcomes] /\ trail \in [Calls -> Outcomes]
    /\ answer \in [Calls -> {"none", "result", "error"}]
    /\ agent \in Casts /\ stage \in [Runs -> Stages]
    /\ outcome \in [Runs -> {"none", "success", "refused", "error"}]
    /\ Orders!TypeOK

OpenedBy(r) == trail[<<r, "followup">>] = "partial_failure"

(* What a scripted run ends with is true of the order system, the CRM and  *)
(* the trail at once: when it has told the customer of a follow-up case,   *)
(* the case is open and its row names an order that was made and is the    *)
(* one on record for the approved proposal (docs/eval-cases.md, row 5),    *)
(* and when it has not, no order was reported or the follow-up failed too. *)
FollowUpIsReal ==
    \A r \in Scripted : stage[r] = "done" =>
        LET followup == <<r, "followup">> IN
          \/ outcome[r] \in {"refused", "error"} /\ at[followup] = "idle"
          \/ answer[followup] = "error"
          \/ /\ OpenedBy(r) /\ wire[followup] = "opened"
             /\ call[followup].correlation_order_id \in executed
             /\ recorded[Proposal[r]] = call[followup].correlation_order_id

(* However many approvals of one proposal are carried through, their       *)
(* follow-up cases name one order.                                         *)
FollowUpsAgree ==
    \A r, s \in Scripted :
        OpenedBy(r) /\ OpenedBy(s) /\ Proposal[r] = Proposal[s] =>
            call[<<r, "followup">>].correlation_order_id
              = call[<<s, "followup">>].correlation_order_id

(* A follow-up case stands: once its row is committed, no later approval,  *)
(* late order, late case or restart takes the case or the row away, turns  *)
(* the row to another order, or puts another order on record for the       *)
(* proposal that was approved.                                             *)
FollowUpStands ==
    [][\A r \in Scripted : OpenedBy(r) =>
         LET order == call[<<r, "followup">>].correlation_order_id IN
           /\ OpenedBy(r)' /\ wire'[<<r, "followup">>] = "opened"
           /\ call'[<<r, "followup">>].correlation_order_id = order
           /\ order \in executed' /\ recorded'[Proposal[r]] = order]_vars

(* A write tool deduplicates (idempotency.py 6-9 names create_case among   *)
(* those that do): one order has one follow-up case.                       *)
OneFollowUpPerOrder ==
    \A r, s \in Scripted :
        OpenedBy(r) /\ OpenedBy(s)
          /\ call[<<r, "followup">>].correlation_order_id
               = call[<<s, "followup">>].correlation_order_id => r = s

(* A scripted run ends, also when the CRM never answers.                   *)
ScriptEnds == \A r \in Runs : stage[r] = "submit" ~> stage[r] = "done"

=============================================================================

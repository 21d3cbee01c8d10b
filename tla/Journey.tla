------------------------------- MODULE Journey -------------------------------
(***************************************************************************)
(* One conversation thread of the orchestrator: /chat and /approve         *)
(* (api.py), the graph they drive (graph.py), the agents (agents/*.py) and *)
(* the checkpoint they all share.  Every await is a step.  The Gateway's   *)
(* write path is present as what it promises: OrderPromise, which          *)
(* SubmitOrder is shown to implement, with the proposal id as the key      *)
(* (governance_agent.py: idem-<proposal_id>).                              *)
(*                                                                         *)
(* LangGraph, modelled from its use here: ainvoke reads the latest         *)
(* checkpoint once, applies the input, and writes its whole state back     *)
(* after the input and after each node; aupdate_state reads the latest     *)
(* checkpoint and writes it back with the update.  Nothing compares what   *)
(* it overwrites with what it read.                                        *)
(*                                                                         *)
(* The models are nondeterministic: the router takes any route, an agent   *)
(* calls any of the tools it is bound to, as often as it likes or not at   *)
(* all, in parallel or not.  The one thing trusted of a model is that the  *)
(* governance agent passes the idempotency key its prompt gives.           *)
(***************************************************************************)
CONSTANTS
    Chats,       \* POST /chat requests
    Approvals,   \* POST /approve requests
    Proposals,   \* proposal ids, in the order of their minting or not
    Calls,       \* submit_order calls the agents may make
    Faults,      \* failures this instance allows, see FaultKinds
    None

FaultKinds ==
    { "request",   \* a request dies between two of its awaits
      "propose",   \* propose_order raises
      "submit",    \* the agent sees an error whatever became of the order
      "restart",   \* the orchestrator restarts without POSTGRES_HOST
      "lost",      \* an answer does not reach the browser (ChatWidget)
      "reload" }   \* the page is loaded again (ChatWidget)

ASSUME JourneyAssumption ==
    /\ Chats \cap Approvals = {}
    /\ None \notin Chats \cup Approvals \cup Proposals \cup Calls
    /\ Faults \subseteq FaultKinds

Requests == Chats \cup Approvals

VARIABLES
    ckpt,      \* the latest checkpoint: pending_proposal, and whose messages
    pc,        \* where each request is
    fresh,     \* did this /chat find the thread empty?
    local,     \* the state this request carries between its awaits
    draft,     \* the last proposal its agent's tools returned
    minted,    \* proposal ids handed out by propose_order
    shown,     \* proposals a response has shown the customer
    target,    \* the proposal id in the URL of each /approve
    caller,    \* which request made each submit_order call
    last,      \* the last submit_order call each request made
    outcome,   \* how each call ended for its caller
    report,    \* what each /approve answered
    asked, executed, recorded, told   \* the Gateway's promise

Refusals == {c \in Calls : outcome[c] = "refused"}

Gateway == INSTANCE OrderPromise WITH Keys <- Proposals, refused <- Refusals

gatewayVars == <<asked, executed, recorded, told>>
agentVars == <<draft, minted, caller, last, outcome, gatewayVars>>
clientVars == <<shown, target, report>>
vars == <<ckpt, pc, fresh, local, agentVars, clientVars>>

Points == {"idle", "read", "load", "input", "route", "knowledge", "transactional",
           "out_of_scope", "governance", "put", "respond", "done", "dead"}
Nodes == {"knowledge", "transactional", "out_of_scope"}

State == [pending : Proposals \cup {None}, turns : SUBSET Requests]
NoState == [pending |-> None, turns |-> {}]
Reports == {"none", "rejected", "refused", "error", "success"}

Busy(r) == pc[r] \notin {"idle", "done", "dead"}

Init ==
    /\ ckpt = NoState
    /\ pc = [r \in Requests |-> "idle"]
    /\ fresh = [r \in Chats |-> FALSE]
    /\ local = [r \in Requests |-> NoState]
    /\ draft = [r \in Chats |-> None]
    /\ minted = {} /\ shown = {}
    /\ target = [r \in Approvals |-> None]
    /\ caller = [c \in Calls |-> None]
    /\ last = [r \in Requests |-> None]
    /\ outcome = [c \in Calls |-> "none"]
    /\ report = [r \in Approvals |-> [status |-> "none", order |-> None]]
    /\ Gateway!Init

GoTo(r, point) == pc' = [pc EXCEPT ![r] = point]

-----------------------------------------------------------------------------
(* POST /chat.                                                             *)

ChatStart(r) ==
    /\ pc[r] = "idle"
    /\ GoTo(r, "read")
    /\ UNCHANGED <<ckpt, fresh, local, agentVars, clientVars>>

(* aget_state: an empty thread has its state seeded by the input.          *)
ChatRead(r) ==
    /\ pc[r] = "read"
    /\ fresh' = [fresh EXCEPT ![r] = (ckpt.turns = {})]
    /\ GoTo(r, "load")
    /\ UNCHANGED <<ckpt, local, agentVars, clientVars>>

(* Mutant: every turn seeds the state. *)
MutantChatLoad(r) ==
    /\ pc[r] = "load"
    /\ local' = [local EXCEPT ![r] =
                   [pending |-> None, turns |-> ckpt.turns \cup {r}]]
    /\ GoTo(r, "input")
    /\ UNCHANGED <<ckpt, fresh, agentVars, clientVars>>

(* ainvoke reads the checkpoint again and lays the input over it.          *)
ChatLoad(r) ==
    /\ pc[r] = "load"
    /\ local' = [local EXCEPT ![r] =
                   [pending |-> IF fresh[r] THEN None ELSE ckpt.pending,
                    turns |-> ckpt.turns \cup {r}]]
    /\ GoTo(r, "input")
    /\ UNCHANGED <<ckpt, fresh, agentVars, clientVars>>

ChatInput(r) ==
    /\ pc[r] = "input"
    /\ ckpt' = local[r]
    /\ GoTo(r, "route")
    /\ UNCHANGED <<fresh, local, agentVars, clientVars>>

(* router_node and route_after_router. *)
Route(r) ==
    /\ pc[r] = "route"
    /\ \E node \in Nodes : GoTo(r, node)
    /\ ckpt' = local[r]
    /\ UNCHANGED <<fresh, local, agentVars, clientVars>>

(* mcp_client.py: each agent is given its own tools and no other.          *)
Tools(node) ==
    CASE node = "transactional" -> {"propose_order"}
      [] node = "governance" -> {"submit_order"}
      [] OTHER -> {}

Propose(r) ==
    /\ "propose_order" \in Tools(pc[r])
    /\ \E p \in Proposals \ minted :
         /\ minted' = minted \cup {p}
         /\ draft' = [draft EXCEPT ![r] = p]
    /\ UNCHANGED <<ckpt, pc, fresh, local, caller, last, outcome, gatewayVars,
                   clientVars>>

(* extract_tool_result takes the last message of the tool, and finds no    *)
(* JSON in that of a tool that raised.                                     *)
ProposeFails(r) ==
    /\ "propose" \in Faults
    /\ "propose_order" \in Tools(pc[r])
    /\ draft' = [draft EXCEPT ![r] = None]
    /\ UNCHANGED <<ckpt, pc, fresh, local, minted, caller, last, outcome,
                   gatewayVars, clientVars>>

AgentEnds(r) ==
    /\ pc[r] \in Nodes
    /\ LET state == IF pc[r] = "transactional" /\ draft[r] # None
                      THEN [local[r] EXCEPT !.pending = draft[r]] ELSE local[r] IN
        /\ local' = [local EXCEPT ![r] = state]
        /\ ckpt' = state
    /\ GoTo(r, "respond")
    /\ UNCHANGED <<fresh, agentVars, clientVars>>

ChatRespond(r) ==
    /\ pc[r] = "respond"
    /\ shown' = shown \cup ({local[r].pending} \ {None})
    /\ GoTo(r, "done")
    /\ UNCHANGED <<ckpt, fresh, local, agentVars, target, report>>

-----------------------------------------------------------------------------
(* POST /approve/{proposal_id}.                                            *)

ApproveStart(r, p) ==
    /\ pc[r] = "idle"
    /\ p \in shown
    /\ target' = [target EXCEPT ![r] = p]
    /\ GoTo(r, "read")
    /\ UNCHANGED <<ckpt, fresh, local, agentVars, shown, report>>

Answer(r, status, order) ==
    report' = [report EXCEPT ![r] = [status |-> status, order |-> order]]

(* Mutant: any pending proposal will do. *)
MutantMatches(r) == ckpt.turns # {} /\ ckpt.pending # None

Matches(r) == ckpt.turns # {} /\ ckpt.pending = target[r]

(* 404 and 409, or the governance agent runs on the state just read.       *)
ApproveRead(r) ==
    /\ pc[r] = "read"
    /\ \/ /\ Matches(r)
          /\ local' = [local EXCEPT ![r] = ckpt]
          /\ GoTo(r, "governance")
          /\ UNCHANGED report
       \/ /\ ~Matches(r)
          /\ Answer(r, "rejected", None)
          /\ GoTo(r, "done")
          /\ UNCHANGED local
    /\ UNCHANGED <<ckpt, fresh, agentVars, shown, target>>

(* The key comes from the proposal in the state, not from the URL.         *)
Submit(r, c) ==
    /\ "submit_order" \in Tools(pc[r])
    /\ local[r].pending # None
    /\ caller' = [caller EXCEPT ![c] = r]
    /\ last' = [last EXCEPT ![r] = c]
    /\ UNCHANGED <<ckpt, pc, fresh, local, draft, minted, outcome, clientVars>>
    /\ Gateway!Ask(c, local[r].pending)

(* What governance_agent.run returns, once every tool call has ended: the  *)
(* result of the last submit_order, if there was one.                      *)
Governed(r) ==
    /\ pc[r] = "governance"
    /\ \A c \in Calls : caller[c] = r => outcome[c] # "none"
    /\ \/ last[r] = None /\ Answer(r, "error", None)
       \/ last[r] # None /\ Answer(r, outcome[last[r]], told[last[r]])
    /\ GoTo(r, "load")
    /\ UNCHANGED <<ckpt, fresh, local, agentVars, shown, target>>

(* Mutants: the proposal is dropped only when the order succeeded; the     *)
(* messages are replaced where add_messages appends. *)
MutantApproveLoad(r) ==
    /\ pc[r] = "load"
    /\ local' = [local EXCEPT ![r] =
                   [pending |-> IF report[r].status = "success"
                                  THEN None ELSE ckpt.pending,
                    turns |-> ckpt.turns \cup {r}]]
    /\ GoTo(r, "put")
    /\ UNCHANGED <<ckpt, fresh, agentVars, clientVars>>
MutantReplaceMessages(r) ==
    /\ pc[r] = "load"
    /\ local' = [local EXCEPT ![r] = [pending |-> None, turns |-> {r}]]
    /\ GoTo(r, "put")
    /\ UNCHANGED <<ckpt, fresh, agentVars, clientVars>>

(* aupdate_state: what governance_agent.run returned, over the checkpoint  *)
(* of now.                                                                 *)
ApproveLoad(r) ==
    /\ pc[r] = "load"
    /\ local' = [local EXCEPT ![r] =
                   [pending |-> None, turns |-> ckpt.turns \cup {r}]]
    /\ GoTo(r, "put")
    /\ UNCHANGED <<ckpt, fresh, agentVars, clientVars>>

ApprovePut(r) ==
    /\ pc[r] = "put"
    /\ ckpt' = local[r]
    /\ GoTo(r, "respond")
    /\ UNCHANGED <<fresh, local, agentVars, clientVars>>

ApproveRespond(r) ==
    /\ pc[r] = "respond"
    /\ GoTo(r, "done")
    /\ UNCHANGED <<ckpt, fresh, local, agentVars, clientVars>>

-----------------------------------------------------------------------------
(* The Gateway, and failures.                                              *)

GatewayWorks(c) ==
    /\ UNCHANGED <<ckpt, pc, fresh, local, draft, minted, caller, last, outcome,
                   clientVars>>
    /\ Gateway!Execute(c) \/ Gateway!Record(c)

EndCall(c, status) ==
    /\ asked[c] # None /\ outcome[c] = "none"
    /\ outcome' = [outcome EXCEPT ![c] = status]
    /\ UNCHANGED <<ckpt, pc, fresh, local, draft, minted, caller, last, clientVars>>

Succeeds(c) == EndCall(c, "success") /\ Gateway!Tell(c)

(* Mutant: the tool's own word for a refusal is passed on. *)
MutantRefuses(c) ==
    /\ c \notin executed
    /\ EndCall(c, "blocked")
    /\ UNCHANGED gatewayVars

Refuses(c) == EndCall(c, "refused") /\ Gateway!Refuse(c)

(* The tool raised, as it must when another call's order is on record, or  *)
(* the connection to the Gateway broke: the agent sees an error whatever   *)
(* became of the order.                                                    *)
Conflict(c) == c \in executed /\ recorded[asked[c]] \notin {None, c}

Errs(c) ==
    /\ "submit" \in Faults \/ Conflict(c)
    /\ EndCall(c, "error")
    /\ UNCHANGED gatewayVars

(* A model or tool server that raises, a database that fails or a replica  *)
(* that dies ends the request; the checkpoint stays as last written.       *)
Dies(r) ==
    /\ "request" \in Faults
    /\ Busy(r)
    /\ GoTo(r, "dead")
    /\ UNCHANGED <<ckpt, fresh, local, agentVars, clientVars>>

(* Without POSTGRES_HOST the checkpoint is a MemorySaver: a restart loses  *)
(* the thread with the requests in progress.  The Gateway's calls go on.   *)
Restart ==
    /\ "restart" \in Faults
    /\ ckpt' = NoState
    /\ pc' = [r \in Requests |-> IF Busy(r) THEN "dead" ELSE pc[r]]
    /\ UNCHANGED <<fresh, local, agentVars, clientVars>>

ChatStep(r) ==
    \/ ChatRead(r) \/ ChatLoad(r) \/ ChatInput(r) \/ Route(r)
    \/ AgentEnds(r) \/ ChatRespond(r)

ApproveStep(r) ==
    \/ ApproveRead(r) \/ Governed(r) \/ ApproveLoad(r) \/ ApprovePut(r)
    \/ ApproveRespond(r)

CallEnds(c) == Succeeds(c) \/ Refuses(c) \/ Errs(c)

(* What goes on behind the two endpoints once a request has come in.       *)
ServerStep ==
    \/ \E r \in Chats : ChatStep(r) \/ Propose(r) \/ ProposeFails(r)
    \/ \E r \in Approvals : ApproveStep(r)
    \/ \E r \in Requests, c \in Calls : Submit(r, c)
    \/ \E c \in Calls : GatewayWorks(c) \/ CallEnds(c)
    \/ \E r \in Requests : Dies(r)
    \/ Restart

(* Requests come from any number of tabs, on a proposal any of them shows. *)
Next ==
    \/ \E r \in Chats : ChatStart(r)
    \/ \E r \in Approvals, p \in Proposals : ApproveStart(r, p)
    \/ ServerStep

(* A request's awaits finish: the model, the tools and the database answer *)
(* or raise.  A tool call ends (SubmitOrder: EveryCallEnds).               *)
Fairness ==
    /\ \A r \in Chats : WF_vars(ChatStep(r))
    /\ \A r \in Approvals : WF_vars(ApproveStep(r))
    /\ \A c \in Calls : WF_vars(CallEnds(c))

Spec == Init /\ [][Next]_vars /\ Fairness

-----------------------------------------------------------------------------
(* Properties.                                                             *)

TypeOK ==
    /\ ckpt \in State /\ local \in [Requests -> State]
    /\ pc \in [Requests -> Points]
    /\ fresh \in [Chats -> BOOLEAN]
    /\ draft \in [Chats -> Proposals \cup {None}]
    /\ minted \subseteq Proposals /\ shown \subseteq minted
    /\ target \in [Approvals -> Proposals \cup {None}]
    /\ caller \in [Calls -> Requests \cup {None}]
    /\ last \in [Requests -> Calls \cup {None}]
    /\ outcome \in [Calls -> {"none", "success", "refused", "error"}]
    /\ report \in [Approvals -> [status : Reports, order : Calls \cup {None}]]
    /\ Gateway!TypeOK

(* Propose, don't execute (graph.py, transactional_agent.py): the Gateway  *)
(* is asked for an order only by the handling of an approval, and under    *)
(* the very proposal that approval named, whatever the models do,          *)
(* whichever requests overlap and whatever they have left in the thread.   *)
OrdersWereApproved ==
    \A c \in Calls :
        asked[c] # None => /\ caller[c] \in Approvals
                           /\ target[caller[c]] = asked[c]

(* Two approvals of one proposal, overlapping or repeated after a failure, *)
(* that both report success report the same order.                         *)
ApprovalsAgree ==
    \A r, s \in Approvals :
        report[r].status = "success" /\ report[s].status = "success"
          /\ target[r] = target[s]
            => report[r].order = report[s].order

(* An approval that reports success reports an order that exists and was   *)
(* made for the very proposal it named, whatever else was pending, was     *)
(* approved or was retried meanwhile.  One that reports a refusal has made *)
(* no order with the call it reports, and never will (api.py 118-124).     *)
ReportsAreReal ==
    \A r \in Approvals :
        /\ report[r].status = "success" =>
             /\ report[r].order \in executed
             /\ asked[report[r].order] = target[r]
        /\ report[r].status = "refused" =>
             last[r] # None /\ last[r] \notin executed

(* Once the governance agent has acted on a proposal and the customer has  *)
(* its answer, the thread does not offer that proposal again (api.py,      *)
(* governance_agent.py: pending_proposal becomes None).                    *)
ClosedStaysClosed ==
    \A r \in Approvals :
        pc[r] = "done" /\ report[r].status # "rejected"
            => ckpt.pending # target[r]

(* A proposal the customer has been shown stays pending until it is        *)
(* approved or a newer one takes its place (state.py: "any pending         *)
(* proposal survive across turns").                                        *)
ShownStaysOpen ==
    [][ckpt.pending \in shown /\ ckpt'.pending = None
         => \E r \in Approvals : pc[r] = "put" /\ target[r] = ckpt.pending]_vars

(* The messages of every request that was answered are in the thread       *)
(* (state.py: "a customer's conversation ... survive across turns").       *)
TurnsKept ==
    \A r \in Requests :
        /\ r \in Chats /\ pc[r] = "done" => r \in ckpt.turns
        /\ r \in Approvals /\ pc[r] = "done" /\ report[r].status # "rejected"
             => r \in ckpt.turns

=============================================================================

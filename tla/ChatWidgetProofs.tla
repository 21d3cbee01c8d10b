--------------------------- MODULE ChatWidgetProofs ---------------------------
(***************************************************************************)
(* The widget composed with the journey: every step of the two is a step   *)
(* of Journey or leaves it alone, so what is proved of Journey for clients *)
(* of any kind holds of this one, patient or not.  Then what a patient     *)
(* customer can rely on, and that the two keep Conversation.               *)
(***************************************************************************)
EXTENDS ChatWidget, JourneyProofs

(* What a finished chat carries was shown with its answer.                 *)
AnswerShown ==
    \A r \in Chats : pc[r] = "done" => local[r].pending \in shown \cup {None}

WInv == JInv /\ WidgetTypeOK /\ AnswerShown

LEMMA InitWInv == WidgetInit => WInv
<1> SUFFICES ASSUME WidgetInit PROVE WInv
  OBVIOUS
<1>1. JInv
  BY InitJInv DEF WidgetInit
<1>2. WidgetTypeOK
  BY DEF WidgetInit, WidgetTypeOK
<1>3. AnswerShown
  BY DEF WidgetInit, Init, AnswerShown, Requests
<1> QED
  BY <1>1, <1>2, <1>3 DEF WInv

(* The card is a proposal that was shown, so its approval is one that      *)
(* Journey knows.                                                          *)
LEMMA WidgetStep == WInv /\ [WidgetNext]_allVars => [Next]_vars
<1> SUFFICES ASSUME WInv, [WidgetNext]_allVars PROVE [Next]_vars
  OBVIOUS
<1>1. ASSUME NEW r \in Chats, Send(r) PROVE Next
  BY <1>1 DEF Send, Next
<1>2. ASSUME NEW r \in Approvals, Approve(r) PROVE Next
  <2>1. card \in Proposals /\ ApproveStart(r, card)
    BY <1>2 DEF Approve, WInv, WidgetTypeOK, JInv, TypeInv, TypeOK
  <2> QED
    BY <2>1 DEF Next
<1>3. ASSUME NEW r \in Requests, Settle(r) PROVE UNCHANGED vars
  BY <1>3 DEF Settle, ChatAnswered, ApproveAnswered, FetchFails
<1>4. CASE Reload
  BY <1>4 DEF Reload
<1>5. CASE ServerNext
  BY <1>5 DEF ServerNext, Next
<1>6. CASE UNCHANGED allVars
  BY <1>6 DEF allVars
<1> QED
  BY <1>1, <1>2, <1>3, <1>4, <1>5, <1>6 DEF WidgetNext

LEMMA ShownGrows == [Next]_vars => shown \subseteq shown'
BY DEF Next, ServerStep, ChatStart, ApproveStart, ChatStep, ApproveStep,
       ChatRead, ChatLoad, ChatInput, Route, AgentEnds, ChatRespond, Propose,
       ProposeFails, ApproveRead, Governed, ApproveLoad, ApprovePut,
       ApproveRespond, Submit, GatewayWorks, CallEnds, Succeeds, Refuses, Errs,
       EndCall, Dies, Restart, clientVars, vars

LEMMA NextAnswerShown ==
    ASSUME JInv, AnswerShown, [Next]_vars
    PROVE  AnswerShown'
<1> SUFFICES ASSUME NEW r \in Chats, pc'[r] = "done"
             PROVE  local'[r].pending \in shown' \cup {None}
  BY DEF AnswerShown
<1> USE JourneyAssumption DEF JInv, TypeInv, TypeOK, State, GoTo, agentVars,
    clientVars, gatewayVars, vars, Requests
<1>1. CASE ChatRespond(r)
  BY <1>1 DEF ChatRespond
<1>2. CASE ~ChatRespond(r)
  <2>1. pc[r] = "done" /\ local'[r] = local[r]
    BY <1>2 DEF Next, ServerStep, ChatStart, ApproveStart, ChatStep, ApproveStep,
       ChatRead, ChatLoad, ChatInput, Route, Nodes, AgentEnds, ChatRespond, Propose,
       ProposeFails, ApproveRead, Governed, ApproveLoad, ApprovePut,
       ApproveRespond, Submit, GatewayWorks, CallEnds, Succeeds, Refuses, Errs,
       EndCall, Dies, Restart, Busy
  <2> QED
    BY <2>1, ShownGrows DEF AnswerShown
<1> QED
  BY <1>1, <1>2

LEMMA NextWInv == WInv /\ [WidgetNext]_allVars => WInv'
<1> SUFFICES ASSUME WInv, [WidgetNext]_allVars PROVE WInv'
  OBVIOUS
<1>1. JInv' /\ AnswerShown'
  BY WidgetStep, NextJInv, NextAnswerShown DEF WInv
<1>9. shown \subseteq shown'
  BY WidgetStep, ShownGrows
<1> SUFFICES WidgetTypeOK'
  BY <1>1 DEF WInv
<1> USE <1>9 DEF WInv, WidgetTypeOK, Requests
<1>2. ASSUME NEW r \in Chats, Send(r) PROVE WidgetTypeOK'
  BY <1>2 DEF Send
<1>3. ASSUME NEW r \in Approvals, Approve(r) PROVE WidgetTypeOK'
  BY <1>3 DEF Approve
<1>4. ASSUME NEW r \in Requests, ChatAnswered(r) PROVE WidgetTypeOK'
  <2>1. r \in Chats /\ local[r].pending \in shown \cup {None}
    BY <1>4 DEF ChatAnswered, AnswerShown
  <2> QED
    BY <1>4, <2>1 DEF ChatAnswered, Show
<1>5. ASSUME NEW r \in Requests, ApproveAnswered(r) PROVE WidgetTypeOK'
  BY <1>5 DEF ApproveAnswered, Show
<1>6. ASSUME NEW r \in Requests, FetchFails(r) PROVE WidgetTypeOK'
  BY <1>6 DEF FetchFails
<1>7. CASE Reload
  BY <1>7 DEF Reload
<1>8. CASE ServerNext \/ UNCHANGED allVars
  BY <1>8 DEF ServerNext, allVars, widgetVars
<1> QED
  BY <1>2, <1>3, <1>4, <1>5, <1>6, <1>7, <1>8 DEF WidgetNext, Settle

LEMMA WInvHolds == WidgetSpec => []WInv
BY InitWInv, NextWInv, PTL DEF WidgetSpec

(* The card, the fetches and the history keep their types.                 *)
THEOREM WidgetTypes == WidgetSpec => []WidgetTypeOK
<1>1. WInv => WidgetTypeOK
  BY DEF WInv
<1> QED
  BY <1>1, WInvHolds, PTL

(* Widget and server together are a journey.                               *)
THEOREM WidgetIsAJourney == WidgetSpec => Init /\ [][Next]_vars
<1>1. WidgetInit => Init
  BY DEF WidgetInit
<1> QED
  BY <1>1, WidgetStep, WInvHolds, PTL DEF WidgetSpec

(* No click or message of the widget leads to an order nobody approved.    *)
THEOREM WidgetOrdersApproved == WidgetSpec => []OrdersWereApproved
<1>1. WInv => OrdersWereApproved
  BY DEF WInv, JInv, AInv
<1> QED
  BY <1>1, WInvHolds, PTL

(* However often the widget's button is clicked after a lost answer, the   *)
(* customer is told of one order.                                          *)
THEOREM WidgetApprovalsAgree == WidgetSpec => []ApprovalsAgree
<1>1. WInv => ApprovalsAgree
  BY JInvAgrees DEF WInv
<1> QED
  BY <1>1, WInvHolds, PTL

(* The widget asks nothing of the Gateway but what its promise covers.     *)
THEOREM WidgetPromises == WidgetSpec => Gateway!Spec
<1>1. WidgetInit => Gateway!Init
  BY DEF WidgetInit, Init
<1>2. WInv /\ [WidgetNext]_allVars => [Gateway!Next]_Gateway!promiseVars
  BY WidgetStep, NextPromises DEF WInv
<1> QED
  BY <1>1, <1>2, WInvHolds, PTL DEF WidgetSpec, Gateway!Spec

(* Success on the screen is an order for the proposal that was clicked.    *)
THEOREM WidgetReportsReal == WidgetSpec => []ReportsAreReal
<1>1. WInv => JInv
  BY DEF WInv
<1> QED
  BY <1>1, WInvHolds, JInvReports, WidgetPromises, SamePromise,
     Promise!PromiseIsReal, Promise!PromiseRefuses, PTL

-----------------------------------------------------------------------------
(***************************************************************************)
(* A customer who makes the next gesture when nothing is in progress, over *)
(* a checkpointer that a restart does not lose (Calm): the proposal acted  *)
(* on stays closed, the one shown stays open, no turn is lost, the card is *)
(* what /approve accepts, and no approval is carried through twice.  The   *)
(* run widget_reopened drops the first condition.                          *)
(*                                                                         *)
(* None of the properties is inductive.  Alone says that one request has   *)
(* the thread to itself; ChatInv and ApproveInv what its handler then      *)
(* knows of the checkpoint, which nobody else writes; WaitInv and SyncInv  *)
(* carry this over to the answer the widget waits for and to its card.     *)
(***************************************************************************)
Calm == Patient /\ "restart" \notin Faults

Alone == \A r, s \in Requests : Busy(r) /\ Busy(s) => r = s

EmptyInv == ckpt.turns = {} => ckpt.pending = None

ChatInv(r) ==
    /\ pc[r] = "load" /\ fresh[r] => ckpt.turns = {}
    /\ pc[r] = "input" => /\ local[r].pending = ckpt.pending
                          /\ local[r].turns = ckpt.turns \cup {r}
    /\ pc[r] \in Nodes \cup {"route", "respond"} =>
         ckpt = local[r] /\ r \in ckpt.turns
    /\ pc[r] \in {"idle", "read", "load", "input", "route"} => draft[r] = None
    /\ pc[r] \in Nodes => /\ draft[r] \notin shown
                          /\ draft[r] # ckpt.pending \/ draft[r] = None
    /\ pc[r] = "done" => r \in ckpt.turns

ApproveInv(r) ==
    /\ pc[r] # "idle" => target[r] \in shown
    /\ pc[r] \in {"governance", "load", "put"} => ckpt.pending = target[r]
    /\ pc[r] = "put" => /\ local[r].pending = None
                        /\ local[r].turns = ckpt.turns \cup {r}
    /\ pc[r] = "respond" => ckpt.pending = None /\ r \in ckpt.turns
    /\ pc[r] = "done" /\ report[r].status # "rejected" =>
         r \in ckpt.turns /\ ckpt.pending # target[r]

ThreadInv ==
    /\ Alone /\ EmptyInv
    /\ \A r \in Chats : ChatInv(r)
    /\ \A r \in Approvals : ApproveInv(r)

WaitInv ==
    /\ \A r \in waiting, s \in Requests : Busy(s) \/ s \in waiting => s = r
    /\ \A r \in waiting : pc[r] # "idle"
    /\ \A r \in waiting \cap Chats : pc[r] = "done" => local[r].pending = ckpt.pending
    /\ \A r \in waiting \cap Approvals :
         pc[r] = "done" /\ report[r].status # "rejected" => ckpt.pending = None

SyncInv ==
    synced =>
        /\ \A r \in Requests : Busy(r) => r \in waiting
        /\ Resting => card = ckpt.pending
        /\ \A r \in waiting \cap Approvals :
             /\ report[r].status # "rejected"
             /\ pc[r] = "read" => ckpt.pending = target[r]

CalmInv == Calm => ThreadInv /\ WaitInv /\ SyncInv

PInv == WInv /\ CalmInv

-----------------------------------------------------------------------------
(* The server.                                                             *)

LEMMA InitPInv == WidgetInit => PInv
<1> SUFFICES ASSUME WidgetInit PROVE PInv
  OBVIOUS
<1>1. WInv
  BY InitWInv
<1>2. \A r \in Requests : pc[r] = "idle"
  BY DEF WidgetInit, Init
<1>3. ThreadInv
  BY <1>2 DEF WidgetInit, Init, ThreadInv, Alone, Busy, EmptyInv, ChatInv,
              ApproveInv, Requests, NoState, Nodes
<1>4. WaitInv /\ SyncInv
  BY <1>2 DEF WidgetInit, Init, WaitInv, SyncInv, Busy, NoState
<1> QED
  BY <1>1, <1>3, <1>4 DEF PInv, CalmInv

(* A step of the request in progress leaves those at rest as they are, if  *)
(* it loses no turn and pends nothing that was shown before.               *)
LEMMA OthersThread ==
    ASSUME WInv, ThreadInv, NEW r \in Requests, Busy(r),
           \A s \in Requests \ {r} : pc'[s] = pc[s],
           \A s \in Chats \ {r} : draft'[s] = draft[s],
           \A s \in Approvals \ {r} : report'[s] = report[s],
           target' = target, shown \subseteq shown', ckpt.turns \subseteq ckpt'.turns,
           ckpt'.pending \in {ckpt.pending, None} \/ ckpt'.pending \notin shown
    PROVE  /\ Alone'
           /\ \A s \in Chats \ {r} : ChatInv(s)'
           /\ \A s \in Approvals \ {r} : ApproveInv(s)'
<1>1. \A s \in Requests \ {r} : ~Busy(s) /\ ~Busy(s)'
  BY DEF ThreadInv, Alone, Busy
<1>2. \A s \in Requests \ {r} : pc'[s] \in {"idle", "done", "dead"}
  BY <1>1 DEF Busy
<1>3. Alone'
  BY <1>1 DEF Alone
<1>4. ASSUME NEW s \in Chats \ {r} PROVE ChatInv(s)'
  BY <1>2, <1>4 DEF ThreadInv, ChatInv, Requests, Nodes
<1>5. None \notin shown
  BY JourneyAssumption DEF WInv, JInv, TypeInv, TypeOK
<1>6. ASSUME NEW s \in Approvals \ {r} PROVE ApproveInv(s)'
  BY <1>2, <1>5, <1>6 DEF ThreadInv, ApproveInv, Requests
<1> QED
  BY <1>3, <1>4, <1>6

LEMMA ChatThread ==
    ASSUME WInv, ThreadInv, NEW r \in Chats,
           ChatStep(r) \/ Propose(r) \/ ProposeFails(r)
    PROVE  ThreadInv'
<1> USE JourneyAssumption
    DEF WInv, JInv, TypeInv, TypeOK, State, GoTo, agentVars, clientVars
<1>1. r \in Requests /\ r \notin Approvals /\ ChatInv(r) /\ EmptyInv
  BY DEF ThreadInv, Requests
<1>2. Busy(r)
  BY DEF ChatStep, Propose, ProposeFails, ChatRead, ChatLoad, ChatInput, Route,
         AgentEnds, ChatRespond, Tools, Busy, Nodes
<1>3. /\ UNCHANGED <<report, target>>
      /\ \A s \in Requests \ {r} : pc'[s] = pc[s]
      /\ \A s \in Chats \ {r} : draft'[s] = draft[s]
      /\ shown \subseteq shown'
  BY DEF ChatStep, Propose, ProposeFails, ChatRead, ChatLoad, ChatInput, Route,
         AgentEnds, ChatRespond
<1> DEFINE Kept == /\ ckpt.turns \subseteq ckpt'.turns
                   /\ \/ ckpt'.pending \in {ckpt.pending, None}
                      \/ ckpt'.pending \notin shown
<1>4. ASSUME Kept, ChatInv(r)', EmptyInv' PROVE ThreadInv'
  BY <1>1, <1>2, <1>3, <1>4, OthersThread DEF ThreadInv
<1>5. CASE ChatRead(r)
  BY <1>1, <1>4, <1>5 DEF ChatRead, ChatInv, EmptyInv, Nodes
<1>6. CASE ChatLoad(r)
  <2>1. /\ pc[r] = "load" /\ pc'[r] = "input"
        /\ local'[r] = [pending |-> IF fresh[r] THEN None ELSE ckpt.pending,
                        turns |-> ckpt.turns \cup {r}]
        /\ UNCHANGED <<ckpt, draft>>
    BY <1>1, <1>6 DEF ChatLoad
  <2>2. ChatInv(r)'
    BY <1>1, <2>1 DEF ChatInv, EmptyInv, Nodes
  <2> QED
    BY <1>1, <1>4, <2>1, <2>2 DEF EmptyInv
<1>7. CASE ChatInput(r) \/ Route(r)
  <2>1. /\ pc[r] \in {"input", "route"} /\ pc'[r] \in Nodes \cup {"route"}
        /\ UNCHANGED <<local, draft, shown>> /\ ckpt' = local[r]
    BY <1>1, <1>7 DEF ChatInput, Route
  <2>2. local[r].pending = ckpt.pending /\ ckpt.turns \subseteq local[r].turns
        /\ r \in local[r].turns
    BY <1>1, <2>1 DEF ChatInv
  <2>3. ChatInv(r)' /\ EmptyInv'
    BY <1>1, <2>1, <2>2 DEF ChatInv, EmptyInv, Nodes
  <2> QED
    BY <1>4, <2>1, <2>2, <2>3
<1>8. CASE AgentEnds(r)
  <2>1. /\ pc[r] \in Nodes /\ pc'[r] = "respond"
        /\ ckpt' = local'[r] /\ UNCHANGED <<draft, shown>>
        /\ ckpt'.turns = local[r].turns
        /\ ckpt'.pending = local[r].pending \/ ckpt'.pending = draft[r]
    BY <1>1, <1>8 DEF AgentEnds
  <2>2. ckpt = local[r] /\ r \in ckpt.turns /\ draft[r] \notin shown
    BY <1>1, <2>1 DEF ChatInv
  <2>3. ChatInv(r)' /\ EmptyInv'
    BY <1>1, <2>1, <2>2 DEF ChatInv, EmptyInv, Nodes
  <2> QED
    BY <1>4, <2>1, <2>2, <2>3
<1>9. CASE ChatRespond(r)
  BY <1>1, <1>4, <1>9 DEF ChatRespond, ChatInv, EmptyInv, Nodes
<1>10. CASE Propose(r) \/ ProposeFails(r)
  <2>1. pc[r] = "transactional" /\ UNCHANGED <<ckpt, pc, local, shown, fresh>>
    BY <1>10 DEF Propose, ProposeFails, Tools
  <2>2. /\ draft'[r] \notin minted /\ shown \subseteq minted
        /\ ckpt.pending \in minted \cup {None}
    BY <1>1, <1>10 DEF Propose, ProposeFails, MintedInv
  <2>3. ChatInv(r)'
    BY <1>1, <2>1, <2>2 DEF ChatInv, Nodes
  <2> QED
    BY <1>1, <1>4, <2>1, <2>3 DEF EmptyInv
<1> QED
  BY <1>5, <1>6, <1>7, <1>8, <1>9, <1>10 DEF ChatStep

LEMMA ApproveThread ==
    ASSUME WInv, ThreadInv, NEW r \in Approvals, ApproveStep(r)
    PROVE  ThreadInv'
<1> USE JourneyAssumption
    DEF WInv, JInv, TypeInv, TypeOK, State, GoTo, agentVars, clientVars
<1>1. r \in Requests /\ r \notin Chats /\ ApproveInv(r) /\ EmptyInv
  BY DEF ThreadInv, Requests
<1>2. Busy(r)
  BY DEF ApproveStep, ApproveRead, Governed, ApproveLoad, ApprovePut,
         ApproveRespond, Busy
<1>3. /\ UNCHANGED <<draft, target, shown>>
      /\ \A s \in Requests \ {r} : pc'[s] = pc[s]
      /\ \A s \in Approvals \ {r} : report'[s] = report[s]
  BY DEF ApproveStep, ApproveRead, Governed, ApproveLoad, ApprovePut,
         ApproveRespond, Answer
<1> DEFINE Kept == /\ ckpt.turns \subseteq ckpt'.turns
                   /\ ckpt'.pending \in {ckpt.pending, None}
<1>4. ASSUME Kept, ApproveInv(r)', EmptyInv' PROVE ThreadInv'
  BY <1>1, <1>2, <1>3, <1>4, OthersThread DEF ThreadInv
<1>5. CASE ApproveRead(r)
  <2>1. UNCHANGED ckpt /\ pc[r] = "read"
    BY <1>5 DEF ApproveRead
  <2>2. \/ pc'[r] = "governance" /\ ckpt.pending = target[r]
        \/ pc'[r] = "done" /\ report'[r].status = "rejected"
    BY <1>1, <1>5 DEF ApproveRead, Matches, Answer
  <2> QED
    BY <1>1, <1>3, <1>4, <2>1, <2>2 DEF ApproveInv, EmptyInv
<1>6. CASE Governed(r)
  <2>1. pc[r] = "governance" /\ pc'[r] = "load" /\ UNCHANGED ckpt
    BY <1>1, <1>6 DEF Governed
  <2> QED
    BY <1>1, <1>3, <1>4, <2>1 DEF ApproveInv, EmptyInv
<1>7. CASE ApproveLoad(r)
  <2>1. /\ pc[r] = "load" /\ pc'[r] = "put" /\ UNCHANGED ckpt
        /\ local'[r] = [pending |-> None, turns |-> ckpt.turns \cup {r}]
    BY <1>1, <1>7 DEF ApproveLoad
  <2> QED
    BY <1>1, <1>3, <1>4, <2>1 DEF ApproveInv, EmptyInv
<1>8. CASE ApprovePut(r)
  <2>1. pc[r] = "put" /\ pc'[r] = "respond" /\ ckpt' = local[r]
    BY <1>1, <1>8 DEF ApprovePut
  <2> QED
    BY <1>1, <1>3, <1>4, <2>1 DEF ApproveInv, EmptyInv
<1>9. CASE ApproveRespond(r)
  <2>1. pc[r] = "respond" /\ pc'[r] = "done" /\ UNCHANGED <<ckpt, report>>
    BY <1>1, <1>9 DEF ApproveRespond
  <2> QED
    BY <1>1, <1>3, <1>4, <2>1 DEF ApproveInv, EmptyInv
<1> QED
  BY <1>5, <1>6, <1>7, <1>8, <1>9 DEF ApproveStep

(* A request that comes in while nothing is in progress.                   *)
LEMMA StartThread ==
    ASSUME WInv, ThreadInv, \A s \in Requests : ~Busy(s),
           NEW r \in Requests,
           \/ r \in Chats /\ ChatStart(r)
           \/ r \in Approvals /\ ApproveStart(r, card)
    PROVE  ThreadInv'
<1> USE JourneyAssumption
    DEF WInv, JInv, TypeInv, TypeOK, State, GoTo, agentVars, clientVars, Requests
<1>1. /\ UNCHANGED <<ckpt, local, draft, shown, report>>
      /\ pc[r] = "idle" /\ pc' = [pc EXCEPT ![r] = "read"]
  BY DEF ChatStart, ApproveStart
<1>2. Alone' /\ EmptyInv'
  BY <1>1 DEF Alone, Busy, ThreadInv, EmptyInv
<1>3. ASSUME NEW s \in Chats PROVE ChatInv(s)'
  <2>1. s # r => pc'[s] \in {"idle", "done", "dead"} /\ pc'[s] = pc[s]
    BY <1>1, <1>3 DEF Busy
  <2>2. s = r => pc'[s] = "read" /\ pc[s] = "idle"
    BY <1>1
  <2> QED
    BY <1>1, <1>3, <2>1, <2>2 DEF ThreadInv, ChatInv, Nodes
<1>4. ASSUME NEW s \in Approvals PROVE ApproveInv(s)'
  <2>1. s # r => /\ pc'[s] \in {"idle", "done", "dead"} /\ pc'[s] = pc[s]
                 /\ target'[s] = target[s]
    BY <1>1, <1>4 DEF Busy, ChatStart, ApproveStart
  <2>2. s = r => pc'[s] = "read" /\ target'[s] \in shown
    BY <1>1, <1>4 DEF ChatStart, ApproveStart
  <2> QED
    BY <1>1, <1>4, <2>1, <2>2 DEF ThreadInv, ApproveInv
<1> QED
  BY <1>2, <1>3, <1>4 DEF ThreadInv

LEMMA DiesThread ==
    ASSUME WInv, ThreadInv, NEW r \in Requests, Dies(r)
    PROVE  ThreadInv'
<1> USE DEF WInv, JInv, TypeInv, TypeOK, GoTo, agentVars, clientVars, Requests
<1>1. UNCHANGED <<ckpt, fresh, local, draft, shown, target, report>>
  BY DEF Dies
<1>2. \A s \in Requests : pc'[s] = IF s = r THEN "dead" ELSE pc[s]
  BY DEF Dies
<1>3. Alone' /\ EmptyInv'
  BY <1>1, <1>2 DEF Alone, Busy, ThreadInv, EmptyInv
<1>4. ASSUME NEW s \in Chats PROVE ChatInv(s)'
  BY <1>1, <1>2, <1>4 DEF ThreadInv, ChatInv, Nodes
<1>5. ASSUME NEW s \in Approvals PROVE ApproveInv(s)'
  BY <1>1, <1>2, <1>5, JourneyAssumption DEF Dies, Busy, ThreadInv, ApproveInv
<1> QED
  BY <1>3, <1>4, <1>5 DEF ThreadInv

(* What the tools and the Gateway do, and what the widget does with an     *)
(* answer, is not seen by the thread.                                      *)
LEMMA QuietThread ==
    ASSUME ThreadInv,
           UNCHANGED <<ckpt, pc, fresh, local, draft, shown, target, report>>
    PROVE  ThreadInv'
BY DEF ThreadInv, Alone, Busy, EmptyInv, ChatInv, ApproveInv

LEMMA ToolSteps ==
    ASSUME NEW c \in Calls,
           \/ GatewayWorks(c) \/ CallEnds(c)
           \/ \E r \in Requests : Submit(r, c)
    PROVE  UNCHANGED <<ckpt, pc, fresh, local, draft, shown, target, report>>
BY DEF Submit, GatewayWorks, CallEnds, Succeeds, Refuses, Errs, EndCall, clientVars

LEMMA ServerThread ==
    ASSUME WInv, Calm, ThreadInv, ServerStep
    PROVE  ThreadInv'
<1>1. ASSUME NEW c \in Calls,
             \/ GatewayWorks(c) \/ CallEnds(c)
             \/ \E r \in Requests : Submit(r, c)
      PROVE  ThreadInv'
  BY <1>1, ToolSteps, QuietThread
<1> QED
  BY <1>1, ChatThread, ApproveThread, DiesThread DEF ServerStep, Restart, Calm

-----------------------------------------------------------------------------
(* The widget.                                                             *)

(* A step of the one request in progress: the widget waits for it, or for  *)
(* nothing at all.                                                         *)
LEMMA OwnerWaits ==
    ASSUME ThreadInv, WaitInv, SyncInv, NEW r \in Requests, Busy(r),
           \A s \in Requests \ {r} : pc'[s] = pc[s],
           pc'[r] # "idle", UNCHANGED widgetVars,
           r \in waiting /\ r \in Chats /\ pc'[r] = "done"
             => local'[r].pending = ckpt'.pending,
           r \in waiting /\ r \in Approvals =>
             /\ pc'[r] = "done" /\ report'[r].status # "rejected"
                  => ckpt'.pending = None
             /\ synced => /\ report'[r].status # "rejected"
                          /\ pc'[r] # "read"
    PROVE  WaitInv' /\ SyncInv'
<1>1. waiting \subseteq {r} /\ UNCHANGED <<card, waiting, synced>>
  BY DEF WaitInv, widgetVars
<1>2. \A s \in Requests \ {r} : ~Busy(s) /\ ~Busy(s)'
  BY DEF ThreadInv, Alone, Busy
<1>3. WaitInv'
  BY <1>1, <1>2 DEF WaitInv
<1>4. synced => waiting = {r}
  BY <1>1 DEF SyncInv
<1>5. SyncInv'
  BY <1>1, <1>2, <1>4 DEF SyncInv, Resting
<1> QED
  BY <1>3, <1>5

LEMMA ServerWait ==
    ASSUME WInv, Calm, ThreadInv, WaitInv, SyncInv, ServerNext
    PROVE  WaitInv' /\ SyncInv'
<1> USE JourneyAssumption
    DEF WInv, JInv, TypeInv, TypeOK, GoTo, agentVars, clientVars, Requests
<1>1. UNCHANGED widgetVars
  BY DEF ServerNext
<1>2. ASSUME UNCHANGED <<ckpt, pc, local, target, report>>
      PROVE  WaitInv' /\ SyncInv'
  BY <1>1, <1>2 DEF widgetVars, WaitInv, SyncInv, Busy, Resting
<1>3. ASSUME NEW r \in Chats, ChatStep(r) PROVE WaitInv' /\ SyncInv'
  <2>1. Busy(r) /\ pc'[r] # "idle" /\ \A s \in Requests \ {r} : pc'[s] = pc[s]
    BY <1>3 DEF ChatStep, ChatRead, ChatLoad, ChatInput, Route, AgentEnds,
                ChatRespond, Busy, Nodes
  <2>2. pc'[r] = "done" => pc[r] = "respond" /\ UNCHANGED <<ckpt, local>>
    BY <1>3 DEF ChatStep, ChatRead, ChatLoad, ChatInput, Route, AgentEnds,
                ChatRespond, Nodes
  <2>3. pc'[r] = "done" => local'[r].pending = ckpt'.pending
    BY <2>2, <1>3 DEF ThreadInv, ChatInv
  <2> QED
    BY <1>1, <1>3, <2>1, <2>3, OwnerWaits
<1>4. ASSUME NEW r \in Approvals, ApproveStep(r) PROVE WaitInv' /\ SyncInv'
  <2>1. /\ Busy(r) /\ pc'[r] \notin {"idle", "read"}
        /\ \A s \in Requests \ {r} : pc'[s] = pc[s]
    BY <1>4 DEF ApproveStep, ApproveRead, Governed, ApproveLoad, ApprovePut,
                ApproveRespond, Busy
  <2>2. pc'[r] = "done" /\ report'[r].status # "rejected" => ckpt'.pending = None
    BY <1>4 DEF ApproveStep, ApproveRead, Governed, ApproveLoad, ApprovePut,
                ApproveRespond, Answer, ThreadInv, ApproveInv
  <2>3. ASSUME r \in waiting, synced PROVE report'[r].status # "rejected"
    <3>1. report[r].status # "rejected"
      BY <2>3, <1>4 DEF SyncInv
    <3>2. CASE ApproveRead(r)
      <4>1. pc[r] = "read" /\ ckpt.pending = target[r] /\ target[r] \in shown
        BY <2>3, <1>4, <3>2 DEF ApproveRead, SyncInv, ThreadInv, ApproveInv
      <4>2. Matches(r)
        BY <4>1 DEF Matches, ThreadInv, EmptyInv
      <4> QED
        BY <3>1, <3>2, <4>2 DEF ApproveRead
    <3>3. CASE Governed(r)
      BY <1>4, <3>3 DEF Governed, Answer
    <3>4. CASE ApproveLoad(r) \/ ApprovePut(r) \/ ApproveRespond(r)
      BY <3>1, <3>4 DEF ApproveLoad, ApprovePut, ApproveRespond
    <3> QED
      BY <1>4, <3>2, <3>3, <3>4 DEF ApproveStep
  <2> QED
    BY <1>1, <1>4, <2>1, <2>2, <2>3, OwnerWaits
<1>5. ASSUME NEW r \in Requests, Dies(r) PROVE WaitInv' /\ SyncInv'
  <2>1. /\ Busy(r) /\ pc'[r] = "dead" /\ \A s \in Requests \ {r} : pc'[s] = pc[s]
        /\ UNCHANGED report
    BY <1>5 DEF Dies
  <2> QED
    BY <1>1, <2>1, OwnerWaits DEF SyncInv
<1>6. ASSUME NEW r \in Chats, Propose(r) \/ ProposeFails(r)
      PROVE  WaitInv' /\ SyncInv'
  BY <1>2, <1>6 DEF Propose, ProposeFails
<1>7. ASSUME NEW c \in Calls,
             \/ GatewayWorks(c) \/ CallEnds(c)
             \/ \E r \in Requests : Submit(r, c)
      PROVE  WaitInv' /\ SyncInv'
  BY <1>2, <1>7, ToolSteps
<1> QED
  BY <1>3, <1>4, <1>5, <1>6, <1>7 DEF ServerNext, ServerStep, Restart, Calm

(* The customer's gesture: nothing was in progress, now this request is.   *)
LEMMA GestureWaits ==
    ASSUME WInv, Calm, ThreadInv, WaitInv, SyncInv, NEW r \in Requests,
           \/ r \in Chats /\ Send(r)
           \/ r \in Approvals /\ Approve(r)
    PROVE  ThreadInv' /\ WaitInv' /\ SyncInv'
<1> USE JourneyAssumption
    DEF WInv, JInv, TypeInv, TypeOK, GoTo, agentVars, clientVars, Requests
<1>1. /\ Resting /\ waiting' = {r} /\ UNCHANGED <<ckpt, local, report, synced>>
      /\ pc[r] = "idle" /\ pc' = [pc EXCEPT ![r] = "read"]
  BY DEF Send, Approve, Free, Calm, Resting, ChatStart, ApproveStart
<1>2. ThreadInv'
  BY <1>1, StartThread DEF Send, Approve, Resting
<1>3. \A s \in Requests : s # r => ~Busy(s)'
  BY <1>1 DEF Busy, Resting
<1>4. Busy(r)'
  BY <1>1 DEF Busy
<1>5. WaitInv'
  BY <1>1, <1>3, <1>4 DEF WaitInv
<1>6. ASSUME synced, r \in Approvals
      PROVE  report[r].status # "rejected" /\ ckpt.pending = target'[r]
  BY <1>1, <1>6 DEF SyncInv, AgreeInv, Send, Approve, ApproveStart
<1>7. SyncInv'
  BY <1>1, <1>3, <1>4, <1>6 DEF SyncInv, Resting
<1> QED
  BY <1>2, <1>5, <1>7

LEMMA AnswerWaits ==
    ASSUME WInv, ThreadInv, WaitInv, SyncInv, NEW r \in Requests, Settle(r)
    PROVE  ThreadInv' /\ WaitInv' /\ SyncInv'
<1>1. /\ UNCHANGED vars /\ r \in waiting /\ waiting' = waiting \ {r}
  BY DEF Settle, ChatAnswered, ApproveAnswered, FetchFails
<1>2. ThreadInv'
  BY <1>1, QuietThread DEF vars, agentVars, clientVars
<1>3. waiting' = {} /\ \A s \in Requests : Busy(s)' => s = r
  BY <1>1 DEF WaitInv, Busy, vars, ChatInv, WInv, WidgetTypeOK
<1>4. WaitInv'
  BY <1>3 DEF WaitInv
<1>5. CASE ChatAnswered(r)
  <2>1. pc'[r] = "done" /\ card' = ckpt'.pending
    BY <1>1, <1>5 DEF ChatAnswered, Show, WaitInv, vars
  <2> QED
    BY <1>2, <1>3, <1>4, <2>1 DEF SyncInv, Busy
(* The approval of the card of an answered thread is not turned away.      *)
<1>6. CASE ApproveAnswered(r)
  <2>1. pc'[r] = "done" /\ card' = None
    BY <1>1, <1>6 DEF ApproveAnswered, Show, vars
  <2>2. synced' => report[r].status # "rejected"
    BY <1>1, <1>6 DEF ApproveAnswered, SyncInv
  <2>3. synced' => ckpt'.pending = None
    BY <1>1, <1>6, <2>2 DEF ApproveAnswered, WaitInv, vars
  <2> QED
    BY <1>2, <1>3, <1>4, <2>1, <2>3 DEF SyncInv, Busy
<1>7. CASE FetchFails(r)
  BY <1>2, <1>4, <1>7 DEF FetchFails, SyncInv
<1> QED
  BY <1>2, <1>4, <1>5, <1>6, <1>7 DEF Settle

LEMMA NextPInv == PInv /\ [WidgetNext]_allVars => PInv'
<1> SUFFICES ASSUME PInv, [WidgetNext]_allVars PROVE PInv'
  OBVIOUS
<1>1. WInv /\ WInv'
  BY NextWInv DEF PInv
<1> SUFFICES ASSUME Calm PROVE ThreadInv' /\ WaitInv' /\ SyncInv'
  BY <1>1 DEF PInv, CalmInv, Calm
<1>2. ThreadInv /\ WaitInv /\ SyncInv
  BY DEF PInv, CalmInv
<1>3. ASSUME NEW r \in Chats, Send(r) PROVE ThreadInv' /\ WaitInv' /\ SyncInv'
  <2>1. r \in Requests
    BY DEF Requests
  <2> QED
    BY <1>1, <1>2, <1>3, <2>1, GestureWaits
<1>4. ASSUME NEW r \in Approvals, Approve(r)
      PROVE  ThreadInv' /\ WaitInv' /\ SyncInv'
  <2>1. r \in Requests
    BY DEF Requests
  <2> QED
    BY <1>1, <1>2, <1>4, <2>1, GestureWaits
<1>5. ASSUME NEW r \in Requests, Settle(r)
      PROVE  ThreadInv' /\ WaitInv' /\ SyncInv'
  BY <1>1, <1>2, <1>5, AnswerWaits
<1>6. CASE Reload
  <2>1. UNCHANGED vars /\ waiting' = {} /\ synced' = FALSE
    BY <1>6 DEF Reload
  <2> QED
    BY <1>2, <2>1, QuietThread DEF vars, agentVars, clientVars, WaitInv, SyncInv
<1>7. CASE ServerNext
  BY <1>1, <1>2, <1>7, ServerThread, ServerWait DEF ServerNext
<1>8. CASE UNCHANGED allVars
  BY <1>2, <1>8, QuietThread DEF allVars, widgetVars, vars, agentVars, clientVars,
     WaitInv, SyncInv, Busy, Resting
<1> QED
  BY <1>3, <1>4, <1>5, <1>6, <1>7, <1>8 DEF WidgetNext

LEMMA PInvHolds == WidgetSpec => []PInv
BY InitPInv, NextPInv, PTL DEF WidgetSpec

-----------------------------------------------------------------------------
(* The theorems.                                                           *)

(* The customer is not shown again a proposal that was acted on, and an    *)
(* order that was placed is not followed by a second click on its card.    *)
THEOREM PatientClosed == WidgetSpec => [](Calm => ClosedStaysClosed)
<1>1. PInv => (Calm => ClosedStaysClosed)
  BY DEF PInv, CalmInv, ThreadInv, ApproveInv, ClosedStaysClosed
<1> QED
  BY <1>1, PInvHolds, PTL

(* Every turn that was answered is in the thread.                          *)
THEOREM PatientTurns == WidgetSpec => [](Calm => TurnsKept)
<1>1. PInv => (Calm => TurnsKept)
  BY DEF PInv, CalmInv, ThreadInv, ChatInv, ApproveInv, TurnsKept, Requests
<1> QED
  BY <1>1, PInvHolds, PTL

(* After an answer, whatever was lost before it, the card is the proposal  *)
(* that /approve accepts.                                                  *)
THEOREM PatientCard == WidgetSpec => [](Calm => CardIsPending)
<1>1. PInv => (Calm => CardIsPending)
  BY DEF PInv, CalmInv, SyncInv, CardIsPending
<1> QED
  BY <1>1, PInvHolds, PTL

(* Nothing but an approval of it withdraws a proposal the customer has     *)
(* been shown, unless for a newer one.                                     *)
THEOREM PatientOpen == Calm => (WidgetSpec => ShownStaysOpen)
<1> SUFFICES ASSUME Calm PROVE WidgetSpec => ShownStaysOpen
  OBVIOUS
<1> DEFINE Kept == ckpt.pending \in shown /\ ckpt'.pending = None
                     => \E r \in Approvals :
                          pc[r] = "put" /\ target[r] = ckpt.pending
<1>1. ASSUME PInv, [WidgetNext]_allVars PROVE [Kept]_vars
  <2> SUFFICES ASSUME ckpt.pending \in shown, ckpt'.pending = None, Next
               PROVE  Kept
    BY <1>1, WidgetStep DEF PInv
  <2> USE JourneyAssumption DEF WInv, JInv, TypeInv, TypeOK, State
  <2>1. None \notin shown /\ ckpt'.pending # ckpt.pending /\ ThreadInv /\ WInv
    BY <1>1 DEF PInv, CalmInv
  <2>2. ASSUME NEW r \in Chats, ChatInput(r) \/ Route(r) \/ AgentEnds(r)
        PROVE  FALSE
    <3>1. ChatInv(r)
      BY <2>1 DEF ThreadInv
    <3>2. \/ ckpt'.pending = draft[r] /\ draft[r] # None
          \/ ckpt'.pending = local[r].pending
      BY <2>1, <2>2 DEF ChatInput, Route, AgentEnds, Requests
    <3> QED
      BY <2>1, <2>2, <3>1, <3>2 DEF ChatInv, ChatInput, Route, AgentEnds, Nodes
  <2>3. ASSUME NEW r \in Approvals, ApprovePut(r) PROVE Kept
    BY <2>1, <2>3 DEF ApprovePut, ThreadInv, ApproveInv
  <2>4. \/ \E r \in Chats : ChatInput(r) \/ Route(r) \/ AgentEnds(r)
        \/ \E r \in Approvals : ApprovePut(r)
    BY <2>1 DEF Next, ServerStep, ChatStep, ApproveStep, CallEnds, ChatStart,
       ApproveStart, ChatRead, ChatLoad, ChatRespond, Propose, ProposeFails,
       ApproveRead, Governed, ApproveLoad, ApproveRespond, Submit,
       GatewayWorks, Succeeds, Refuses, Errs, EndCall, Dies, Restart, Calm
  <2> QED
    BY <2>2, <2>3, <2>4
<1>2. ShownStaysOpen <=> [][Kept]_vars
  BY PTL DEF ShownStaysOpen
<1> QED
  BY <1>1, <1>2, PInvHolds, PTL DEF WidgetSpec

(* However often a card that outlived its approval is clicked, the agent   *)
(* does not run for it again.                                              *)
THEOREM PatientRunsOnce == Calm => (WidgetSpec => NoSecondRun)
<1> SUFFICES ASSUME Calm PROVE WidgetSpec => NoSecondRun
  OBVIOUS
<1> DEFINE Once == \A r, s \in Approvals :
                     pc[r] = "read" /\ pc'[r] = "governance"
                       /\ target[s] = target[r]
                         => pc[s] # "done" \/ report[s].status = "rejected"
<1>1. ASSUME PInv, [WidgetNext]_allVars PROVE [Once]_vars
  <2> SUFFICES ASSUME Next, NEW r \in Approvals,
                      pc[r] = "read", pc'[r] = "governance"
               PROVE  ckpt.pending = target[r]
    BY <1>1, WidgetStep DEF PInv, CalmInv, ThreadInv, ApproveInv
  <2> USE DEF PInv, WInv, JInv, TypeInv, TypeOK, Requests, GoTo
  <2>1. ApproveRead(r)
    BY <1>1, JourneyAssumption
       DEF Next, ServerStep, ChatStep, ApproveStep, CallEnds, ChatStart,
       ApproveStart, ChatRead, ChatLoad, ChatInput, Route, AgentEnds, ChatRespond,
       Propose, ProposeFails, Governed, ApproveRead, ApproveLoad, ApprovePut,
       ApproveRespond, Submit, GatewayWorks, Succeeds, Refuses, Errs, EndCall,
       Dies, Restart
  <2> QED
    BY <1>1, <2>1 DEF ApproveRead, Matches
<1> QED
  BY <1>1, PInvHolds, PTL DEF WidgetSpec, NoSecondRun

-----------------------------------------------------------------------------
(* Conversation.  Under Alone at most one agent is at work, so there is at *)
(* most one draft.                                                         *)

LEMMA OnlyDraft ==
    ASSUME NEW r \in Chats, \A s \in Chats \ {r} : pc[s] \notin Nodes
    PROVE  Drafts = IF pc[r] \in Nodes THEN {draft[r]} ELSE {}
BY DEF Drafts

LEMMA OnlyDraftNext ==
    ASSUME NEW r \in Chats, \A s \in Chats \ {r} : pc'[s] \notin Nodes
    PROVE  Drafts' = IF pc'[r] \in Nodes THEN {draft'[r]} ELSE {}
BY DEF Drafts

LEMMA NoDrafts ==
    (\A s \in Chats : pc[s] \notin Nodes) => Drafts = {}
BY DEF Drafts

(* The conversation does not see a step that keeps what is pending and     *)
(* what is neither new nor at work.                                        *)
LEMMA TalkStays ==
    ASSUME UNCHANGED <<target, asked>>, ckpt'.pending = ckpt.pending,
           minted' \ Drafts' = minted \ Drafts
    PROVE  UNCHANGED Talk!talkVars
<1>1. (minted \ (Drafts \cup {ckpt.pending}))'
        = minted \ (Drafts \cup {ckpt.pending})
  OBVIOUS
<1> QED
  BY <1>1 DEF Talk!talkVars

(* An agent that proposes again, or raises, drops the draft it had.        *)
LEMMA DraftDropped ==
    ASSUME UNCHANGED <<target, asked>>, ckpt'.pending = ckpt.pending,
           minted \subseteq Proposals,
           NEW p \in minted, Drafts = {p}, p # ckpt.pending,
           minted' \ Drafts' = minted
    PROVE  Talk!Next
<1>1. Talk!Discard(p)
  BY DEF Talk!Discard, Talk!New
<1> QED
  BY <1>1 DEF Talk!Next

LEMMA ChatTalk ==
    ASSUME WInv, ThreadInv, NEW r \in Chats,
           ChatStep(r) \/ Propose(r) \/ ProposeFails(r)
    PROVE  [Talk!Next]_Talk!talkVars
<1> USE JourneyAssumption
    DEF WInv, JInv, TypeInv, TypeOK, State, GoTo, agentVars, clientVars, gatewayVars
<1>1. r \in Requests /\ ChatInv(r) /\ None \notin minted
  BY DEF ThreadInv, Requests
<1>2. /\ Busy(r) /\ UNCHANGED <<target, asked>>
      /\ \A s \in Requests \ {r} : pc'[s] = pc[s]
  BY DEF ChatStep, Propose, ProposeFails, ChatRead, ChatLoad, ChatInput, Route,
         AgentEnds, ChatRespond, Tools, Busy, Nodes
<1>3. \A s \in Chats \ {r} : pc[s] \notin Nodes /\ pc'[s] \notin Nodes
  BY <1>2 DEF ThreadInv, Alone, Busy, Requests, Nodes
<1>4. /\ Drafts = IF pc[r] \in Nodes THEN {draft[r]} ELSE {}
      /\ Drafts' = IF pc'[r] \in Nodes THEN {draft'[r]} ELSE {}
  BY <1>3, OnlyDraft, OnlyDraftNext
<1>5. CASE ChatRead(r) \/ ChatLoad(r) \/ ChatRespond(r)
  <2>1. /\ pc[r] \notin Nodes /\ pc'[r] \notin Nodes /\ UNCHANGED <<ckpt, minted>>
    BY <1>1, <1>5 DEF ChatRead, ChatLoad, ChatRespond, Nodes
  <2> QED
    BY <1>2, <1>4, <2>1, TalkStays
<1>6. CASE ChatInput(r) \/ Route(r)
  <2>1. /\ pc[r] \in {"input", "route"} /\ ckpt' = local[r]
        /\ UNCHANGED <<minted, draft>>
    BY <1>6 DEF ChatInput, Route
  <2>2. ckpt'.pending = ckpt.pending /\ pc[r] \notin Nodes /\ draft[r] = None
    BY <2>1, <1>1 DEF ChatInv, Nodes
  <2>3. minted' \ Drafts' = minted \ Drafts
    BY <1>1, <1>4, <2>1, <2>2
  <2> QED
    BY <1>2, <2>2, <2>3, TalkStays
<1>7. CASE Propose(r) \/ ProposeFails(r)
  <2>1. pc[r] \in Nodes /\ UNCHANGED <<ckpt, pc>>
    BY <1>7 DEF Propose, ProposeFails, Tools, Nodes
  <2>2. Drafts = {draft[r]} /\ Drafts' = {draft'[r]}
    BY <1>4, <2>1
  <2>3. minted' \ Drafts' = minted
    BY <1>1, <1>7, <2>2 DEF Propose, ProposeFails
  <2>4. draft[r] \in minted => draft[r] # ckpt.pending
    BY <1>1, <2>1 DEF ChatInv
  <2>5. CASE draft[r] = None
    BY <1>1, <1>2, <2>1, <2>2, <2>3, <2>5, TalkStays
  <2>6. CASE draft[r] # None
    BY <1>2, <2>1, <2>2, <2>3, <2>4, <2>6, DraftDropped DEF MintedInv
  <2> QED
    BY <2>5, <2>6
(* The draft the agent ends with is offered; that of no use is dropped.    *)
<1>8. CASE AgentEnds(r)
  <2>1. /\ pc[r] \in Nodes /\ pc'[r] \notin Nodes /\ UNCHANGED <<minted, draft>>
        /\ ckpt = local[r]
    BY <1>1, <1>8 DEF AgentEnds, Nodes, ChatInv
  <2>2. Drafts = {draft[r]} /\ Drafts' = {}
    BY <1>4, <2>1
  <2>3. draft[r] \in minted => draft[r] # ckpt.pending
    BY <1>1, <2>1 DEF ChatInv
  <2>4. CASE draft[r] = None
    <3>1. ckpt'.pending = ckpt.pending
      BY <1>1, <1>8, <2>1, <2>4 DEF AgentEnds
    <3> QED
      BY <1>1, <1>2, <2>1, <2>2, <2>4, <3>1, TalkStays
  <2>5. CASE draft[r] # None /\ pc[r] # "transactional"
    <3>1. ckpt'.pending = ckpt.pending
      BY <1>1, <1>8, <2>1, <2>5 DEF AgentEnds
    <3> QED
      BY <1>2, <2>1, <2>2, <2>3, <2>5, <3>1, DraftDropped DEF MintedInv
  <2>6. CASE draft[r] # None /\ pc[r] = "transactional"
    <3>1. ckpt'.pending = draft[r] /\ draft[r] \in minted
      BY <1>1, <1>8, <2>6 DEF AgentEnds, MintedInv
    <3>2. (minted \ (Drafts \cup {ckpt.pending}))'
            = (minted \ (Drafts \cup {ckpt.pending})) \cup ({ckpt.pending} \ {None})
      BY <2>1, <2>2, <2>3, <3>1 DEF MintedInv
    <3>3. Talk!Offer(draft[r])
      BY <1>2, <2>2, <2>3, <3>1, <3>2 DEF Talk!Offer, Talk!New
    <3> QED
      BY <3>1, <3>3 DEF Talk!Next
  <2> QED
    BY <2>4, <2>5, <2>6
<1> QED
  BY <1>5, <1>6, <1>7, <1>8 DEF ChatStep

(* The write of the approved update closes the proposal.                   *)
LEMMA ApproveTalk ==
    ASSUME WInv, ThreadInv, NEW r \in Approvals, ApproveStep(r)
    PROVE  [Talk!Next]_Talk!talkVars
<1> USE JourneyAssumption
    DEF WInv, JInv, TypeInv, TypeOK, GoTo, agentVars, clientVars, gatewayVars
<1>1. r \in Requests /\ r \notin Chats /\ ApproveInv(r) /\ None \notin minted
  BY DEF ThreadInv, Requests
<1>2. /\ Busy(r) /\ UNCHANGED <<target, asked, minted, draft>>
      /\ \A s \in Requests \ {r} : pc'[s] = pc[s]
  BY DEF ApproveStep, ApproveRead, Governed, ApproveLoad, ApprovePut,
         ApproveRespond, Busy
<1>3. \A s \in Chats : pc[s] \notin Nodes /\ pc'[s] \notin Nodes
  BY <1>1, <1>2 DEF ThreadInv, Alone, Busy, Requests, Nodes
<1>4. Drafts = {} /\ Drafts' = {}
  BY <1>3 DEF Drafts
<1>5. CASE ApprovePut(r)
  <2>1. pc[r] = "put" /\ ckpt' = local[r]
    BY <1>5 DEF ApprovePut
  <2>2. ckpt.pending = target[r] /\ ckpt'.pending = None /\ target[r] \in minted
    BY <1>1, <2>1 DEF ApproveInv
  <2>3. (minted \ (Drafts \cup {ckpt.pending}))'
          = (minted \ (Drafts \cup {ckpt.pending})) \cup {ckpt.pending}
    BY <1>1, <1>2, <1>4, <2>2
  <2>4. Talk!Consented
    BY <1>1, <2>2 DEF Talk!Consented
  <2>5. Talk!Close
    BY <1>2, <2>2, <2>3, <2>4 DEF Talk!Close
  <2> QED
    BY <2>5 DEF Talk!Next
<1>6. CASE ~ApprovePut(r)
  <2>1. UNCHANGED ckpt
    BY <1>6 DEF ApproveStep, ApproveRead, Governed, ApproveLoad, ApproveRespond
  <2> QED
    BY <1>2, <1>4, <2>1, TalkStays
<1> QED
  BY <1>5, <1>6

(* The governance agent orders under the proposal that is open, which the  *)
(* customer has approved.                                                  *)
LEMMA SubmitTalk ==
    ASSUME WInv, ThreadInv, NEW r \in Requests, NEW c \in Calls, Submit(r, c)
    PROVE  Talk!Next
<1> USE JourneyAssumption DEF WInv, JInv, TypeInv, TypeOK
<1>1. pc[r] = "governance"
  BY DEF Submit, Tools
<1>2. r \in Approvals /\ local[r].pending = target[r]
  BY <1>1 DEF AInv, ApprovalInv, Requests
<1>3. ckpt.pending = target[r] /\ target[r] \in minted
  BY <1>1, <1>2 DEF ThreadInv, ApproveInv
<1>4. Talk!Consented
  BY <1>2, <1>3 DEF Talk!Consented
<1>5. /\ UNCHANGED <<ckpt, minted, draft, pc, target>>
      /\ asked[c] = None /\ asked' = [asked EXCEPT ![c] = ckpt.pending]
  BY <1>2, <1>3 DEF Submit, Gateway!Ask, clientVars
<1>6. Drafts' = Drafts
  BY <1>5 DEF Drafts
<1>7. Talk!Ask(c)
  BY <1>4, <1>5, <1>6 DEF Talk!Ask
<1> QED
  BY <1>7 DEF Talk!Next

LEMMA DiesTalk ==
    ASSUME WInv, ThreadInv, NEW r \in Requests, Dies(r)
    PROVE  [Talk!Next]_Talk!talkVars
<1> USE JourneyAssumption
    DEF WInv, JInv, TypeInv, TypeOK, GoTo, agentVars, clientVars, gatewayVars
<1>1. /\ UNCHANGED <<ckpt, minted, draft, target, asked>> /\ None \notin minted
      /\ Busy(r) /\ \A s \in Requests : pc'[s] = IF s = r THEN "dead" ELSE pc[s]
  BY DEF Dies
<1>2. \A s \in Chats \ {r} : pc[s] \notin Nodes
  BY <1>1 DEF ThreadInv, Alone, Busy, Requests, Nodes
<1>3. Drafts' = {}
  BY <1>1, <1>2 DEF Drafts, Requests, Nodes
<1>4. CASE r \in Chats /\ pc[r] \in Nodes /\ draft[r] # None
  <2>1. Drafts = {draft[r]} /\ draft[r] \in minted
    BY <1>2, <1>4, OnlyDraft DEF MintedInv
  <2>2. draft[r] # ckpt.pending
    BY <1>4 DEF ThreadInv, ChatInv
  <2> QED
    BY <1>1, <1>3, <2>1, <2>2, DraftDropped
<1>5. CASE ~(r \in Chats /\ pc[r] \in Nodes /\ draft[r] # None)
  <2>1. Drafts \subseteq {None}
    BY <1>2, <1>5 DEF Drafts
  <2> QED
    BY <1>1, <1>3, <2>1, TalkStays
<1> QED
  BY <1>4, <1>5

(* A click on the card of a patient customer, whose request finds no other *)
(* at work.                                                                *)
LEMMA CardTalk ==
    ASSUME WInv, Calm, NEW r \in Approvals, Approve(r)
    PROVE  Talk!Next
<1> USE JourneyAssumption DEF WInv, JInv, TypeInv, TypeOK, WidgetTypeOK
<1>1. /\ \A s \in Chats : pc[s] \notin Nodes
      /\ pc[r] = "idle" /\ card \in minted /\ card # None
      /\ target' = [target EXCEPT ![r] = card] /\ pc' = [pc EXCEPT ![r] = "read"]
      /\ UNCHANGED <<ckpt, minted, asked>>
  BY DEF Approve, ApproveStart, GoTo, Free, Calm, Resting, Busy, Requests, Nodes,
         agentVars, gatewayVars
<1>2. Drafts = {} /\ Drafts' = {}
  BY <1>1 DEF Drafts, Requests
<1>3. target[r] = None
  BY <1>1 DEF AInv, ApprovalInv, Requests
<1>4. PICK p \in Proposals : p = card
  BY <1>1
<1>5. ({target[s] : s \in Approvals} \ {None})'
        = ({target[s] : s \in Approvals} \ {None}) \cup {p}
  BY <1>1, <1>3, <1>4
<1>6. Talk!Approve(p)
  BY <1>1, <1>2, <1>4, <1>5 DEF Talk!Approve, Talk!New
<1> QED
  BY <1>6 DEF Talk!Next

LEMMA NextTalks ==
    ASSUME PInv, Calm, [WidgetNext]_allVars
    PROVE  [Talk!Next]_Talk!talkVars
<1>1. WInv /\ ThreadInv
  BY DEF PInv, CalmInv
<1>2. ASSUME UNCHANGED <<ckpt, pc, draft, minted, target, asked>>
      PROVE  UNCHANGED Talk!talkVars
  BY <1>2, TalkStays DEF Drafts
<1>3. ASSUME NEW r \in Chats, Send(r) PROVE UNCHANGED Talk!talkVars
  <2>1. /\ UNCHANGED <<ckpt, draft, minted, target, asked>>
        /\ pc[r] = "idle" /\ pc' = [pc EXCEPT ![r] = "read"]
    BY <1>3 DEF Send, ChatStart, GoTo, agentVars, gatewayVars, clientVars
  <2>2. Drafts' = Drafts
    BY <1>1, <2>1 DEF Drafts, WInv, JInv, TypeInv, TypeOK, Nodes, Requests
  <2> QED
    BY <2>1, <2>2, TalkStays
<1>4. ASSUME NEW c \in Calls, GatewayWorks(c) \/ CallEnds(c)
      PROVE  UNCHANGED Talk!talkVars
  <2>1. UNCHANGED <<ckpt, pc, draft, minted, target>>
    BY <1>4 DEF GatewayWorks, CallEnds, Succeeds, Refuses, Errs, EndCall, clientVars
  <2>2. asked' = asked
    BY <1>4, GatewayAsked
       DEF GatewayWorks, CallEnds, Succeeds, Refuses, Errs, gatewayVars
  <2> QED
    BY <1>2, <2>1, <2>2
<1>5. CASE ServerNext
  BY <1>1, <1>4, <1>5, ChatTalk, ApproveTalk, SubmitTalk, DiesTalk
     DEF ServerNext, ServerStep, Restart, Calm
<1>6. ASSUME UNCHANGED vars PROVE UNCHANGED Talk!talkVars
  BY <1>2, <1>6 DEF vars, agentVars, clientVars, gatewayVars
<1>7. ASSUME NEW r \in Requests, Settle(r) PROVE UNCHANGED vars
  BY <1>7 DEF Settle, ChatAnswered, ApproveAnswered, FetchFails
<1> QED
  BY <1>1, <1>3, <1>5, <1>6, <1>7, CardTalk DEF WidgetNext, Reload, allVars

LEMMA InitTalks == WidgetInit => Talk!Init
<1> SUFFICES ASSUME WidgetInit PROVE Talk!Init
  OBVIOUS
<1>1. {target[r] : r \in Approvals} \ {None} = {}
  BY DEF WidgetInit, Init
<1> QED
  BY <1>1 DEF WidgetInit, Init, NoState, Gateway!Init, Talk!Init

(* With a patient customer, widget and server keep what the assistant      *)
(* promises: propose, approve, and only then execute.                      *)
THEOREM PatientConversation == Calm => (WidgetSpec => ConversationKept)
<1> SUFFICES ASSUME Calm PROVE WidgetSpec => ConversationKept
  OBVIOUS
<1>1. ASSUME PInv, [WidgetNext]_allVars PROVE [Talk!Next]_Talk!talkVars
  BY <1>1, NextTalks
<1> QED
  BY <1>1, InitTalks, PInvHolds, PTL DEF WidgetSpec, ConversationKept, Talk!Spec

(* A proposal that was carried through, replaced or dropped is not offered *)
(* again, and no order is asked for under it, whatever card is clicked.    *)
THEOREM PatientOver == Calm => (WidgetSpec => Talk!OverIsOver)
<1> SUFFICES ASSUME Calm PROVE WidgetSpec => Talk!OverIsOver
  OBVIOUS
<1> DEFINE past == minted \ (Drafts \cup {ckpt.pending})
           Over == \A p \in past : Talk!StaysOver(p)
<1>1. ASSUME PInv, [WidgetNext]_allVars PROVE [Over]_(Talk!talkVars)
  <2> SUFFICES ASSUME Talk!Next, NEW p \in past PROVE Talk!StaysOver(p)
    BY <1>1, NextTalks
  <2>1. p # ckpt.pending /\ DOMAIN asked = Calls
    BY <1>1 DEF PInv, WInv, JInv, AInv
  <2>2. ASSUME NEW q \in Proposals, Talk!Offer(q)
        PROVE  p \in past' /\ p # ckpt'.pending /\ asked' = asked
    BY <2>2, <2>1 DEF Talk!Offer, Talk!New
  <2>3. ASSUME NEW q \in Proposals, Talk!Discard(q) \/ Talk!Approve(q)
        PROVE  p \in past' /\ ckpt'.pending = ckpt.pending /\ asked' = asked
    BY <2>3 DEF Talk!Discard, Talk!Approve
  <2>4. ASSUME NEW c \in Calls, Talk!Ask(c)
        PROVE  /\ p \in past' /\ ckpt'.pending = ckpt.pending
               /\ asked' = [asked EXCEPT ![c] = ckpt.pending]
    BY <2>4 DEF Talk!Ask
  <2>5. CASE Talk!Close
    <3>1. p # None
      BY <1>1, JourneyAssumption DEF PInv, WInv, JInv, TypeInv, TypeOK
    <3> QED
      BY <2>1, <2>5, <3>1 DEF Talk!Close, Talk!StaysOver
  <2> QED
    BY <2>1, <2>2, <2>3, <2>4, <2>5 DEF Talk!Next, Talk!StaysOver
<1>2. Talk!OverIsOver <=> [][Over]_(Talk!talkVars)
  BY PTL DEF Talk!OverIsOver
<1> QED
  BY <1>1, <1>2, PInvHolds, PTL DEF WidgetSpec

=============================================================================

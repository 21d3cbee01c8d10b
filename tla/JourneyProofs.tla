---------------------------- MODULE JourneyProofs ----------------------------
(***************************************************************************)
(* "Propose, don't execute" for every number of requests, proposals and    *)
(* tool calls: whatever the models do, and however /chat and /approve      *)
(* overlap, fail or are repeated, the Gateway is only ever asked for an    *)
(* order by the handling of an approval, under the proposal it names.      *)
(*                                                                         *)
(* The property is not inductive: it says nothing of the state the         *)
(* governance agent works on.  ApprovalInv adds that this state, read once *)
(* before the agent runs, holds the proposal named in the URL, and that a  *)
(* request that is not an approval never reaches the governance node.      *)
(***************************************************************************)
EXTENDS Journey, TLAPS

PcOK == pc \in [Requests -> Points]

ApprovalInv ==
    \A r \in Requests :
        /\ r \in Chats => pc[r] # "governance"
        /\ r \in Approvals /\ pc[r] = "governance" => local[r].pending = target[r]
        /\ r \in Approvals /\ pc[r] = "idle" => target[r] = None

AInv ==
    /\ PcOK
    /\ target \in [Approvals -> Proposals \cup {None}]
    /\ DOMAIN local = Requests
    /\ \A c \in Calls : asked[c] \in Proposals \cup {None}
    /\ DOMAIN asked = Calls /\ DOMAIN caller = Calls
    /\ ApprovalInv
    /\ OrdersWereApproved

LEMMA InitAInv == Init => AInv
BY DEF Init, AInv, PcOK, Points, ApprovalInv, OrdersWereApproved, Requests,
       Gateway!Init

(* A step that asks the Gateway nothing new keeps what has been asked.     *)
LEMMA AskedStays ==
    ASSUME AInv, asked' = asked, caller' = caller,
           \A r \in Approvals : target[r] # None => target'[r] = target[r]
    PROVE  OrdersWereApproved'
BY JourneyAssumption DEF AInv, OrdersWereApproved

LEMMA GatewayAsked ==
    ASSUME NEW c \in Calls,
           \/ Gateway!Execute(c) \/ Gateway!Record(c)
           \/ Gateway!Tell(c) \/ Gateway!Refuse(c)
    PROVE  UNCHANGED asked
BY DEF Gateway!Execute, Gateway!Record, Gateway!Tell, Gateway!Refuse

LEMMA NextAInv == AInv /\ [Next]_vars => AInv'
<1> SUFFICES ASSUME AInv, [Next]_vars PROVE AInv'
  OBVIOUS
<1> USE DEF AInv, PcOK, ApprovalInv, Requests, GoTo, agentVars, clientVars,
            gatewayVars, Points
<1>1. ASSUME NEW r \in Chats, ChatStart(r) PROVE AInv'
  BY <1>1, AskedStays DEF ChatStart
<1>2. ASSUME NEW r \in Chats, ChatRead(r) PROVE AInv'
  BY <1>2, AskedStays DEF ChatRead
<1>3. ASSUME NEW r \in Chats, ChatLoad(r) PROVE AInv'
  BY <1>3, AskedStays, JourneyAssumption DEF ChatLoad
<1>4. ASSUME NEW r \in Chats, ChatInput(r) PROVE AInv'
  BY <1>4, AskedStays DEF ChatInput
<1>5. ASSUME NEW r \in Chats, Route(r) PROVE AInv'
  BY <1>5, AskedStays DEF Route, Nodes
<1>6. ASSUME NEW r \in Chats, AgentEnds(r) PROVE AInv'
  BY <1>6, AskedStays, JourneyAssumption DEF AgentEnds
<1>7. ASSUME NEW r \in Chats, ChatRespond(r) PROVE AInv'
  BY <1>7, AskedStays DEF ChatRespond
<1>8. ASSUME NEW r \in Chats, Propose(r) \/ ProposeFails(r) PROVE AInv'
  BY <1>8, AskedStays DEF Propose, ProposeFails
<1>9. ASSUME NEW r \in Approvals, NEW p \in Proposals, ApproveStart(r, p)
      PROVE  AInv'
  BY <1>9, AskedStays, JourneyAssumption DEF ApproveStart
<1>10. ASSUME NEW r \in Approvals, ApproveRead(r) PROVE AInv'
  BY <1>10, AskedStays, JourneyAssumption DEF ApproveRead, Matches
<1>11. ASSUME NEW r \in Approvals, Governed(r) PROVE AInv'
  BY <1>11, AskedStays DEF Governed
<1>12. ASSUME NEW r \in Approvals, ApproveLoad(r) PROVE AInv'
  BY <1>12, AskedStays DEF ApproveLoad
<1>13. ASSUME NEW r \in Approvals, ApprovePut(r) \/ ApproveRespond(r) PROVE AInv'
  BY <1>13, AskedStays DEF ApprovePut, ApproveRespond
(* Only the governance node is bound to submit_order.                      *)
<1>14. ASSUME NEW r \in Requests, NEW c \in Calls, Submit(r, c) PROVE AInv'
  <2>1. pc[r] = "governance"
    BY <1>14 DEF Submit, Tools
  <2>2. r \in Approvals /\ local[r].pending = target[r]
    BY <2>1
  <2>3. asked' = [asked EXCEPT ![c] = target[r]]
    BY <1>14, <2>2 DEF Submit, Gateway!Ask
  <2>4. UNCHANGED <<pc, local, target>>
    BY <1>14 DEF Submit
  <2>5. caller' = [caller EXCEPT ![c] = r] /\ target[r] # None
    BY <1>14, <2>2 DEF Submit
  <2>6. target[r] \in Proposals
    BY <2>2, <2>5
  <2>7. OrdersWereApproved'
    BY <2>2, <2>3, <2>4, <2>5 DEF OrdersWereApproved
  <2> QED
    BY <2>3, <2>4, <2>5, <2>6, <2>7
<1>15. ASSUME NEW c \in Calls, GatewayWorks(c) PROVE AInv'
  BY <1>15, AskedStays, GatewayAsked DEF GatewayWorks
<1>16. ASSUME NEW c \in Calls, CallEnds(c) PROVE AInv'
  <2>1. asked' = asked
    BY <1>16, GatewayAsked DEF CallEnds, Succeeds, Refuses, Errs
  <2> QED
    BY <1>16, <2>1, AskedStays DEF CallEnds, Succeeds, Refuses, Errs, EndCall
<1>17. ASSUME NEW r \in Requests, Dies(r) PROVE AInv'
  BY <1>17, AskedStays DEF Dies
<1>18. CASE Restart
  BY <1>18, AskedStays DEF Restart, Busy
<1>19. CASE UNCHANGED vars
  BY <1>19, AskedStays DEF vars
<1> QED
  BY <1>1, <1>2, <1>3, <1>4, <1>5, <1>6, <1>7, <1>8, <1>9, <1>10, <1>11,
     <1>12, <1>13, <1>14, <1>15, <1>16, <1>17, <1>18, <1>19
     DEF Next, ServerStep, ChatStep, ApproveStep

(* No order is asked for that the customer has not approved.               *)
THEOREM NoUnapprovedOrder == Spec => []OrdersWereApproved
<1>1. AInv => OrdersWereApproved
  BY DEF AInv
<1> QED
  BY <1>1, InitAInv, NextAInv, PTL DEF Spec

-----------------------------------------------------------------------------
(* Types, and the agreement of repeated approvals.  AgreeInv ties an       *)
(* answer to the record: what a call was told is on record under its key,  *)
(* the last call of an approval has the key of its proposal, and what the  *)
(* approval reports is what that call was told.  None of it is lost in a   *)
(* restart.                                                                *)

AgreeInv ==
    /\ \A c \in Calls :
         /\ told[c] # None => asked[c] # None /\ recorded[asked[c]] = told[c]
         /\ outcome[c] = "success" => told[c] # None
         /\ outcome[c] # "none" => asked[c] # None
    /\ \A r \in Approvals :
         /\ last[r] # None => asked[last[r]] = target[r] /\ target[r] # None
         /\ pc[r] = "idle" => report[r].status = "none" /\ last[r] = None
         /\ report[r].status = "success" =>
              /\ target[r] # None /\ report[r].order # None
              /\ recorded[target[r]] = report[r].order

(* Until the governance agent has returned there is no report, and then    *)
(* the last call is over.                                                  *)
RefusalInv ==
    \A r \in Approvals :
        /\ pc[r] \in {"idle", "read", "governance"} => report[r].status = "none"
        /\ report[r].status = "refused" =>
             last[r] # None /\ outcome[last[r]] = "refused"

(* Only a proposal that was minted is ever carried or shown.               *)
MintedInv ==
    /\ ckpt.pending \in minted \cup {None}
    /\ \A r \in Requests : local[r].pending \in minted \cup {None}
    /\ \A r \in Chats : draft[r] \in minted \cup {None}

TypeInv == TypeOK /\ MintedInv

JInv == TypeInv /\ AInv /\ AgreeInv /\ RefusalInv

LEMMA InitJInv == Init => JInv
<1> SUFFICES ASSUME Init PROVE JInv
  OBVIOUS
<1>1. TypeInv
  BY JourneyAssumption
     DEF Init, TypeInv, MintedInv, TypeOK, State, NoState, Points, Reports, Requests,
         Gateway!Init, Gateway!TypeOK, Refusals
<1>2. AgreeInv
  BY JourneyAssumption DEF Init, AgreeInv, Requests, Gateway!Init
<1>3. RefusalInv
  BY DEF Init, RefusalInv
<1> QED
  BY <1>1, <1>2, <1>3, InitAInv DEF JInv

LEMMA ChatTypes ==
    ASSUME TypeInv, NEW r \in Chats,
           ChatStart(r) \/ ChatStep(r) \/ Propose(r) \/ ProposeFails(r)
    PROVE  TypeInv'
<1> USE DEF TypeInv, MintedInv, TypeOK, Points, State, Requests, GoTo, agentVars, clientVars,
            gatewayVars, Gateway!TypeOK, Refusals
<1>1. CASE ChatStart(r)
  BY <1>1 DEF ChatStart
<1>2. CASE ChatRead(r)
  BY <1>2 DEF ChatRead
<1>3. CASE ChatLoad(r)
  BY <1>3 DEF ChatLoad
<1>4. CASE ChatInput(r)
  BY <1>4 DEF ChatInput
<1>5. CASE Route(r)
  BY <1>5 DEF Route, Nodes
<1>6. CASE AgentEnds(r)
  BY <1>6 DEF AgentEnds
<1>7. CASE ChatRespond(r)
  BY <1>7 DEF ChatRespond
<1>8. CASE Propose(r)
  BY <1>8 DEF Propose
<1>9. CASE ProposeFails(r)
  BY <1>9 DEF ProposeFails
<1> QED
  BY <1>1, <1>2, <1>3, <1>4, <1>5, <1>6, <1>7, <1>8, <1>9 DEF ChatStep

LEMMA ApproveTypes ==
    ASSUME TypeInv, NEW r \in Approvals,
           ApproveStep(r) \/ \E p \in Proposals : ApproveStart(r, p)
    PROVE  TypeInv'
<1> USE DEF TypeInv, MintedInv, TypeOK, Points, State, Reports, Requests, GoTo,
            Answer, agentVars, clientVars, gatewayVars, Gateway!TypeOK, Refusals
<1>1. ASSUME NEW p \in Proposals, ApproveStart(r, p) PROVE TypeInv'
  BY <1>1 DEF ApproveStart
<1>2. CASE ApproveRead(r)
  <2>1. CASE Matches(r)
    <3>1. local' = [local EXCEPT ![r] = ckpt] /\ pc' = [pc EXCEPT ![r] = "governance"]
      BY <1>2, <2>1 DEF ApproveRead
    <3>2. local' \in [Requests -> [pending : Proposals \cup {None},
                                   turns : SUBSET Requests]]
      BY <3>1
    <3>3. \A s \in Requests : local'[s].pending \in minted \cup {None}
      BY <3>1
    <3>4. pc' \in [Requests -> Points]
      BY <3>1
    <3> QED
      BY <1>2, <2>1, <3>2, <3>3, <3>4 DEF ApproveRead
  <2>2. CASE ~Matches(r)
    <3>1. report' = [report EXCEPT ![r] = [status |-> "rejected", order |-> None]]
      BY <1>2, <2>2 DEF ApproveRead
    <3>2. report' \in [Approvals -> [status : Reports, order : Calls \cup {None}]]
      BY <3>1
    <3> QED
      BY <1>2, <2>2, <3>2 DEF ApproveRead
  <2> QED
    BY <2>1, <2>2
<1>3. CASE Governed(r)
  <2>1. PICK status \in Reports, order \in Calls \cup {None} :
          report' = [report EXCEPT ![r] = [status |-> status, order |-> order]]
    BY <1>3 DEF Governed
  <2>2. report' \in [Approvals -> [status : Reports, order : Calls \cup {None}]]
    BY <2>1
  <2> QED
    BY <1>3, <2>2 DEF Governed
<1>4. CASE ApproveLoad(r)
  BY <1>4 DEF ApproveLoad
<1>5. CASE ApprovePut(r)
  BY <1>5 DEF ApprovePut
<1>6. CASE ApproveRespond(r)
  BY <1>6 DEF ApproveRespond
<1> QED
  BY <1>1, <1>2, <1>3, <1>4, <1>5, <1>6 DEF ApproveStep

LEMMA GatewayTypes ==
    ASSUME TypeInv, NEW c \in Calls,
           \/ GatewayWorks(c) \/ CallEnds(c)
           \/ \E r \in Requests : Submit(r, c)
    PROVE  TypeInv'
<1> USE DEF TypeInv, MintedInv, TypeOK, Points, State, clientVars, gatewayVars,
            Gateway!TypeOK, Refusals
<1>1. ASSUME NEW r \in Requests, Submit(r, c) PROVE TypeInv'
  BY <1>1 DEF Submit, Gateway!Ask
<1>2. CASE GatewayWorks(c)
  BY <1>2 DEF GatewayWorks, Gateway!Execute, Gateway!Record
<1>3. CASE Succeeds(c)
  BY <1>3 DEF Succeeds, EndCall, Gateway!Tell
<1>4. CASE Refuses(c) \/ Errs(c)
  BY <1>4 DEF Refuses, Errs, EndCall, Gateway!Refuse
<1> QED
  BY <1>1, <1>2, <1>3, <1>4 DEF CallEnds

LEMMA NextTypes == TypeInv /\ [Next]_vars => TypeInv'
<1> SUFFICES ASSUME TypeInv, [Next]_vars PROVE TypeInv'
  OBVIOUS
<1> USE DEF TypeInv, MintedInv, TypeOK, Points, State, GoTo, agentVars,
            clientVars, gatewayVars, Gateway!TypeOK, Refusals
<1>1. ASSUME NEW r \in Requests, Dies(r) PROVE TypeInv'
  BY <1>1 DEF Dies
<1>2. CASE Restart
  BY <1>2 DEF Restart, NoState
<1>3. CASE UNCHANGED vars
  BY <1>3 DEF vars
<1> QED
  BY <1>1, <1>2, <1>3, ChatTypes, ApproveTypes, GatewayTypes DEF Next, ServerStep

(* A step that touches neither calls nor reports keeps their agreement.    *)
LEMMA AgreeStays ==
    ASSUME JInv, UNCHANGED <<asked, recorded, told, outcome, last, report>>,
           \A r \in Approvals : /\ target'[r] = target[r] \/ pc[r] = "idle"
                                /\ pc'[r] = "idle" => pc[r] = "idle"
    PROVE  AgreeInv'
<1>1. ASSUME NEW c \in Calls
      PROVE  /\ told'[c] # None => asked'[c] # None /\ recorded'[asked'[c]] = told'[c]
             /\ outcome'[c] = "success" => told'[c] # None
             /\ outcome'[c] # "none" => asked'[c] # None
  BY DEF JInv, AgreeInv
<1>2. ASSUME NEW r \in Approvals
      PROVE  /\ last'[r] # None => asked'[last'[r]] = target'[r] /\ target'[r] # None
             /\ pc'[r] = "idle" => report'[r].status = "none" /\ last'[r] = None
             /\ report'[r].status = "success" =>
                  /\ target'[r] # None /\ report'[r].order # None
                  /\ recorded'[target'[r]] = report'[r].order
  <2>1. CASE pc[r] = "idle"
    BY <2>1 DEF JInv, AgreeInv
  <2>2. CASE pc[r] # "idle"
    BY <2>2 DEF JInv, AgreeInv
  <2> QED
    BY <2>1, <2>2
<1> QED
  BY <1>1, <1>2 DEF AgreeInv

LEMMA SubmitAgree ==
    ASSUME JInv, NEW r \in Requests, NEW c \in Calls, Submit(r, c)
    PROVE  AgreeInv'
<1> USE DEF JInv, TypeInv, TypeOK, Gateway!TypeOK
<1>1. pc[r] = "governance"
  BY DEF Submit, Tools
<1>2. r \in Approvals /\ local[r].pending = target[r]
  BY <1>1 DEF AInv, ApprovalInv, Requests
<1>3. /\ asked[c] = None /\ target[r] # None
      /\ asked' = [asked EXCEPT ![c] = target[r]]
      /\ last' = [last EXCEPT ![r] = c]
      /\ UNCHANGED <<recorded, told, outcome, report, target, pc>>
  BY <1>2 DEF Submit, Gateway!Ask, clientVars
<1>4. ASSUME NEW s \in Approvals
      PROVE  last'[s] # None => asked'[last'[s]] = target'[s] /\ target'[s] # None
  <2>1. CASE s = r
    BY <1>2, <1>3, <2>1 DEF Requests
  <2>2. CASE s # r
    BY <1>2, <1>3, <2>2 DEF AgreeInv, Requests
  <2> QED
    BY <2>1, <2>2
<1>5. \A s \in Approvals : pc[s] = "idle" => last'[s] = None
  BY <1>1, <1>2, <1>3 DEF AgreeInv, Requests
<1> QED
  BY <1>3, <1>4, <1>5 DEF AgreeInv

LEMMA CallAgree ==
    ASSUME JInv, NEW c \in Calls, GatewayWorks(c) \/ CallEnds(c)
    PROVE  AgreeInv'
<1> USE JourneyAssumption DEF JInv, TypeInv, TypeOK, AgreeInv, Gateway!TypeOK
<1>1. CASE Gateway!Execute(c) /\ GatewayWorks(c)
  BY <1>1 DEF GatewayWorks, Gateway!Execute, clientVars
<1>2. CASE Gateway!Record(c) /\ GatewayWorks(c)
  BY <1>2 DEF GatewayWorks, Gateway!Record, clientVars
<1>3. CASE Succeeds(c)
  BY <1>3 DEF Succeeds, EndCall, Gateway!Tell, clientVars
<1>4. CASE Refuses(c) \/ Errs(c)
  BY <1>4 DEF Refuses, Errs, EndCall, Gateway!Refuse, clientVars, gatewayVars
<1> QED
  BY <1>1, <1>2, <1>3, <1>4 DEF GatewayWorks, CallEnds

LEMMA GovernedAgree ==
    ASSUME JInv, NEW r \in Approvals, Governed(r) PROVE AgreeInv'
<1> USE JourneyAssumption DEF JInv, TypeInv, TypeOK, Gateway!TypeOK
<1>1. /\ UNCHANGED <<asked, recorded, told, outcome, last, target>>
      /\ pc' = [pc EXCEPT ![r] = "load"]
  BY DEF Governed, GoTo, agentVars, gatewayVars
<1>2. \/ last[r] = None /\ report' = [report EXCEPT ![r] =
                                       [status |-> "error", order |-> None]]
      \/ /\ last[r] # None
         /\ report' = [report EXCEPT ![r] =
                         [status |-> outcome[last[r]], order |-> told[last[r]]]]
  BY DEF Governed, Answer
<1>3. report'[r].status = "success" =>
        /\ target[r] # None /\ report'[r].order # None
        /\ recorded[target[r]] = report'[r].order
  BY <1>2 DEF AgreeInv, Requests
<1>4. \A s \in Approvals : s # r => report'[s] = report[s]
  BY <1>2
<1> QED
  BY <1>1, <1>3, <1>4 DEF AgreeInv, Requests

LEMMA NextRefusalInv ==
    ASSUME JInv, [Next]_vars
    PROVE  RefusalInv'
<1> USE JourneyAssumption DEF JInv, TypeInv, TypeOK, RefusalInv, Requests, GoTo,
        agentVars, clientVars, gatewayVars
<1>1. ASSUME NEW r \in Chats,
             ChatStart(r) \/ ChatStep(r) \/ Propose(r) \/ ProposeFails(r)
      PROVE  RefusalInv'
  BY <1>1 DEF ChatStart, ChatStep, Propose, ProposeFails, ChatRead, ChatLoad,
              ChatInput, Route, AgentEnds, ChatRespond
<1>2. ASSUME NEW r \in Approvals, NEW p \in Proposals, ApproveStart(r, p)
      PROVE  RefusalInv'
  BY <1>2 DEF ApproveStart
<1>3. ASSUME NEW r \in Approvals, ApproveRead(r) PROVE RefusalInv'
  BY <1>3 DEF ApproveRead, Answer
<1>4. ASSUME NEW r \in Approvals, Governed(r) PROVE RefusalInv'
  BY <1>4 DEF Governed, Answer
<1>5. ASSUME NEW r \in Approvals,
             ApproveLoad(r) \/ ApprovePut(r) \/ ApproveRespond(r)
      PROVE  RefusalInv'
  BY <1>5 DEF ApproveLoad, ApprovePut, ApproveRespond
<1>6. ASSUME NEW r \in Requests, NEW c \in Calls, Submit(r, c) PROVE RefusalInv'
  <2>1. pc[r] = "governance"
    BY <1>6 DEF Submit, Tools
  <2> QED
    BY <1>6, <2>1 DEF Submit
<1>7. ASSUME NEW c \in Calls, GatewayWorks(c) PROVE RefusalInv'
  BY <1>7 DEF GatewayWorks
<1>8. ASSUME NEW c \in Calls, CallEnds(c) PROVE RefusalInv'
  BY <1>8 DEF CallEnds, Succeeds, Refuses, Errs, EndCall
<1>9. ASSUME NEW r \in Requests, Dies(r) PROVE RefusalInv'
  BY <1>9 DEF Dies
<1>10. CASE Restart
  BY <1>10 DEF Restart
<1>11. CASE UNCHANGED vars
  BY <1>11 DEF vars
<1> QED
  BY <1>1, <1>2, <1>3, <1>4, <1>5, <1>6, <1>7, <1>8, <1>9, <1>10, <1>11
     DEF Next, ServerStep, ApproveStep

LEMMA NextJInv == JInv /\ [Next]_vars => JInv'
<1> SUFFICES ASSUME JInv, [Next]_vars PROVE JInv'
  OBVIOUS
<1>1. TypeInv' /\ AInv' /\ RefusalInv'
  BY NextTypes, NextAInv, NextRefusalInv DEF JInv
<1> SUFFICES AgreeInv'
  BY <1>1 DEF JInv
<1> USE DEF JInv, TypeInv, TypeOK, Requests, GoTo, agentVars, clientVars,
            gatewayVars
<1>2. ASSUME NEW r \in Chats,
             ChatStart(r) \/ ChatStep(r) \/ Propose(r) \/ ProposeFails(r)
      PROVE  AgreeInv'
  <2>1. /\ UNCHANGED <<asked, recorded, told, outcome, last, report, target>>
        /\ \A s \in Approvals : pc'[s] = pc[s]
    BY <1>2, JourneyAssumption
       DEF ChatStart, ChatStep, Propose, ProposeFails, ChatRead, ChatLoad,
           ChatInput, Route, AgentEnds, ChatRespond
  <2> QED
    BY <2>1, AgreeStays
<1>3. ASSUME NEW r \in Approvals, NEW p \in Proposals, ApproveStart(r, p)
      PROVE  AgreeInv'
  BY <1>3, AgreeStays DEF ApproveStart
<1>4. ASSUME NEW r \in Approvals, ApproveRead(r) PROVE AgreeInv'
  <2>1. CASE Matches(r)
    BY <1>4, <2>1, AgreeStays DEF ApproveRead
  <2>2. CASE ~Matches(r)
    BY <1>4, <2>2 DEF ApproveRead, AgreeInv, Answer
  <2> QED
    BY <2>1, <2>2
<1>5. ASSUME NEW r \in Approvals,
             ApproveLoad(r) \/ ApprovePut(r) \/ ApproveRespond(r)
      PROVE  AgreeInv'
  BY <1>5, AgreeStays DEF ApproveLoad, ApprovePut, ApproveRespond
<1>6. ASSUME NEW r \in Requests, Dies(r) PROVE AgreeInv'
  BY <1>6, AgreeStays DEF Dies
<1>7. CASE Restart
  BY <1>7, AgreeStays DEF Restart, Busy
<1>8. CASE UNCHANGED vars
  BY <1>8, AgreeStays DEF vars
<1> QED
  BY <1>2, <1>3, <1>4, <1>5, <1>6, <1>7, <1>8, GovernedAgree, SubmitAgree,
     CallAgree DEF Next, ServerStep, ApproveStep

LEMMA JInvHolds == Spec => []JInv
BY InitJInv, NextJInv, PTL DEF Spec

(* Every variable of the journey keeps its type.                           *)
THEOREM JourneyTypes == Spec => []TypeOK
<1>1. JInv => TypeOK
  BY DEF JInv, TypeInv
<1> QED
  BY <1>1, JInvHolds, PTL

LEMMA JInvAgrees == JInv => ApprovalsAgree
BY DEF JInv, AgreeInv, ApprovalsAgree

(* Approvals of one proposal that report success report one order, however *)
(* they overlap, fail, are repeated or outlive a restart.                  *)
THEOREM RepeatedApprovals == Spec => []ApprovalsAgree
BY JInvAgrees, JInvHolds, PTL

-----------------------------------------------------------------------------
(* The Gateway within the journey keeps OrderPromise: the journey adds who *)
(* asks, and takes no liberty with what is asked, recorded or told.        *)

Promise == INSTANCE OrderPromiseProofs WITH Keys <- Proposals, refused <- Refusals

LEMMA NextPromises == JInv /\ [Next]_vars => [Gateway!Next]_Gateway!promiseVars
<1> SUFFICES ASSUME JInv, [Next]_vars
             PROVE  Gateway!Next \/ UNCHANGED Gateway!promiseVars
  OBVIOUS
<1> SUFFICES Gateway!Next \/ UNCHANGED <<gatewayVars, Refusals>>
  BY DEF gatewayVars, Gateway!promiseVars
<1>0. UNCHANGED <<gatewayVars, outcome>> => UNCHANGED <<gatewayVars, Refusals>>
  BY DEF Refusals
<1> USE DEF agentVars
<1>1. ASSUME NEW r \in Chats,
             ChatStart(r) \/ ChatStep(r) \/ Propose(r) \/ ProposeFails(r)
      PROVE  UNCHANGED <<gatewayVars, outcome>>
  BY <1>1 DEF ChatStart, ChatStep, ChatRead, ChatLoad, ChatInput, Route, AgentEnds,
              ChatRespond, Propose, ProposeFails
<1>2. ASSUME NEW r \in Approvals,
             ApproveStep(r) \/ \E p \in Proposals : ApproveStart(r, p)
      PROVE  UNCHANGED <<gatewayVars, outcome>>
  BY <1>2 DEF ApproveStart, ApproveStep, ApproveRead, Governed, ApproveLoad,
              ApprovePut, ApproveRespond
<1>3. ASSUME NEW r \in Requests, NEW c \in Calls, Submit(r, c) PROVE Gateway!Next
  <2>1. PICK p \in Proposals : p = local[r].pending
    BY <1>3 DEF Submit, JInv, TypeInv, TypeOK, State
  <2>2. Gateway!Ask(c, p)
    BY <1>3, <2>1 DEF Submit, Gateway!Ask
  <2> QED
    BY <2>2 DEF Gateway!Next
<1>4. ASSUME NEW c \in Calls, GatewayWorks(c) PROVE Gateway!Next
  BY <1>4 DEF GatewayWorks, Gateway!Next
<1>5. ASSUME NEW c \in Calls, CallEnds(c)
      PROVE  Gateway!Next \/ UNCHANGED <<gatewayVars, Refusals>>
  <2>1. CASE Errs(c)
    <3>1. outcome[c] = "none" /\ outcome' = [outcome EXCEPT ![c] = "error"]
      BY <2>1 DEF Errs, EndCall
    <3>2. Refusals' = Refusals
      BY <3>1 DEF JInv, TypeInv, TypeOK, Refusals
    <3> QED
      BY <2>1, <3>2 DEF Errs
  <2>2. CASE Succeeds(c) \/ Refuses(c)
    BY <2>2 DEF Succeeds, Refuses, Gateway!Next
  <2> QED
    BY <1>5, <2>1, <2>2 DEF CallEnds
<1>6. ASSUME NEW r \in Requests, Dies(r) PROVE UNCHANGED <<gatewayVars, outcome>>
  BY <1>6 DEF Dies
<1>7. CASE Restart \/ UNCHANGED vars
  <2> UNCHANGED <<gatewayVars, outcome>>
    BY <1>7 DEF Restart, vars
  <2> QED
    BY <1>0
<1> QED
  BY <1>0, <1>1, <1>2, <1>3, <1>4, <1>5, <1>6, <1>7 DEF Next, ServerStep

(* Whatever the requests do, fail at or forget, the Gateway's promise is   *)
(* what SubmitOrder keeps and no more is asked of it.                      *)
THEOREM JourneyPromises == Spec => Gateway!Spec
<1>1. Init => Gateway!Init
  BY DEF Init
<1> QED
  BY <1>1, NextPromises, JInvHolds, PTL DEF Spec, Gateway!Spec

LEMMA SamePromise == Gateway!Spec => Promise!Spec
BY DEF Gateway!Spec, Gateway!Init, Gateway!Next, Gateway!promiseVars, Gateway!Ask,
       Gateway!Execute, Gateway!Record, Gateway!Tell, Gateway!Refuse, Gateway!Open,
       Promise!Spec, Promise!Init, Promise!Next, Promise!promiseVars, Promise!Ask,
       Promise!Execute, Promise!Record, Promise!Tell, Promise!Refuse, Promise!Open

LEMMA JInvReports ==
    JInv /\ Promise!RecordsAreReal /\ Promise!RefusalsHold => ReportsAreReal
<1> SUFFICES ASSUME JInv, Promise!RecordsAreReal, Promise!RefusalsHold
             PROVE  ReportsAreReal
  OBVIOUS
<1>1. ASSUME NEW r \in Approvals, report[r].status = "success"
      PROVE  report[r].order \in executed /\ asked[report[r].order] = target[r]
  <2>1. /\ target[r] \in Proposals /\ report[r].order # None
        /\ recorded[target[r]] = report[r].order
    BY <1>1 DEF JInv, AgreeInv, TypeInv, TypeOK
  <2> QED
    BY <2>1 DEF Promise!RecordsAreReal
<1>2. ASSUME NEW r \in Approvals, report[r].status = "refused"
      PROVE  last[r] # None /\ last[r] \notin executed
  <2>1. last[r] # None /\ outcome[last[r]] = "refused" /\ last[r] \in Calls
    BY <1>2 DEF JInv, RefusalInv, TypeInv, TypeOK, Requests
  <2> QED
    BY <2>1 DEF Promise!RefusalsHold, Refusals
<1> QED
  BY <1>1, <1>2 DEF ReportsAreReal

(* A success the customer is told of is an order that was made for the     *)
(* proposal the approval named; a refusal is of a call that made none.     *)
THEOREM RealReports == Spec => []ReportsAreReal
BY JInvReports, JInvHolds, JourneyPromises, SamePromise, Promise!PromiseIsReal,
   Promise!PromiseRefuses, PTL

(* No order, record or answer is withdrawn while the journey goes on.      *)
THEOREM JourneyLasts == Spec => Gateway!NothingWithdrawn
<1>1. Promise!NothingWithdrawn => Gateway!NothingWithdrawn
  BY DEF Promise!NothingWithdrawn, Gateway!NothingWithdrawn, Promise!Kept,
         Gateway!Kept, Promise!promiseVars, Gateway!promiseVars
<1> QED
  BY <1>1, JourneyPromises, SamePromise, Promise!PromiseLasts, PTL

=============================================================================

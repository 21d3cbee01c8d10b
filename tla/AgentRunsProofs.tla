--------------------------- MODULE AgentRunsProofs ---------------------------
(***************************************************************************)
(* The tools' answers against the trail and the CRM, and the compensation  *)
(* of a failed sync, for every number of runs of any agents and every      *)
(* subset of the faults.                                                   *)
(*                                                                         *)
(* CallInv says what a tool call has done at each point of its handler;    *)
(* PromiseInv what the record says of what was told; RunInv that a         *)
(* scripted run has its follow-up under way only after its order was told  *)
(* it, and with that order's id.                                           *)
(***************************************************************************)
EXTENDS AgentRuns, TLAPS

Good == {"success", "partial_failure"}
ToolNames == Views \cup {"get_catalog", "propose_order", "create_case"}

CallInv(c) ==
    /\ at[c] = "idle" => /\ wire[c] = "none" /\ answer[c] = "none"
                         /\ verdict[c] = "none" /\ trail[c] = "none"
    /\ at[c] \in {"view", "catalog", "post", "audit"} => trail[c] = "none"
    /\ at[c] \in {"view", "catalog"} => call[c].tool # "create_case"
    /\ at[c] = "audit" => verdict[c] # "none"
    /\ at[c] = "return" => verdict[c] # "none" /\ trail[c] = verdict[c]
    /\ Ended(c) <=> answer[c] # "none"
    /\ answer[c] = "result" => trail[c] \in Good
    /\ at[c] # "idle" /\ call[c].tool = "create_case" =>
         /\ verdict[c] \in Good \/ trail[c] \in Good => wire[c] = "opened"
         /\ call[c].is_compensation => verdict[c] # "success" /\ trail[c] # "success"

ToolTypes ==
    /\ at \in [Calls -> Points]
    /\ wire \in [Calls -> {"none", "sent", "opened", "refused"}]
    /\ verdict \in [Calls -> Outcomes] /\ trail \in [Calls -> Outcomes]
    /\ answer \in [Calls -> {"none", "result", "error"}]
    /\ DOMAIN call = Calls

ToolsInv == ToolTypes /\ \A c \in Calls : CallInv(c)

-----------------------------------------------------------------------------
(* The tools.                                                              *)

LEMMA InitToolsInv == ToolsInit => ToolsInv
BY DEF ToolsInit, ToolsInv, ToolTypes, CallInv, Points, Outcomes, Ended, Good

LEMMA CallToolsInv ==
    ASSUME ToolsInv, NEW c \in Calls, NEW args, args.tool \in ToolNames,
           Call(c, args)
    PROVE  ToolsInv'
<1> USE DEF ToolsInv, ToolTypes, Points, Views, ToolNames
<1>1. FirstAwait(args.tool) \in {"view", "catalog", "post"}
  BY DEF FirstAwait
<1>2. FirstAwait(args.tool) \in {"view", "catalog"} => args.tool # "create_case"
  BY DEF FirstAwait
<1>3. ToolTypes'
  BY <1>1 DEF Call, GoTo
<1>4. CallInv(c)'
  BY <1>1, <1>2 DEF Call, GoTo, CallInv, Ended, Good
<1>5. ASSUME NEW d \in Calls, d # c PROVE CallInv(d)'
  BY <1>5 DEF Call, GoTo, CallInv, Ended
<1> QED
  BY <1>3, <1>4, <1>5

(* A step of one call leaves the others alone.                             *)
LEMMA Frame ==
    ASSUME ToolsInv, ToolTypes', NEW c \in Calls, CallInv(c)', call' = call,
           \A d \in Calls : d # c =>
             /\ at'[d] = at[d] /\ wire'[d] = wire[d] /\ verdict'[d] = verdict[d]
             /\ trail'[d] = trail[d] /\ answer'[d] = answer[d]
    PROVE  ToolsInv'
BY DEF ToolsInv, CallInv, Ended

LEMMA HandlerToolsInv ==
    ASSUME ToolsInv, NEW c \in Calls,
           Handler(c) \/ OpenCase(c) \/ RefuseCase(c)
    PROVE  ToolsInv'
<1> USE DEF ToolsInv, ToolTypes, CallInv, Ended, Good, Outcomes, Points,
            GoTo, Decide, Raise
<1>1. CASE ReadView(c)
  BY <1>1, Frame DEF ReadView, Views
<1>2. CASE ReadCatalog(c)
  BY <1>2, Frame DEF ReadCatalog
<1>3. CASE ReadFails(c)
  BY <1>3, Frame DEF ReadFails
<1>4. CASE PostReturns(c)
  BY <1>4, Frame DEF PostReturns
<1>5. CASE PostFails(c)
  BY <1>5, Frame DEF PostFails
<1>6. CASE RecordAudit(c)
  BY <1>6, Frame DEF RecordAudit
<1>7. CASE AuditRaises(c)
  BY <1>7, Frame DEF AuditRaises
<1>8. CASE Return(c)
  BY <1>8, Frame DEF Return
<1>9. CASE OpenCase(c)
  BY <1>9, Frame DEF OpenCase
<1>10. CASE RefuseCase(c)
  BY <1>10, Frame DEF RefuseCase
<1> QED
  BY <1>1, <1>2, <1>3, <1>4, <1>5, <1>6, <1>7, <1>8, <1>9, <1>10 DEF Handler

LEMMA ToolsNextInv == ToolsInv /\ ToolsNext => ToolsInv'
<1> SUFFICES ASSUME ToolsInv, ToolsNext PROVE ToolsInv'
  OBVIOUS
<1>1. CASE GatewayCrash
  BY <1>1 DEF GatewayCrash, ToolsInv, ToolTypes, CallInv, Ended, Active, Good,
              Outcomes, Points
<1> QED
  BY <1>1, HandlerToolsInv DEF ToolsNext

LEMMA ToolsStutter == ToolsInv /\ UNCHANGED toolVars => ToolsInv'
BY DEF ToolsInv, ToolTypes, CallInv, Ended, toolVars

(* What the tools do behind a run's back.                                  *)
LEMMA ToolsFrame ==
    ASSUME ToolsInv, ToolsNext
    PROVE  /\ call' = call
           /\ \A c \in Calls : /\ at[c] = "idle" <=> at'[c] = "idle"
                               /\ Ended(c) => Ended(c)'
<1> USE DEF ToolsInv, ToolTypes, Points, Ended, GoTo, Decide, Raise
<1>1. ASSUME NEW c \in Calls, Handler(c) \/ OpenCase(c) \/ RefuseCase(c)
      PROVE  /\ call' = call
             /\ \A d \in Calls : /\ at[d] = "idle" <=> at'[d] = "idle"
                                 /\ Ended(d) => Ended(d)'
  BY <1>1 DEF Handler, ReadView, ReadCatalog, ReadFails, PostReturns, PostFails,
              RecordAudit, AuditRaises, Return, OpenCase, RefuseCase
<1>2. CASE GatewayCrash
  BY <1>2 DEF GatewayCrash, Active
<1> QED
  BY <1>1, <1>2 DEF ToolsNext

-----------------------------------------------------------------------------
(* The runs.                                                               *)

PromiseInv ==
    /\ Orders!TypeOK
    /\ \A k \in {Proposal[r] : r \in Runs} :
         recorded[k] # None => recorded[k] \in executed
    /\ \A r \in Runs :
         /\ asked[r] \in {None, Proposal[r]}
         /\ outcome[r] = "success" => told[r] # None
         /\ told[r] # None =>
              asked[r] # None /\ recorded[asked[r]] = told[r]

RunTypes ==
    /\ agent \in Casts /\ stage \in [Runs -> Stages]
    /\ outcome \in [Runs -> {"none", "success", "refused", "error"}]

(* A scripted run and its follow-up call.                                  *)
RunInv(r) ==
    LET followup == <<r, "followup">> IN
    r \in Scripted =>
      /\ stage[r] # "work"
      /\ stage[r] \in {"sync", "followup"} => outcome[r] = "success"
      /\ stage[r] \in {"submit", "sync"} => at[followup] = "idle"
      /\ stage[r] = "done" =>
           Ended(followup) \/ outcome[r] \in {"refused", "error"}
      /\ at[followup] # "idle" =>
           /\ outcome[r] = "success"
           /\ call[followup].tool = "create_case"
           /\ call[followup].is_compensation
           /\ call[followup].correlation_order_id = told[r]

RunsInv == RunTypes /\ \A r \in Runs : RunInv(r)

RInv == ToolsInv /\ PromiseInv /\ RunsInv

LEMMA KeysAssumption ==
    ASSUME NEW r \in Runs
    PROVE  Proposal[r] \in {Proposal[s] : s \in Runs}
OBVIOUS

LEMMA InitRInv == Init => RInv
<1> SUFFICES ASSUME Init PROVE RInv
  OBVIOUS
<1>1. ToolsInv
  BY InitToolsInv DEF Init
<1>2. PromiseInv
  BY RunsAssumption DEF Init, PromiseInv, Orders!Init, Orders!TypeOK, Refusals
<1>3. RunsInv
  BY RunsAssumption DEF Init, ToolsInit, RunsInv, RunTypes, RunInv, Scripted,
                        Stages, Slots
<1> QED
  BY <1>1, <1>2, <1>3 DEF RInv

(* The promise keeps its word, and what was told stays told.               *)
LEMMA PromiseSteps ==
    ASSUME PromiseInv, NEW r \in Runs, outcome' = outcome,
           Orders!Ask(r, Proposal[r]) \/ Orders!Execute(r) \/ Orders!Record(r)
    PROVE  PromiseInv' /\ told' = told
<1> USE RunsAssumption DEF PromiseInv, Orders!TypeOK, Refusals
<1>1. CASE Orders!Ask(r, Proposal[r])
  BY <1>1, KeysAssumption DEF Orders!Ask
<1>2. CASE Orders!Execute(r)
  BY <1>2 DEF Orders!Execute
<1>3. CASE Orders!Record(r)
  BY <1>3 DEF Orders!Record
<1> QED
  BY <1>1, <1>2, <1>3

LEMMA SubmitRInv == ASSUME RInv, NEW r \in Runs, Submit(r) PROVE RInv'
<1>1. ToolsInv'
  BY ToolsStutter DEF RInv, Submit
<1>2. PromiseInv' /\ told' = told
  BY PromiseSteps DEF RInv, Submit, runVars
<1>3. RunsInv'
  BY <1>2 DEF RInv, Submit, RunsInv, RunTypes, RunInv, Scripted, Ended, toolVars,
              runVars
<1> QED
  BY <1>1, <1>2, <1>3 DEF RInv

LEMMA OrderWorksRInv == ASSUME RInv, NEW r \in Runs, OrderWorks(r) PROVE RInv'
<1>1. ToolsInv'
  BY ToolsStutter DEF RInv, OrderWorks
<1>2. PromiseInv' /\ told' = told
  BY PromiseSteps DEF RInv, OrderWorks, runVars
<1>3. RunsInv'
  BY <1>2 DEF RInv, OrderWorks, RunsInv, RunTypes, RunInv, Scripted, Ended,
              toolVars, runVars
<1> QED
  BY <1>1, <1>2, <1>3 DEF RInv

LEMMA SubmitEndsRInv == ASSUME RInv, NEW r \in Runs, SubmitEnds(r) PROVE RInv'
<1> USE RunsAssumption
<1>1. ToolsInv'
  BY ToolsStutter DEF RInv, SubmitEnds, EndSubmit
<1>2. outcome[r] = "none"
  BY DEF SubmitEnds, EndSubmit
<1>3. RunsInv'
  <2>1. \E status \in {"success", "refused", "error"} :
           outcome' = [outcome EXCEPT ![r] = status]
    BY DEF SubmitEnds, EndSubmit
  <2>2. UNCHANGED <<agent, stage, at, call, answer>>
    BY DEF SubmitEnds, EndSubmit, toolVars
  <2>3. RunTypes'
    BY <2>1, <2>2 DEF RInv, RunsInv, RunTypes
  <2>4. \A s \in Runs : s # r => told'[s] = told[s]
    BY DEF RInv, PromiseInv, Orders!TypeOK, SubmitEnds, Orders!Tell, Orders!Refuse,
           orderVars
  <2>5. ASSUME NEW s \in Runs PROVE RunInv(s)'
    BY <1>2, <2>1, <2>2, <2>4 DEF RInv, RunsInv, RunTypes, RunInv, Scripted, Ended
  <2> QED
    BY <2>3, <2>5 DEF RunsInv
<1>4. PromiseInv'
  <2>1. outcome \in [Runs -> {"none", "success", "refused", "error"}]
    BY DEF RInv, RunsInv, RunTypes
  <2>2. CASE Orders!Tell(r) /\ EndSubmit(r, "success")
    <3>1. /\ asked[r] # None /\ told[r] = None
          /\ recorded[asked[r]] # None
          /\ told' = [told EXCEPT ![r] = recorded[asked[r]]]
          /\ UNCHANGED <<asked, executed, recorded>>
      BY <2>2 DEF Orders!Tell, Orders!Open
    <3>2. outcome' = [outcome EXCEPT ![r] = "success"]
      BY <2>2 DEF EndSubmit
    <3> QED
      BY <2>1, <3>1, <3>2 DEF RInv, PromiseInv, Orders!TypeOK, Refusals
  <2>3. ASSUME UNCHANGED orderVars, NEW status \in {"refused", "error"},
               EndSubmit(r, status)
        PROVE  PromiseInv'
    BY <2>1, <2>3 DEF RInv, PromiseInv, Orders!TypeOK, Refusals, orderVars, EndSubmit
  <2> QED
    BY <2>2, <2>3 DEF SubmitEnds, Orders!Refuse, orderVars
<1> QED
  BY <1>1, <1>3, <1>4 DEF RInv

LEMMA PromiseStutter ==
    ASSUME PromiseInv, UNCHANGED <<outcome, orderVars>> PROVE PromiseInv'
BY DEF PromiseInv, Orders!TypeOK, Refusals, orderVars

LEMMA CallsAreRunsCalls ==
    ASSUME NEW r \in Runs, NEW slot \in Slots PROVE <<r, slot>> \in Calls
BY RunsAssumption

LEMMA SyncRInv == ASSUME RInv, NEW r \in Runs, Sync(r) PROVE RInv'
<1>1. Call(<<r, "sync">>, Case(TRUE, FALSE, told[r]))
  BY DEF Sync
<1>2. <<r, "sync">> \in Calls /\ \A s \in Runs : <<s, "followup">> \in Calls
  BY CallsAreRunsCalls DEF Slots
<1>3. ToolsInv'
  BY <1>1, <1>2, CallToolsInv DEF RInv, Case, ToolNames
<1>4. PromiseInv'
  BY PromiseStutter DEF RInv, Sync
<1>5. \A s \in Runs : /\ at'[<<s, "followup">>] = at[<<s, "followup">>]
                      /\ call'[<<s, "followup">>] = call[<<s, "followup">>]
  BY <1>1, <1>2 DEF Call, GoTo, RInv, ToolsInv, ToolTypes
<1>6. RunsInv'
  BY <1>5 DEF RInv, RunsInv, RunTypes, RunInv, Scripted, Ended, Sync, Step,
              Stages, orderVars
<1> QED
  BY <1>3, <1>4, <1>6 DEF RInv

LEMMA FollowUpRInv == ASSUME RInv, NEW r \in Runs, FollowUp(r) PROVE RInv'
<1> DEFINE followup == <<r, "followup">>
<1>1. Call(followup, Case(FALSE, TRUE, told[r]))
  BY DEF FollowUp
<1>2. \A s \in Runs : <<s, "followup">> \in Calls
  BY CallsAreRunsCalls DEF Slots
<1>3. ToolsInv'
  BY <1>1, <1>2, CallToolsInv DEF RInv, Case, ToolNames
<1>4. PromiseInv'
  BY PromiseStutter DEF RInv, FollowUp
<1>5. /\ at' = [at EXCEPT ![followup] = "post"]
      /\ call' = [call EXCEPT ![followup] = Case(FALSE, TRUE, told[r])]
  BY <1>1 DEF Call, GoTo, Case, FirstAwait, Views
<1>6. ASSUME NEW s \in Runs, s # r PROVE RunInv(s)'
  <2>1. <<s, "followup">> # followup
    BY <1>6
  <2>2. /\ at'[<<s, "followup">>] = at[<<s, "followup">>]
        /\ call'[<<s, "followup">>] = call[<<s, "followup">>]
    BY <1>2, <1>5, <2>1 DEF RInv, ToolsInv, ToolTypes
  <2> QED
    BY <1>6, <2>2 DEF RInv, RunsInv, RunTypes, RunInv, Scripted, Ended, FollowUp,
                      Step, orderVars
<1>7. RunInv(r)'
  <2>1. stage[r] = "sync" /\ stage'[r] = "followup"
    BY DEF FollowUp, Step, RInv, RunsInv, RunTypes
  <2>2. UNCHANGED <<agent, outcome, told>>
    BY DEF FollowUp, Step, orderVars
  <2>3. call'[followup] = Case(FALSE, TRUE, told[r])
    BY <1>2, <1>5 DEF RInv, ToolsInv, ToolTypes
  <2> QED
    BY <2>1, <2>2, <2>3 DEF RInv, RunsInv, RunInv, Scripted, Case
<1>8. RunTypes'
  BY DEF RInv, RunsInv, RunTypes, FollowUp, Step, Stages
<1> QED
  BY <1>3, <1>4, <1>6, <1>7, <1>8 DEF RInv, RunsInv

LEMMA ReplyRInv == ASSUME RInv, NEW r \in Runs, Reply(r) PROVE RInv'
<1>1. ToolsInv'
  BY ToolsStutter DEF RInv, Reply
<1>2. PromiseInv'
  BY PromiseStutter DEF RInv, Reply
<1>3. RunsInv'
  BY DEF RInv, RunsInv, RunTypes, RunInv, Scripted, Ended, Reply, Step, Stages,
         toolVars, orderVars
<1> QED
  BY <1>1, <1>2, <1>3 DEF RInv

(* A free run calls under its own name, and is not a scripted one.         *)
LEMMA UseToolRInv ==
    ASSUME RInv, NEW r \in Runs, NEW c \in Calls, UseTool(r, c) PROVE RInv'
<1>1. PICK tool \in Tools(r) : \E args \in Arguments(tool) : Call(c, args)
  BY DEF UseTool
<1>2. PICK args \in Arguments(tool) : Call(c, args)
  BY <1>1
<1>3. tool \in ToolNames
  BY DEF Tools, ToolNames, Views
<1>4. args.tool = tool
  BY <1>2, <1>3 DEF Arguments, ToolNames, Views, Read, Case
<1>5. ToolsInv'
  BY <1>2, <1>3, <1>4, CallToolsInv DEF RInv
<1>6. PromiseInv'
  BY PromiseStutter DEF RInv, UseTool, runVars
<1>7. ASSUME NEW s \in Runs PROVE RunInv(s)'
  <2>1. CASE s = r
    BY <2>1 DEF RInv, RunsInv, RunInv, Scripted, UseTool, runVars
  <2>2. CASE s # r
    <3>0. PICK slot \in FreeSlots : c = <<r, slot>>
      BY DEF UseTool
    <3>1. <<s, "followup">> \in Calls /\ <<s, "followup">> # c
      BY <2>2, <3>0, CallsAreRunsCalls DEF Slots
    <3>2. /\ at'[<<s, "followup">>] = at[<<s, "followup">>]
          /\ call'[<<s, "followup">>] = call[<<s, "followup">>]
      BY <1>2, <3>1 DEF Call, GoTo, RInv, ToolsInv, ToolTypes
    <3> QED
      BY <3>2 DEF RInv, RunsInv, RunInv, Scripted, Ended, UseTool, runVars, orderVars
  <2> QED
    BY <2>1, <2>2
<1>8. RunTypes'
  BY DEF RInv, RunsInv, RunTypes, UseTool, runVars
<1> QED
  BY <1>5, <1>6, <1>7, <1>8 DEF RInv, RunsInv

LEMMA ToolsRInv ==
    ASSUME RInv, ToolsNext, UNCHANGED <<runVars, orderVars>> PROVE RInv'
<1>1. ToolsInv'
  BY ToolsNextInv DEF RInv
<1>2. PromiseInv'
  BY PromiseStutter DEF RInv, runVars
<1>3. ASSUME NEW r \in Runs PROVE RunInv(r)'
  BY <1>3, ToolsFrame, CallsAreRunsCalls
     DEF Slots, RInv, RunsInv, RunInv, Scripted, runVars, orderVars
<1> QED
  BY <1>1, <1>2, <1>3 DEF RInv, RunsInv, RunTypes, runVars

LEMMA NextRInv == RInv /\ [Next]_vars => RInv'
<1> SUFFICES ASSUME RInv, [Next]_vars PROVE RInv'
  OBVIOUS
<1>1. CASE UNCHANGED vars
  <2>1. ToolsInv' /\ PromiseInv'
    BY <1>1, ToolsStutter, PromiseStutter DEF RInv, vars, runVars
  <2>2. RunsInv'
    BY <1>1 DEF RInv, RunsInv, RunTypes, RunInv, Scripted, Ended, vars, runVars,
                toolVars, orderVars
  <2> QED
    BY <2>1, <2>2 DEF RInv
<1> QED
  BY <1>1, SubmitRInv, OrderWorksRInv, SubmitEndsRInv, SyncRInv, FollowUpRInv,
     ReplyRInv, UseToolRInv, ToolsRInv DEF Next

LEMMA RInvHolds == Spec => []RInv
BY InitRInv, NextRInv, PTL DEF Spec

(* The order of a committed follow-up is the one on record.                *)
FollowUpOnRecord(r) ==
    LET order == call[<<r, "followup">>].correlation_order_id IN
      /\ wire[<<r, "followup">>] = "opened"
      /\ order \in executed /\ recorded[Proposal[r]] = order

FollowUpInv == \A r \in Scripted : OpenedBy(r) => FollowUpOnRecord(r)

LEMMA FollowUpInvHolds == RInv => FollowUpInv
<1> SUFFICES ASSUME RInv, NEW r \in Scripted, OpenedBy(r) PROVE FollowUpOnRecord(r)
  BY DEF FollowUpInv
<1> DEFINE followup == <<r, "followup">>
<1>1. r \in Runs /\ followup \in Calls
  BY CallsAreRunsCalls DEF Scripted, Slots
<1>2. at[followup] # "idle"
  BY <1>1 DEF RInv, ToolsInv, CallInv, OpenedBy
<1>3. /\ outcome[r] = "success"
      /\ call[followup].tool = "create_case"
      /\ call[followup].correlation_order_id = told[r]
  BY <1>1, <1>2 DEF RInv, RunsInv, RunInv
<1>4. wire[followup] = "opened"
  BY <1>1, <1>2, <1>3 DEF RInv, ToolsInv, CallInv, Good, OpenedBy
<1>5. recorded[Proposal[r]] = told[r] /\ told[r] # None
  BY <1>1, <1>3 DEF RInv, PromiseInv
<1>6. told[r] \in executed
  BY <1>1, <1>5, KeysAssumption DEF RInv, PromiseInv
<1> QED
  BY <1>3, <1>4, <1>5, <1>6 DEF FollowUpOnRecord

-----------------------------------------------------------------------------
(* The theorems.                                                           *)

(* Every variable keeps its type.                                          *)
THEOREM RunTypesHold == Spec => []TypeOK
<1>1. RInv => TypeOK
  BY DEF RInv, ToolsInv, ToolTypes, PromiseInv, RunsInv, RunTypes, TypeOK
<1> QED
  BY <1>1, RInvHolds, PTL

(* No agent works with a result that the trail does not hold.              *)
THEOREM RecordFirst == Spec => []ResultsOnRecord
<1>1. RInv => ResultsOnRecord
  BY DEF RInv, ToolsInv, CallInv, ResultsOnRecord, Good
<1> QED
  BY <1>1, RInvHolds, PTL

(* Every case the trail names was opened.                                  *)
THEOREM CasesExist == Spec => []RecordedCasesExist
<1>1. RInv => RecordedCasesExist
  BY DEF RInv, ToolsInv, ToolTypes, CallInv, RecordedCasesExist, Good
<1> QED
  BY <1>1, RInvHolds, PTL

(* What a scripted run ends with is true of order system, CRM and trail.   *)
THEOREM RealFollowUp == Spec => []FollowUpIsReal
<1>1. RInv => FollowUpIsReal
  <2> SUFFICES ASSUME RInv, NEW r \in Scripted, stage[r] = "done",
                      answer[<<r, "followup">>] # "error",
                      ~(outcome[r] \in {"refused", "error"}
                          /\ at[<<r, "followup">>] = "idle")
               PROVE  /\ OpenedBy(r) /\ wire[<<r, "followup">>] = "opened"
                      /\ call[<<r, "followup">>].correlation_order_id \in executed
                      /\ recorded[Proposal[r]]
                            = call[<<r, "followup">>].correlation_order_id
    BY DEF FollowUpIsReal
  <2> DEFINE followup == <<r, "followup">>
  <2>1. r \in Runs /\ followup \in Calls
    BY CallsAreRunsCalls DEF Scripted, Slots
  <2>2. Ended(followup)
    BY <2>1 DEF RInv, RunsInv, RunInv
  <2>3. at[followup] # "idle"
    BY <2>2 DEF Ended
  <2>4. call[followup].tool = "create_case" /\ call[followup].is_compensation
    BY <2>1, <2>3 DEF RInv, RunsInv, RunInv
  <2>5. answer[followup] = "result"
    BY <2>1, <2>2 DEF RInv, ToolsInv, ToolTypes, CallInv
  <2>6. OpenedBy(r)
    BY <2>1, <2>3, <2>4, <2>5 DEF RInv, ToolsInv, CallInv, Good, OpenedBy
  <2> QED
    BY <2>6, FollowUpInvHolds DEF FollowUpInv, FollowUpOnRecord
<1> QED
  BY <1>1, RInvHolds, PTL

(* The follow-up cases of one proposal name one order.                     *)
THEOREM FollowUpAgreement == Spec => []FollowUpsAgree
<1>1. RInv => FollowUpsAgree
  BY FollowUpInvHolds DEF FollowUpInv, FollowUpOnRecord, FollowUpsAgree
<1> QED
  BY <1>1, RInvHolds, PTL

-----------------------------------------------------------------------------
(* The write path within the runs keeps OrderPromise.                      *)

LEMMA NextPromises == RInv /\ [Next]_vars => [Orders!Next]_Orders!promiseVars
<1> SUFFICES ASSUME RInv, [Next]_vars
             PROVE  Orders!Next \/ UNCHANGED Orders!promiseVars
  OBVIOUS
<1>0. UNCHANGED <<orderVars, outcome>> => UNCHANGED Orders!promiseVars
  BY DEF Orders!promiseVars, orderVars, Refusals
<1> USE DEF orderVars, runVars
<1>1. ASSUME NEW r \in Runs, Submit(r) PROVE Orders!Next
  BY <1>1, KeysAssumption DEF Submit, Orders!Next
<1>2. ASSUME NEW r \in Runs, OrderWorks(r) PROVE Orders!Next
  BY <1>2 DEF OrderWorks, Orders!Next
<1>3. ASSUME NEW r \in Runs, SubmitEnds(r)
      PROVE  Orders!Next \/ UNCHANGED Orders!promiseVars
  <2>1. CASE EndSubmit(r, "error") /\ UNCHANGED orderVars
    <3>1. Refusals' = Refusals
      BY <2>1 DEF EndSubmit, RInv, RunsInv, RunTypes, Refusals
    <3> QED
      BY <2>1, <3>1 DEF Orders!promiseVars
  <2> QED
    BY <1>3, <2>1 DEF SubmitEnds, Orders!Next
<1>4. ASSUME NEW r \in Runs,
             \/ Sync(r) \/ FollowUp(r) \/ Reply(r)
             \/ \E c \in Calls : UseTool(r, c)
      PROVE  UNCHANGED <<orderVars, outcome>>
  BY <1>4 DEF Sync, FollowUp, Reply, UseTool
<1>5. CASE UNCHANGED vars
  BY <1>0, <1>5 DEF vars
<1> QED
  BY <1>0, <1>1, <1>2, <1>3, <1>4, <1>5 DEF Next

(* However many runs share a proposal, and whatever their models do, the   *)
(* write path is used as its promise allows.                               *)
THEOREM RunsPromise == Spec => Orders!Spec
<1>1. Init => Orders!Init
  BY DEF Init
<1> QED
  BY <1>1, NextPromises, RInvHolds, PTL DEF Spec, Orders!Spec

-----------------------------------------------------------------------------
(* A follow-up stands.                                                     *)

(* A row that is committed stays, with the arguments of its call.          *)
LEMMA RowStays ==
    ASSUME RInv, [Next]_vars, NEW c \in Calls, trail[c] # "none"
    PROVE  trail'[c] = trail[c] /\ call'[c] = call[c]
<1>1. ToolTypes /\ CallInv(c) /\ at[c] \notin {"idle", "view", "catalog", "post", "audit"}
  BY DEF RInv, ToolsInv, CallInv
<1>2. ASSUME NEW d \in Calls, NEW args, Call(d, args)
      PROVE  trail'[c] = trail[c] /\ call'[c] = call[c]
  BY <1>1, <1>2 DEF Call, ToolTypes
<1>3. ASSUME ToolsNext PROVE trail'[c] = trail[c]
  BY <1>1, <1>3
     DEF ToolsNext, Handler, ReadView, ReadCatalog, ReadFails, PostReturns, PostFails,
         RecordAudit, AuditRaises, Return, OpenCase, RefuseCase, GatewayCrash, ToolTypes
<1>4. ASSUME ToolsNext PROVE call' = call
  BY <1>4, ToolsFrame DEF RInv
<1>5. ASSUME NEW r \in Runs, Sync(r) \/ FollowUp(r) \/ \E d \in Calls : UseTool(r, d)
      PROVE  trail'[c] = trail[c] /\ call'[c] = call[c]
  <2>1. <<r, "sync">> \in Calls /\ <<r, "followup">> \in Calls
    BY CallsAreRunsCalls DEF Slots
  <2> QED
    BY <1>2, <1>5, <2>1 DEF Sync, FollowUp, UseTool
<1>6. ASSUME UNCHANGED toolVars PROVE trail'[c] = trail[c] /\ call'[c] = call[c]
  BY <1>6 DEF toolVars
<1> QED
  BY <1>3, <1>4, <1>5, <1>6
     DEF Next, Submit, OrderWorks, SubmitEnds, EndSubmit, Reply, vars

(* A follow-up case the customer was told of stays open and goes on naming *)
(* the one order on record, whatever later runs, late orders, late cases   *)
(* or a restart do.                                                        *)
THEOREM FollowUpLasts == Spec => FollowUpStands
<1> DEFINE Stands(r) ==
      LET order == call[<<r, "followup">>].correlation_order_id IN
        /\ OpenedBy(r)' /\ wire'[<<r, "followup">>] = "opened"
        /\ call'[<<r, "followup">>].correlation_order_id = order
        /\ order \in executed' /\ recorded'[Proposal[r]] = order
<1>1. ASSUME RInv, FollowUpInv', [Next]_vars, NEW r \in Scripted, OpenedBy(r)
      PROVE  Stands(r)
  <2> DEFINE followup == <<r, "followup">>
  <2>1. r \in Runs /\ followup \in Calls
    BY CallsAreRunsCalls DEF Scripted, Slots
  <2>2. trail'[followup] = trail[followup] /\ call'[followup] = call[followup]
    BY <1>1, <2>1, RowStays DEF OpenedBy
  <2>3. OpenedBy(r)'
    BY <1>1, <2>2 DEF OpenedBy
  <2>4. agent' = agent
    BY <1>1 DEF Next, Submit, OrderWorks, SubmitEnds, EndSubmit, Sync, FollowUp, Reply,
                UseTool, Step, runVars, vars
  <2>5. FollowUpOnRecord(r)'
    BY <1>1, <2>3, <2>4 DEF FollowUpInv, Scripted
  <2> QED
    BY <2>2, <2>3, <2>5 DEF FollowUpOnRecord
<1>2. RInv /\ FollowUpInv' /\ [Next]_vars => \A r \in Scripted : OpenedBy(r) => Stands(r)
  BY <1>1
<1> QED
  BY <1>2, FollowUpInvHolds, RInvHolds, PTL DEF Spec, FollowUpStands

=============================================================================

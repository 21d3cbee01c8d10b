----------------------------- MODULE MCAgentRuns -----------------------------
(* Small instances of AgentRuns: a scripted approval, and with it another  *)
(* of the same proposal or the run of any other agent.                     *)
EXTENDS AgentRuns, TLC

CONSTANTS r1, r2, p1, cust, stranger, plan

MCCalls == Runs \X Slots
MCProposal == [r \in Runs |-> p1]
TwoScripted == {r1 :> "scripted" @@ r2 :> "scripted"}
ScriptedAndAny == {r1 :> "scripted" @@ r2 :> any : any \in Agents}
=============================================================================

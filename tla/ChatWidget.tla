----------------------------- MODULE ChatWidget -----------------------------
(***************************************************************************)
(* One browser tab with the chat widget (chat.js) on top of Journey: the   *)
(* proposal card, the composer and the Approve button, each disabled while *)
(* its own fetch is in progress and not while the other's is.  A fetch     *)
(* that fails, or whose body is not JSON, as that of a 500 is not, skips   *)
(* everything but the finally block; a 404 or a 409 is JSON and is handled *)
(* like a success.  The thread id is in sessionStorage and survives a      *)
(* reload; the card does not.                                              *)
(***************************************************************************)
EXTENDS Journey

CONSTANT Patient   \* does the customer wait until nothing is in progress?

ASSUME PatientAssumption == Patient \in BOOLEAN

VARIABLES
    card,      \* currentProposal: the proposal whose card is shown
    waiting,   \* requests whose fetch is in progress
    synced     \* history: the card comes from the last answer of the thread

widgetVars == <<card, waiting, synced>>
allVars == <<vars, widgetVars>>

WidgetInit == Init /\ card = None /\ waiting = {} /\ synced = TRUE

(* renderProposal *)
Show(proposal) == card' = proposal

Resting == waiting = {} /\ \A r \in Requests : ~Busy(r)

(* setBusy, approveBtnEl.disabled *)
Free(controls) == waiting \cap controls = {} /\ (Patient => Resting)

Send(r) ==
    /\ Free(Chats)
    /\ ChatStart(r)
    /\ waiting' = waiting \cup {r}
    /\ UNCHANGED <<card, synced>>

Approve(r) ==
    /\ Free(Approvals) /\ card # None
    /\ ApproveStart(r, card)
    /\ waiting' = waiting \cup {r}
    /\ UNCHANGED <<card, synced>>

(* Mutant: a chat that proposes nothing leaves the card as it is. *)
MutantChatAnswered(r) ==
    /\ r \in waiting \cap Chats /\ pc[r] = "done"
    /\ card' = IF local[r].pending = None THEN card ELSE local[r].pending
    /\ waiting' = waiting \ {r}
    /\ synced' = TRUE
    /\ UNCHANGED vars

ChatAnswered(r) ==
    /\ r \in waiting \cap Chats /\ pc[r] = "done"
    /\ Show(local[r].pending)
    /\ waiting' = waiting \ {r}
    /\ synced' = TRUE
    /\ UNCHANGED vars

(* Mutant: the card shows the result of the order. *)
MutantApproveAnswered(r) ==
    /\ r \in waiting \cap Approvals /\ pc[r] = "done"
    /\ card' = report[r].order
    /\ waiting' = waiting \ {r}
    /\ synced' = (synced \/ report[r].status # "rejected")
    /\ UNCHANGED vars

(* Whatever the answer, 404 and 409 included, the card is hidden.          *)
ApproveAnswered(r) ==
    /\ r \in waiting \cap Approvals /\ pc[r] = "done"
    /\ Show(None)
    /\ waiting' = waiting \ {r}
    /\ synced' = (synced \/ report[r].status # "rejected")
    /\ UNCHANGED vars

(* Mutant: the button is enabled on the way out only when all went well.   *)
MutantFetchFails(r) == FALSE

(* The server failed, or its answer is lost, even while it works on.       *)
FetchFails(r) ==
    /\ r \in waiting
    /\ pc[r] = "dead" \/ "lost" \in Faults
    /\ waiting' = waiting \ {r}
    /\ synced' = FALSE
    /\ UNCHANGED <<vars, card>>

Reload ==
    /\ "reload" \in Faults
    /\ card' = None /\ waiting' = {} /\ synced' = FALSE
    /\ UNCHANGED vars

Settle(r) == ChatAnswered(r) \/ ApproveAnswered(r) \/ FetchFails(r)

ServerNext == ServerStep /\ UNCHANGED widgetVars

WidgetNext ==
    \/ \E r \in Chats : Send(r)
    \/ \E r \in Approvals : Approve(r)
    \/ \E r \in Requests : Settle(r)
    \/ Reload
    \/ ServerNext

(* fetch settles once the server has answered or the connection is broken. *)
WidgetFairness ==
    /\ \A r \in Chats : WF_allVars(ChatStep(r) /\ UNCHANGED widgetVars)
    /\ \A r \in Approvals : WF_allVars(ApproveStep(r) /\ UNCHANGED widgetVars)
    /\ \A c \in Calls : WF_allVars(CallEnds(c) /\ UNCHANGED widgetVars)
    /\ \A r \in Requests : WF_allVars(Settle(r) /\ pc[r] \in {"done", "dead"})

WidgetSpec == WidgetInit /\ [][WidgetNext]_allVars /\ WidgetFairness

-----------------------------------------------------------------------------
(* Properties.                                                             *)

WidgetTypeOK ==
    /\ card \in shown \cup {None}
    /\ waiting \subseteq Requests
    /\ synced \in BOOLEAN

(* The card the customer sees is the proposal /approve would accept, and   *)
(* no card means none is open, whenever the last fetch was answered and    *)
(* nothing is in progress: one answered chat repairs what a lost answer,   *)
(* a dead request or a reload has left behind (chat.js renderProposal,     *)
(* api.py 111).                                                            *)
CardIsPending == synced /\ Resting => card = ckpt.pending

(* The governance agent never runs again for a proposal whose approval was *)
(* carried through, though a lost answer leaves its card on the screen and *)
(* its button enabled (api.py 111-113).                                    *)
NoSecondRun ==
    [][\A r, s \in Approvals :
          pc[r] = "read" /\ pc'[r] = "governance" /\ target[s] = target[r]
            => pc[s] # "done" \/ report[s].status = "rejected"]_vars

(* Each control comes back: a request the widget waits for is settled,     *)
(* whatever the models, the tools and the order system do.                 *)
ControlsComeBack == \A r \in Requests : r \in waiting ~> r \notin waiting

(* Widget and server keep what the assistant promises (Conversation): the  *)
(* open proposal is the one pending in the thread; what has been minted    *)
(* and is neither pending nor the draft of an agent at work is over.       *)
Drafts == {draft[r] : r \in {q \in Chats : pc[q] \in Nodes}}

Talk ==
    INSTANCE Conversation WITH
        open     <- ckpt.pending,
        past     <- minted \ (Drafts \cup {ckpt.pending}),
        approved <- {target[r] : r \in Approvals} \ {None}

ConversationKept == Talk!Spec

=============================================================================

---------------------------- MODULE Conversation ----------------------------
(***************************************************************************)
(* What the assistant promises a customer who does one thing at a time:    *)
(* propose, approve, and only then execute.  At most one proposal of the   *)
(* conversation is open, none is opened twice, only the customer's consent *)
(* closes one that is not replaced, and an order is asked for only under a *)
(* proposal that is open and approved at that moment.                      *)
(***************************************************************************)
CONSTANTS
    Proposals,   \* proposal ids
    Calls,       \* calls of submit_order
    None

VARIABLES
    open,        \* the proposal the customer may approve, or None
    past,        \* proposals closed, replaced, or drafted and never opened
    approved,    \* proposals the customer has approved
    asked        \* the proposal each call was made for, or None

talkVars == <<open, past, approved, asked>>

TypeOK ==
    /\ open \in Proposals \cup {None}
    /\ past \subseteq Proposals /\ approved \subseteq Proposals
    /\ asked \in [Calls -> Proposals \cup {None}]

Init ==
    /\ open = None /\ past = {} /\ approved = {}
    /\ asked = [c \in Calls |-> None]

New(p) == p \notin past /\ p # open

(* A new proposal takes the place of the open one.                         *)
Offer(p) ==
    /\ New(p)
    /\ open' = p
    /\ past' = past \cup ({open} \ {None})
    /\ UNCHANGED <<approved, asked>>

(* A draft the customer never gets to see.                                 *)
Discard(p) ==
    /\ New(p)
    /\ past' = past \cup {p}
    /\ UNCHANGED <<open, approved, asked>>

(* Also of a card that is no longer true, which has no effect.             *)
Approve(p) ==
    /\ ~New(p)
    /\ approved' = approved \cup {p}
    /\ UNCHANGED <<open, past, asked>>

Consented == open # None /\ open \in approved

Ask(c) ==
    /\ Consented
    /\ asked[c] = None
    /\ asked' = [asked EXCEPT ![c] = open]
    /\ UNCHANGED <<open, past, approved>>

Close ==
    /\ Consented
    /\ open' = None
    /\ past' = past \cup {open}
    /\ UNCHANGED <<approved, asked>>

Next ==
    \/ \E p \in Proposals : Offer(p) \/ Discard(p) \/ Approve(p)
    \/ \E c \in Calls : Ask(c)
    \/ Close

Spec == Init /\ [][Next]_talkVars

-----------------------------------------------------------------------------
(* What is over stays over: a proposal that was closed or replaced is not  *)
(* open again, and nothing new is asked for under it (api.py 111-113).     *)
StaysOver(p) ==
    /\ p \in past' /\ p # open'
    /\ \A c \in Calls : asked'[c] = p => asked[c] = p

OverIsOver == [][\A p \in past : StaysOver(p)]_talkVars

=============================================================================

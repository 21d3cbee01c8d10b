------------------------------ MODULE RateLimit ------------------------------
(***************************************************************************)
(* The Gateway's front door: the API-key check (auth.py) and the           *)
(* fixed-window counter behind it (rate_limit.py), in the order asgi.py    *)
(* installs them: the middleware added last runs first, so a request meets *)
(* the key check before the counter.  The counter has no await between     *)
(* reading and writing its window, so a request is one step.               *)
(*                                                                         *)
(* Time is int(time.time()): whole seconds, far from the zero a fresh      *)
(* window starts at.  The clock is taken never to step back.               *)
(***************************************************************************)
EXTENDS Integers, Sequences, FiniteSets

CONSTANTS
    ApiKeys,       \* values of the x-api-key header, "anonymous" included
    GatewayKey,    \* GATEWAY_API_KEY
    Limit,         \* RATE_LIMIT_PER_MIN
    Window,        \* WINDOW_SECONDS
    Epoch,         \* the time the gateway starts
    MaxTime,       \* bound: the last second of the instance
    MaxRequests    \* bound: requests of the instance

ASSUME LimitAssumption ==
    /\ GatewayKey \in ApiKeys
    /\ Limit \in Nat \ {0} /\ Window \in Nat \ {0}
    /\ Epoch \in Nat /\ Epoch >= Window
    /\ MaxTime \in Nat /\ MaxRequests \in Nat

VARIABLES
    now,       \* int(time.time())
    windows,   \* _windows: each key's window start and count
    log        \* history: the requests so far and their answers

vars == <<now, windows, log>>

Init ==
    /\ now = Epoch
    /\ windows = [key \in ApiKeys |-> [start |-> 0, count |-> 0]]
    /\ log = <<>>

Answered(key, code) ==
    log' = Append(log, [key |-> key, time |-> now, code |-> code])

(* Mutants: a window one second too long; one whose start is not moved. *)
MutantRolled(w) ==
    IF now - w.start > Window THEN [start |-> now, count |-> 0] ELSE w
MutantStuckStart(w) ==
    IF now - w.start >= Window THEN [start |-> w.start, count |-> 0] ELSE w

(* A window that is over begins again now. *)
Rolled(w) ==
    IF now - w.start >= Window THEN [start |-> now, count |-> 0] ELSE w

(* A refused request counts too. *)
Throttle(key) ==
    LET w == Rolled(windows[key])
        count == w.count + 1 IN
      /\ windows' = [windows EXCEPT ![key] = [start |-> w.start, count |-> count]]
      /\ Answered(key, IF count > Limit THEN 429 ELSE 200)

Unauthorized(key) ==
    /\ key # GatewayKey
    /\ Answered(key, 401)
    /\ UNCHANGED windows

Dispatch(key) ==
    /\ Len(log) < MaxRequests
    /\ \/ Unauthorized(key)
       \/ key = GatewayKey /\ Throttle(key)
    /\ UNCHANGED now

Tick ==
    /\ now < MaxTime
    /\ now' = now + 1
    /\ UNCHANGED <<windows, log>>

Next == (\E key \in ApiKeys : Dispatch(key)) \/ Tick

Spec == Init /\ [][Next]_vars

-----------------------------------------------------------------------------
(* Properties.                                                             *)

Admitted == {i \in DOMAIN log : log[i].code = 200}
Within(i, first) == log[i].time >= first /\ log[i].time < first + Window

(* In no span of one window's length are more than twice the limit         *)
(* admitted: a burst at the end of a window may meet one at the start of   *)
(* the next, and no third.                                                 *)
TwiceTheLimit ==
    \A i \in Admitted :
        Cardinality({j \in Admitted : Within(j, log[i].time)}) <= 2 * Limit

(* A caller is refused only when the limit has been admitted within the    *)
(* last window's length: a refusal never outlives the window it belongs to.*)
NoUndueRefusal ==
    \A i \in DOMAIN log :
        log[i].code = 429 =>
            Cardinality({j \in Admitted : /\ j < i
                                          /\ log[j].time > log[i].time - Window})
              >= Limit

=============================================================================

------------------------------ MODULE GraphInit ------------------------------
(***************************************************************************)
(* get_graph (graph.py): the first requests of an orchestrator process     *)
(* build the graph over its checkpointer and cache it in three globals.    *)
(* Over MemorySaver this takes no await.  Over Postgres it takes two, and  *)
(* nothing stops a second request from starting in between; the globals    *)
(* are read again after each.                                              *)
(*                                                                         *)
(* Context manager, saver, connection and graph are named by the request   *)
(* that made them, a graph by its saver.  The connection of a context      *)
(* manager that no global and no coroutine refers to is closed when Python *)
(* finalises its generator (Collect): this is outside the repository.      *)
(***************************************************************************)
CONSTANTS
    Requests,   \* requests that call get_graph
    None

ASSUME NoneAssumption == None \notin Requests

VARIABLES
    postgres,   \* is POSTGRES_HOST set?
    at,         \* where each request is in get_graph
    cm,         \* _checkpointer_cm
    saver,      \* _checkpointer
    graph,      \* _compiled_graph
    conn,       \* the connection each request has opened
    got,        \* the graph each request was given
    raced       \* history: a request started while another was building

vars == <<postgres, at, cm, saver, graph, conn, got, raced>>

Building(r) == at[r] \in {"connect", "setup"}

Init ==
    /\ postgres \in BOOLEAN
    /\ at = [r \in Requests |-> "idle"]
    /\ cm = None /\ saver = None /\ graph = None
    /\ conn = [r \in Requests |-> "none"]
    /\ got = [r \in Requests |-> None]
    /\ raced = FALSE

GoTo(r, point) == at' = [at EXCEPT ![r] = point]
Give(r, g) == GoTo(r, "done") /\ got' = [got EXCEPT ![r] = g]

(* _compiled_graph is not None *)
Cached(r) ==
    /\ at[r] = "idle" /\ graph # None
    /\ Give(r, graph)
    /\ UNCHANGED <<postgres, cm, saver, graph, conn, raced>>

(* Mutant: MemorySaver is set up behind an await, like the other saver. *)
MutantBuildInMemory(r) ==
    /\ ~postgres
    /\ \/ at[r] = "idle" /\ graph = None /\ GoTo(r, "setup") /\ UNCHANGED <<graph, got>>
       \/ at[r] = "setup" /\ graph' = r /\ Give(r, r)
    /\ saver' = r
    /\ UNCHANGED <<postgres, cm, conn, raced>>

BuildInMemory(r) ==
    /\ at[r] = "idle" /\ graph = None /\ ~postgres
    /\ saver' = r /\ graph' = r
    /\ Give(r, r)
    /\ UNCHANGED <<postgres, cm, conn, raced>>

(* Mutant: the context manager is not kept. *)
MutantConnect(r) ==
    /\ at[r] = "idle" /\ graph = None /\ postgres
    /\ GoTo(r, "connect")
    /\ raced' = (raced \/ \E s \in Requests : Building(s))
    /\ UNCHANGED <<postgres, cm, saver, graph, conn, got>>

Connect(r) ==
    /\ at[r] = "idle" /\ graph = None /\ postgres
    /\ cm' = r
    /\ GoTo(r, "connect")
    /\ raced' = (raced \/ \E s \in Requests : Building(s))
    /\ UNCHANGED <<postgres, saver, graph, conn, got>>

(* Mutant: __aenter__ is not awaited. *)
MutantConnected(r) ==
    /\ at[r] = "connect"
    /\ conn' = [conn EXCEPT ![r] = "open"]
    /\ saver' = "coroutine"
    /\ GoTo(r, "setup")
    /\ UNCHANGED <<postgres, cm, graph, got, raced>>

Connected(r) ==
    /\ at[r] = "connect"
    /\ conn' = [conn EXCEPT ![r] = "open"]
    /\ saver' = r
    /\ GoTo(r, "setup")
    /\ UNCHANGED <<postgres, cm, graph, got, raced>>

(* setup() has ended; the graph is built over the saver of now.            *)
SetUp(r) ==
    /\ at[r] = "setup" /\ conn[r] = "open"
    /\ graph' = saver
    /\ Give(r, saver)
    /\ UNCHANGED <<postgres, cm, saver, conn, raced>>

(* Mutant: what setup() raises is waited out. *)
MutantFails(r) ==
    /\ at[r] = "connect"
    /\ GoTo(r, "failed")
    /\ UNCHANGED <<postgres, cm, saver, graph, conn, got, raced>>

(* The database refuses the connection or fails, or the connection was     *)
(* closed under setup().                                                   *)
Fails(r) ==
    /\ Building(r)
    /\ GoTo(r, "failed")
    /\ UNCHANGED <<postgres, cm, saver, graph, conn, got, raced>>

Collect(r) ==
    /\ conn[r] = "open" /\ cm # r
    /\ conn' = [conn EXCEPT ![r] = "closed"]
    /\ UNCHANGED <<postgres, at, cm, saver, graph, got, raced>>

GetGraph(r) ==
    \/ Cached(r) \/ BuildInMemory(r)
    \/ Connect(r) \/ Connected(r) \/ SetUp(r) \/ Fails(r)

Next == \E r \in Requests : GetGraph(r) \/ Collect(r)

(* An await of the database ends, in an answer or an exception.            *)
Spec == Init /\ [][Next]_vars /\ \A r \in Requests : WF_vars(GetGraph(r))

-----------------------------------------------------------------------------
(* Properties.                                                             *)

TypeOK ==
    /\ postgres \in BOOLEAN /\ raced \in BOOLEAN
    /\ at \in [Requests -> {"idle", "connect", "setup", "done", "failed"}]
    /\ {cm, saver, graph} \subseteq Requests \cup {None}
    /\ conn \in [Requests -> {"none", "open", "closed"}]
    /\ got \in [Requests -> Requests \cup {None}]

(* The cached graph stands on a connection that is open and kept open, and *)
(* every request is given that graph, as long as no two requests have      *)
(* built at the same time, however many attempts failed half way before.   *)
SoundUnlessRaced ==
    ~raced /\ graph # None =>
        /\ postgres => conn[graph] = "open" /\ cm = graph
        /\ saver = graph
        /\ \A r \in Requests : got[r] \in {None, graph}

(* Without POSTGRES_HOST there is never more than one thread store in a    *)
(* process, whatever overlaps: a request that were given another graph     *)
(* would not see the conversation of the first.                            *)
OneMemory ==
    ~postgres => \A r, s \in Requests : got[r] # None /\ got[s] # None => got[r] = got[s]

(* Every request gets a graph or an error.                                 *)
EveryRequestServed == \A r \in Requests : <>(at[r] \in {"done", "failed"})

=============================================================================

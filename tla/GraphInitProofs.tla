--------------------------- MODULE GraphInitProofs ---------------------------
(***************************************************************************)
(* The lazily built graph, for every number of requests.                   *)
(*                                                                         *)
(* In memory there is one store because nothing ever waits (MemoryInv).    *)
(* Over Postgres the properties say nothing of an attempt half way; as     *)
(* long as no two attempts overlap, the one that is building owns the      *)
(* globals, and once there is a graph nobody builds (AloneInv).            *)
(***************************************************************************)
EXTENDS GraphInit, TLAPS

MemoryInv ==
    ~postgres =>
        /\ \A r \in Requests : at[r] \in {"idle", "done"} /\ got[r] \in {None, graph}
        /\ saver = graph /\ ~raced

AloneInv ==
    postgres /\ ~raced =>
        /\ \A r \in Requests : Building(r) =>
             /\ cm = r /\ graph = None
             /\ at[r] = "setup" => saver = r /\ conn[r] = "open"
        /\ graph # None => saver = graph /\ cm = graph /\ conn[graph] = "open"
        /\ \A r \in Requests : got[r] \in {None, graph}

GInv == TypeOK /\ MemoryInv /\ AloneInv

LEMMA InitGInv == Init => GInv
BY NoneAssumption
   DEF Init, GInv, TypeOK, MemoryInv, AloneInv, Building

LEMMA NextGInv == GInv /\ [Next]_vars => GInv'
<1> SUFFICES ASSUME GInv, [Next]_vars PROVE GInv'
  OBVIOUS
<1> USE NoneAssumption DEF GInv, Building, GoTo, Give
<1>1. TypeOK'
  BY DEF TypeOK, Next, vars, GetGraph, Cached, BuildInMemory, Connect,
         Connected, SetUp, Fails, Collect
(* Only a request that finds no graph stores one, and in the same step.    *)
<1>2. MemoryInv'
  BY DEF TypeOK, MemoryInv, Next, vars, GetGraph, Cached, BuildInMemory,
         Connect, Connected, SetUp, Fails, Collect
<1>3. ASSUME NEW r \in Requests, Cached(r) PROVE AloneInv'
  BY <1>3 DEF TypeOK, AloneInv, Cached
<1>4. ASSUME NEW r \in Requests, BuildInMemory(r) PROVE AloneInv'
  BY <1>4 DEF AloneInv, BuildInMemory
<1>5. ASSUME NEW r \in Requests, Connect(r) PROVE AloneInv'
  BY <1>5 DEF TypeOK, AloneInv, Connect
<1>6. ASSUME NEW r \in Requests, Connected(r) PROVE AloneInv'
  BY <1>6 DEF TypeOK, AloneInv, Connected
<1>7. ASSUME NEW r \in Requests, SetUp(r) PROVE AloneInv'
  BY <1>7 DEF TypeOK, AloneInv, SetUp
<1>8. ASSUME NEW r \in Requests, Fails(r) PROVE AloneInv'
  BY <1>8 DEF TypeOK, AloneInv, Fails
(* Whoever owns the globals keeps its connection.                          *)
<1>9. ASSUME NEW r \in Requests, Collect(r) PROVE AloneInv'
  BY <1>9 DEF TypeOK, AloneInv, Collect
<1>10. CASE UNCHANGED vars
  BY <1>1, <1>2, <1>10 DEF AloneInv, vars
<1> QED
  BY <1>1, <1>2, <1>3, <1>4, <1>5, <1>6, <1>7, <1>8, <1>9, <1>10
     DEF Next, GetGraph

LEMMA GInvHolds == Spec => []GInv
BY InitGInv, NextGInv, PTL DEF Spec

(* Every variable keeps its type.                                          *)
THEOREM GraphTypes == Spec => []TypeOK
<1>1. GInv => TypeOK
  BY DEF GInv
<1> QED
  BY <1>1, GInvHolds, PTL

(* One thread store in a process without Postgres, whatever overlaps.      *)
THEOREM OneStore == Spec => []OneMemory
<1>1. GInv => OneMemory
  BY DEF GInv, MemoryInv, OneMemory
<1> QED
  BY <1>1, GInvHolds, PTL

(* Without overlap the cached graph stands on an open, kept connection and *)
(* is the one every request was given, after any number of failures.       *)
THEOREM SoundGraph == Spec => []SoundUnlessRaced
<1>1. GInv => SoundUnlessRaced
  BY DEF GInv, MemoryInv, AloneInv, SoundUnlessRaced
<1> QED
  BY <1>1, GInvHolds, PTL

=============================================================================

---------------------------- MODULE RateLimitProofs ----------------------------
(***************************************************************************)
(* The two bounds of the rate limiter, for every limit, window, key set    *)
(* and length of the run.                                                  *)
(*                                                                         *)
(* The counter forgets, and the properties speak of all requests so far.   *)
(* LimitInv ties the two together: the count is what was admitted since    *)
(* the window began, up to the limit, and a span that reaches into the     *)
(* window meets no more than one limit of earlier admissions.              *)
(***************************************************************************)
EXTENDS RateLimit, FiniteSetTheorems, TLAPS

Counter == [start : Nat, count : Nat]
Entry == [key : ApiKeys, time : Nat, code : {200, 401, 429}]

TypeInv ==
    /\ now \in Nat
    /\ windows \in [ApiKeys -> Counter]
    /\ log \in Seq(Entry)

Since(s) == {j \in Admitted : log[j].time >= s}
Before(t, s) == {j \in Admitted : log[j].time >= t /\ log[j].time < s}
Span(t) == {j \in Admitted : Within(j, t)}
Lately == {j \in Admitted : log[j].time > now - Window}
Recent(i) == {j \in Admitted : j < i /\ log[j].time > log[i].time - Window}

(* What the counter w knows of the log. *)
Counts(w) ==
    /\ w \in Counter /\ w.start <= now
    /\ Cardinality(Since(w.start)) = IF w.count <= Limit THEN w.count ELSE Limit
    /\ \A t \in Nat :
         t + Window > w.start => Cardinality(Before(t, w.start)) <= Limit

LimitInv ==
    /\ TypeInv
    /\ Counts(windows[GatewayKey])
    /\ \A j \in DOMAIN log : log[j].time <= now
    /\ \A j \in Admitted : log[j].time < windows[GatewayKey].start + Window
    /\ TwiceTheLimit /\ NoUndueRefusal

LEMMA Finite ==
    ASSUME TypeInv, NEW S, S \subseteq Admitted
    PROVE  IsFiniteSet(S) /\ Cardinality(S) \in Nat
<1>1. DOMAIN log = 1..Len(log) /\ Len(log) \in Nat
  BY DEF TypeInv
<1>2. IsFiniteSet(1..Len(log))
  BY <1>1, FS_Interval
<1>3. S \in SUBSET (1..Len(log))
  BY <1>1 DEF Admitted
<1> QED
  BY <1>2, <1>3, FS_Subset, FS_CardinalityType

LEMMA Smaller ==
    ASSUME TypeInv, NEW T, T \subseteq Admitted, NEW S, S \subseteq T
    PROVE  Cardinality(S) <= Cardinality(T)
BY Finite, FS_Subset

LEMMA Times == ASSUME TypeInv PROVE \A j \in DOMAIN log : log[j].time \in Nat
<1>1. \A j \in DOMAIN log : log[j] \in Entry
  BY DEF TypeInv
<1> QED
  BY <1>1 DEF Entry

(* The log after a request, whose entry is the n-th. *)
Grown(key, code, n) ==
    /\ n \notin DOMAIN log /\ n \in Nat
    /\ log' \in Seq(Entry) /\ DOMAIN log' = DOMAIN log \cup {n}
    /\ \A j \in DOMAIN log : log'[j] = log[j] /\ j \in Nat /\ j < n
    /\ log'[n] = [key |-> key, time |-> now, code |-> code]
    /\ Admitted' = IF code = 200 THEN Admitted \cup {n} ELSE Admitted

LEMMA Appended ==
    ASSUME TypeInv, NEW key \in ApiKeys, NEW code \in {200, 401, 429},
           Answered(key, code)
    PROVE  \E n : Grown(key, code, n)
<1> USE DEF TypeInv, Entry
<1> DEFINE n == Len(log) + 1
<1>1. /\ log' \in Seq(Entry) /\ Len(log) \in Nat /\ Len(log') = n
      /\ DOMAIN log = 1..Len(log) /\ DOMAIN log' = 1..n
      /\ \A j \in 1..Len(log) : log'[j] = log[j]
      /\ log'[n] = [key |-> key, time |-> now, code |-> code]
  BY DEF Answered
<1>2. DOMAIN log' = DOMAIN log \cup {n} /\ n \notin DOMAIN log
  BY <1>1
<1>3. Admitted' = IF code = 200 THEN Admitted \cup {n} ELSE Admitted
  BY <1>1, <1>2 DEF Admitted
<1>4. Grown(key, code, n)
  BY <1>1, <1>2, <1>3 DEF Grown
<1> QED
  BY <1>4

LEMMA InitLimit == Init => LimitInv
<1> SUFFICES ASSUME Init PROVE LimitInv
  OBVIOUS
<1>1. TypeInv /\ DOMAIN log = {}
  BY LimitAssumption DEF Init, TypeInv, Counter
<1>2. Admitted = {} /\ windows[GatewayKey] = [start |-> 0, count |-> 0]
  BY <1>1, LimitAssumption DEF Init, Admitted
<1>3. Since(0) = {} /\ \A t : Before(t, 0) = {}
  BY <1>2 DEF Since, Before
<1>4. Counts(windows[GatewayKey])
  <2> DEFINE w == windows[GatewayKey]
  <2>1. w \in Counter /\ w.start = 0 /\ w.count = 0 /\ now >= 0
    BY <1>1, <1>2, LimitAssumption DEF Counter, TypeInv
  <2>2. Cardinality(Since(0)) = 0 /\ \A t : Cardinality(Before(t, 0)) = 0
    BY <1>3, FS_EmptySet
  <2>3. now \in Nat
    BY <1>1 DEF TypeInv
  <2> HIDE DEF w
  <2>4. Counts(w)
    BY <2>1, <2>2, <2>3, LimitAssumption DEF Counts
  <2> QED
    BY <2>4 DEF w
<1> QED
  BY <1>1, <1>2, <1>4 DEF LimitInv, TwiceTheLimit, NoUndueRefusal

(* A new window has admitted nothing yet, and what a span that reaches     *)
(* into it met before was admitted in one window.                          *)
LEMMA RolledCounts ==
    ASSUME LimitInv
    PROVE  LET w == Rolled(windows[GatewayKey]) IN
           Counts(w) /\ now < w.start + Window
<1> DEFINE v == windows[GatewayKey]
           w == [start |-> now, count |-> 0]
<1>1. v \in Counter /\ now \in Nat /\ TypeInv /\ Counts(v)
  BY LimitAssumption DEF LimitInv, TypeInv
<1>2. CASE now - v.start < Window
  <2>1. Rolled(v) = v
    BY <1>1, <1>2, LimitAssumption DEF Rolled, Counter
  <2> QED
    BY <1>1, <1>2, <2>1, LimitAssumption DEF Counter
<1>3. CASE now - v.start >= Window
  <2>1. Rolled(v) = w
    BY <1>3 DEF Rolled
  <2>2. now >= v.start + Window
    BY <1>1, <1>3, LimitAssumption DEF Counter
  <2>3. \A j \in Admitted : log[j].time < now /\ log[j].time \in Nat
    <3>1. \A j \in DOMAIN log : log[j].time \in Nat
      BY <1>1, Times
    <3>2. \A j \in Admitted : log[j].time < v.start + Window /\ j \in DOMAIN log
      BY DEF LimitInv, Admitted
    <3> QED
      BY <1>1, <2>2, <3>1, <3>2, LimitAssumption DEF Counter
  <2>4. Since(now) = {}
    BY <1>1, <2>3 DEF Since
  <2>5. ASSUME NEW t \in Nat, t + Window > now
        PROVE  Cardinality(Before(t, now)) <= Limit
    <3>1. Before(t, now) \subseteq Since(v.start)
      BY <1>1, <2>2, <2>3, <2>5, LimitAssumption DEF Before, Since, Counter
    <3>2. Cardinality(Since(v.start)) <= Limit
      BY <1>1, LimitAssumption DEF Counts, Counter
    <3>3. Since(v.start) \subseteq Admitted /\ Before(t, now) \subseteq Admitted
      BY DEF Since, Before
    <3> QED
      BY <1>1, <3>1, <3>2, <3>3, Smaller, Finite, LimitAssumption
  <2>6. Counts(w)
    <3>1. w \in Counter /\ w.start = now /\ w.count = 0
      BY <1>1 DEF Counter
    <3>2. Cardinality(Since(now)) = 0
      BY <2>4, FS_EmptySet
    <3> HIDE DEF w
    <3> QED
      BY <1>1, <2>5, <3>1, <3>2, LimitAssumption DEF Counts
  <2> QED
    BY <1>1, <2>1, <2>6, LimitAssumption
<1> QED
  BY <1>1, <1>2, <1>3, LimitAssumption DEF Counter

(* Nothing that was admitted changes its time, so a step that admits       *)
(* nothing leaves every count as it is.                                    *)
LEMMA SameCounts ==
    ASSUME LimitInv, NEW w, Counts(w), TypeInv', now' \in Nat, now <= now',
           Admitted' = Admitted, \A j \in Admitted : log'[j] = log[j]
    PROVE  Counts(w)' /\ TwiceTheLimit'
<1>1. ASSUME NEW s PROVE Since(s)' = Since(s) /\ \A t : Before(t, s)' = Before(t, s)
  BY DEF Since, Before
<1>2. \A t : Span(t)' = Span(t)
  BY DEF Span, Within
<1>3. Counts(w)'
  BY <1>1, LimitAssumption DEF Counts, LimitInv, TypeInv, Counter
<1>4. TwiceTheLimit'
  BY <1>2 DEF TwiceTheLimit, Span, LimitInv
<1> QED
  BY <1>3, <1>4

(* What is appended does not count for a refusal before it. *)
LEMMA RefusalsStay ==
    ASSUME LimitInv, NEW key \in ApiKeys, NEW code \in {200, 401, 429},
           Answered(key, code),
           code = 429 => Cardinality(Lately) >= Limit
    PROVE  NoUndueRefusal'
<1> PICK n : Grown(key, code, n)
  BY Appended DEF LimitInv
<1>1. /\ n \notin DOMAIN log /\ DOMAIN log' = DOMAIN log \cup {n} /\ n \in Nat
      /\ \A j \in DOMAIN log : log'[j] = log[j] /\ j \in Nat /\ j < n
      /\ log'[n] = [key |-> key, time |-> now, code |-> code]
      /\ Admitted' = IF code = 200 THEN Admitted \cup {n} ELSE Admitted
  BY DEF Grown
<1>2. Admitted \subseteq DOMAIN log
  BY DEF Admitted
<1>3. ASSUME NEW i \in DOMAIN log PROVE Recent(i)' = Recent(i)
  BY <1>1, <1>2, <1>3 DEF Recent
<1>4. ASSUME NEW i \in DOMAIN log, log'[i].code = 429
      PROVE  Cardinality(Recent(i)') >= Limit
  BY <1>1, <1>3, <1>4 DEF LimitInv, NoUndueRefusal, Recent
<1>5. ASSUME code = 429 PROVE Cardinality(Recent(n)') >= Limit
  <2>1. Recent(n)' = Lately
    BY <1>1, <1>2, <1>5 DEF Recent, Lately
  <2> QED
    BY <1>5, <2>1
<1>6. ASSUME NEW i \in DOMAIN log', log'[i].code = 429
      PROVE  Cardinality(Recent(i)') >= Limit
  BY <1>1, <1>4, <1>5, <1>6 DEF Recent
<1> QED
  BY <1>6 DEF NoUndueRefusal, Recent

LEMMA TickLimit == ASSUME LimitInv, Tick PROVE LimitInv'
<1>1. UNCHANGED <<windows, log>> /\ now' = now + 1 /\ TypeInv' /\ now' \in Nat
  BY DEF Tick, LimitInv, TypeInv
<1>2. Admitted' = Admitted
  BY <1>1 DEF Admitted
<1>3. Counts(windows[GatewayKey])' /\ TwiceTheLimit'
  BY <1>1, <1>2, SameCounts DEF LimitInv, TypeInv
<1>4. NoUndueRefusal'
  BY <1>1, <1>2 DEF LimitInv, NoUndueRefusal
<1>5. \A j \in DOMAIN log : log[j].time \in Nat
  BY Times DEF LimitInv
<1>6. \A j \in DOMAIN log' : log'[j].time <= now'
  BY <1>1, <1>5 DEF LimitInv, TypeInv
<1> QED
  BY <1>1, <1>2, <1>3, <1>4, <1>6 DEF LimitInv

LEMMA UnauthorizedLimit ==
    ASSUME LimitInv, NEW key \in ApiKeys, Unauthorized(key), UNCHANGED now
    PROVE  LimitInv'
<1>1. UNCHANGED <<windows, now>> /\ Answered(key, 401)
  BY DEF Unauthorized
<1> PICK n : Grown(key, 401, n)
  BY <1>1, Appended DEF LimitInv
<1>2. /\ log' \in Seq(Entry) /\ DOMAIN log' = DOMAIN log \cup {n}
      /\ \A j \in DOMAIN log : log'[j] = log[j]
      /\ log'[n] = [key |-> key, time |-> now, code |-> 401]
      /\ Admitted' = Admitted
  BY DEF Grown
<1>3. TypeInv' /\ now' \in Nat /\ now <= now'
  BY <1>1, <1>2 DEF LimitInv, TypeInv
<1>4. Admitted \subseteq DOMAIN log
  BY DEF Admitted
<1>5. Counts(windows[GatewayKey])' /\ TwiceTheLimit'
  BY <1>1, <1>2, <1>3, <1>4, SameCounts DEF LimitInv
<1>6. NoUndueRefusal'
  BY <1>1, RefusalsStay, 401 \in {200, 401, 429}, 401 # 429
<1> QED
  BY <1>1, <1>2, <1>3, <1>4, <1>5, <1>6 DEF LimitInv

(* The request is admitted while its window has admitted fewer than the    *)
(* limit, and refused once it has admitted as many.                        *)
LEMMA ThrottleLimit ==
    ASSUME LimitInv, Throttle(GatewayKey), UNCHANGED now
    PROVE  LimitInv'
<1> PICK w : w = Rolled(windows[GatewayKey])
  OBVIOUS
<1> DEFINE v == [start |-> w.start, count |-> w.count + 1]
           code == IF v.count > Limit THEN 429 ELSE 200
<1>1. /\ TypeInv /\ now \in Nat /\ GatewayKey \in ApiKeys
      /\ Window \in Nat \ {0} /\ Limit \in Nat \ {0}
  BY LimitAssumption DEF LimitInv, TypeInv
<1>2. Counts(w) /\ w \in Counter /\ w.start \in Nat /\ w.count \in Nat
      /\ w.start <= now /\ now < w.start + Window
  BY RolledCounts DEF Counts, Counter
<1>3. v \in Counter /\ v.start = w.start /\ v.count = w.count + 1
  BY <1>2 DEF Counter
<1>4. windows' = [windows EXCEPT ![GatewayKey] = v] /\ Answered(GatewayKey, code)
  BY DEF Throttle
<1>5. code \in {200, 429} /\ (code = 200 <=> w.count < Limit)
  BY <1>1, <1>2, <1>3
<1> HIDE DEF v, code
<1>6. PICK n : Grown(GatewayKey, code, n)
  BY <1>1, <1>4, <1>5, Appended
<1>7. /\ n \notin DOMAIN log /\ DOMAIN log' = DOMAIN log \cup {n}
      /\ \A j \in DOMAIN log : log'[j] = log[j]
      /\ log'[n].time = now /\ now' = now
      /\ Admitted' = IF code = 200 THEN Admitted \cup {n} ELSE Admitted
      /\ Admitted \subseteq DOMAIN log
  BY <1>6 DEF Grown, Admitted
<1>8. TypeInv' /\ windows'[GatewayKey] = v
  BY <1>1, <1>3, <1>4, <1>6 DEF Grown, TypeInv
<1>0. IsFiniteSet(Admitted')
  BY <1>1, <1>7, Finite, FS_AddElement
<1>9. Since(w.start)' = IF code = 200 THEN Since(w.start) \cup {n} ELSE Since(w.start)
  BY <1>2, <1>7 DEF Since
<1>10. ASSUME NEW t PROVE Before(t, w.start)' = Before(t, w.start)
  <2>1. ~(now < w.start)
    BY <1>1, <1>2
  <2> QED
    BY <1>7, <2>1 DEF Before
<1>11. Cardinality(Since(w.start)') = IF v.count <= Limit THEN v.count ELSE Limit
  <2>1. n \notin Since(w.start) /\ IsFiniteSet(Since(w.start))
    BY <1>1, <1>7, Finite DEF Since
  <2>2. Cardinality(Since(w.start)) = IF w.count <= Limit THEN w.count ELSE Limit
    BY <1>2 DEF Counts
  <2>3. Cardinality(Since(w.start) \cup {n}) = Cardinality(Since(w.start)) + 1
    BY <2>1, FS_AddElement
  <2> QED
    BY <1>1, <1>2, <1>3, <1>5, <1>9, <2>2, <2>3
<1>12. Counts(v)'
  BY <1>1, <1>2, <1>3, <1>7, <1>10, <1>11 DEF Counts
<1>13. ASSUME NEW t \in Nat, t <= now, now < t + Window
       PROVE  Cardinality(Span(t)') <= 2 * Limit
  <2> DEFINE B == Before(t, w.start)
             S == Since(w.start)'
  <2>1. Span(t)' \subseteq B \cup S /\ B \subseteq Admitted' /\ S \subseteq Admitted'
    <3>1. \A j \in Admitted : log[j].time < w.start \/ log[j].time >= w.start
      BY <1>1, <1>2, <1>7, Times
    <3>2. Admitted \subseteq Admitted'
      BY <1>7
    <3>3. Span(t)' \subseteq B \cup S
      BY <1>2, <1>7, <1>9, <3>1 DEF Span, Within, Before, Since
    <3> QED
      BY <3>2, <3>3 DEF Before, Since
  <2>2. /\ IsFiniteSet(B) /\ IsFiniteSet(S)
        /\ Cardinality(B) \in Nat /\ Cardinality(S) \in Nat
    BY <1>0, <2>1, FS_Subset, FS_CardinalityType
  <2>3. Cardinality(B) <= Limit
    BY <1>1, <1>2, <1>13 DEF Counts
  <2>4. Cardinality(S) <= Limit
    BY <1>1, <1>2, <1>3, <1>11
  <2> HIDE DEF B, S
  <2>5. /\ IsFiniteSet(B \cup S)
        /\ Cardinality(B \cup S) <= Cardinality(B) + Cardinality(S)
    <3>1. IsFiniteSet(B \cap S) /\ Cardinality(B \cap S) \in Nat
      BY <2>2, FS_Intersection, FS_CardinalityType
    <3>2. /\ IsFiniteSet(B \cup S)
          /\ Cardinality(B \cup S)
               = Cardinality(B) + Cardinality(S) - Cardinality(B \cap S)
      BY <2>2, FS_Union, Zenon
    <3> QED
      BY <2>2, <3>1, <3>2
  <2>6. /\ Cardinality(Span(t)') <= Cardinality(B \cup S)
        /\ Cardinality(Span(t)') \in Nat /\ Cardinality(B \cup S) \in Nat
    BY <2>1, <2>5, FS_Subset, FS_CardinalityType
  <2> QED
    BY <1>1, <2>2, <2>3, <2>4, <2>5, <2>6
<1>14. ASSUME NEW i \in Admitted'
       PROVE  Cardinality({j \in Admitted : Within(j, log[i].time)}') <= 2 * Limit
  <2>1. PICK t \in Nat : t = log'[i].time
    BY <1>1, <1>7, Times
  <2>2. t <= now
    BY <1>1, <1>7, <2>1 DEF LimitInv
  <2>3. {j \in Admitted : Within(j, log[i].time)}' = Span(t)'
    BY <2>1 DEF Span, Within
  <2>4. CASE now < t + Window
    BY <1>13, <2>2, <2>3, <2>4
  <2>5. CASE ~(now < t + Window)
    <3>1. i \in Admitted /\ t = log[i].time
      BY <1>1, <1>7, <2>1, <2>5
    <3>2. Span(t)' = Span(t)
      BY <1>7, <2>5 DEF Span, Within
    <3>3. Cardinality(Span(t)) <= 2 * Limit
      BY <3>1 DEF LimitInv, TwiceTheLimit, Span
    <3> QED
      BY <2>3, <3>2, <3>3
  <2> QED
    BY <2>4, <2>5
<1>15. TwiceTheLimit'
  BY <1>14 DEF TwiceTheLimit
<1>16. ASSUME code = 429 PROVE Cardinality(Lately) >= Limit
  <2>1. Since(w.start) \subseteq Lately /\ Lately \subseteq Admitted
    BY <1>1, <1>2, <1>7, Times DEF Since, Lately
  <2>2. Cardinality(Since(w.start)) = Limit
    BY <1>1, <1>2, <1>5, <1>16 DEF Counts
  <2>3. Cardinality(Since(w.start)) <= Cardinality(Lately)
    BY <1>1, <2>1, Smaller
  <2> QED
    BY <1>1, <2>1, <2>2, <2>3, Finite
<1>17. NoUndueRefusal'
  BY <1>1, <1>4, <1>5, <1>16, RefusalsStay
<1>18. /\ \A j \in DOMAIN log' : log'[j].time <= now'
       /\ \A j \in Admitted' : log'[j].time < windows'[GatewayKey].start + Window
  <2>1. \A j \in DOMAIN log : log[j].time <= now /\ log[j].time \in Nat
    BY <1>1, Times DEF LimitInv
  <2>2. \A j \in DOMAIN log' : log'[j].time <= now /\ log'[j].time \in Nat
    BY <1>1, <1>7, <2>1
  <2>3. Admitted' \subseteq DOMAIN log'
    BY <1>7
  <2> QED
    BY <1>1, <1>2, <1>3, <1>7, <1>8, <2>2, <2>3
<1> QED
  BY <1>8, <1>12, <1>15, <1>17, <1>18 DEF LimitInv

LEMMA NextLimit == LimitInv /\ [Next]_vars => LimitInv'
<1> SUFFICES ASSUME LimitInv, [Next]_vars PROVE LimitInv'
  OBVIOUS
<1>1. ASSUME NEW key \in ApiKeys, Dispatch(key) PROVE LimitInv'
  BY <1>1, UnauthorizedLimit, ThrottleLimit DEF Dispatch
<1>2. CASE UNCHANGED vars
  BY <1>2 DEF vars, LimitInv, TypeInv, Counts, Since, Before, Admitted, Within,
              TwiceTheLimit, NoUndueRefusal
<1> QED
  BY <1>1, <1>2, TickLimit DEF Next

LEMMA LimitInvHolds == Spec => []LimitInv
BY InitLimit, NextLimit, PTL DEF Spec

(* In no span of one window's length are more than twice the limit         *)
(* admitted.                                                               *)
THEOREM AtMostTwice == Spec => []TwiceTheLimit
<1>1. LimitInv => TwiceTheLimit
  BY DEF LimitInv
<1> QED
  BY <1>1, LimitInvHolds, PTL

(* Whoever is refused has had the limit within the last window's length.   *)
THEOREM RefusedWithCause == Spec => []NoUndueRefusal
<1>1. LimitInv => NoUndueRefusal
  BY DEF LimitInv
<1> QED
  BY <1>1, LimitInvHolds, PTL

=============================================================================

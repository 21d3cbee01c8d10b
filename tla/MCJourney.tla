------------------------------ MODULE MCJourney ------------------------------
(* Small instances of Journey.                                             *)
EXTENDS Journey, TLC

CONSTANTS h1, h2, h3, a1, a2, p1, p2, s1, s2

MCSymmetry == Permutations(Proposals) \cup Permutations(Calls)
                \cup Permutations(Chats) \cup Permutations(Approvals)
==============================================================================

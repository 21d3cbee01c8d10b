---------------------------- MODULE MCChatWidget ----------------------------
(* Small instances of ChatWidget over Journey.                             *)
EXTENDS ChatWidget

CONSTANTS h1, h2, h3, a1, a2, p1, p2, s1, s2
=============================================================================

---------------------------- MODULE MCEmailOutbox ----------------------------
(* EmailOutbox for TLC: one mail whose code or link is superseded.          *)
EXTENDS EmailOutbox, TLC

CONSTANTS s1, s2, m1

OneAttempt == [m \in Messages |-> 1]

SenderSymmetry == Permutations({s1, s2})
=============================================================================

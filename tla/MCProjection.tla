---------------------------- MODULE MCProjection ----------------------------
(***************************************************************************)
(* Two processes on one video of two contents, whose names do not matter:  *)
(* the one of the beginning is a.                                          *)
(***************************************************************************)
EXTENDS Projection
CONSTANTS v1, a, b, p1, p2

MCInit == Init /\ canon[v1] = a /\ quiet[v1] = a
MCSpec == MCInit /\ [][Next]_vars /\ Fairness
=============================================================================

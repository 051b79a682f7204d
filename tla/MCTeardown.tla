----------------------------- MODULE MCTeardown -----------------------------
(***************************************************************************)
(* An instance of Teardown for TLC.                                        *)
(***************************************************************************)
EXTENDS Teardown, TLC

CONSTANTS s1, o1, o2, t1, t2

=============================================================================

--------------------------- MODULE CollectorProofs ---------------------------
(***************************************************************************)
(* What follows from the promise of Lua's collector, for any userdata.     *)
(***************************************************************************)
EXTENDS Collector, TLAPS

\* Nothing that the program can come to is ever freed, and a weak table holds
\* only userdata whose __gc is still to come, whatever the program does and
\* however the collector goes about it.
THEOREM PromiseIsSafe == Spec => []Safe
<1>1. Init => Safe
  BY DEF Init, Safe, Stages
<1>2. Safe /\ [Next]_vars => Safe'
  <2> SUFFICES ASSUME Safe, [Next]_vars PROVE Safe'
    OBVIOUS
  <2>1. CASE Mutate
    <3>1. New \subseteq Handles /\ \A h \in New : stage'[h] # "absent"
      BY DEF New
    <3>2. ASSUME NEW h \in held \cup weak PROVE stage'[h] # "absent"
      BY <2>1, <3>2 DEF Mutate, SweptOr, Safe
    <3>3. ASSUME NEW h \in weak PROVE stage'[h] = "live"
      BY <2>1, <3>3 DEF Mutate, SweptOr, Safe
    <3> QED
      BY <2>1, <3>1, <3>2, <3>3 DEF Mutate, Safe
  <2>2. CASE Collect
    <3>1. ASSUME NEW h \in held PROVE stage'[h] # "absent"
      BY <2>2, <3>1 DEF Collect, SweptOr, Safe
    <3>2. ASSUME NEW h \in weak' PROVE stage'[h] = "live"
      BY <2>2, <3>2 DEF Collect, SweptOr, Safe
    <3> QED
      BY <2>2, <3>1, <3>2 DEF Collect, Safe
  <2>3. ASSUME NEW h \in Handles, Finalize(h) PROVE Safe'
    BY <2>3 DEF Finalize, Safe, Stages
  <2>4. CASE Resurrect
    BY <2>4 DEF Resurrect, Safe
  <2>5. CASE UNCHANGED vars
    BY <2>5 DEF vars, Safe
  <2> QED
    BY <2>1, <2>2, <2>3, <2>4, <2>5 DEF Next
<1> QED
  BY <1>1, <1>2, PTL DEF Spec
=============================================================================

------------------------------ MODULE Collector ------------------------------
(***************************************************************************)
(* What object.c relies on in Lua's garbage collector, of the userdata     *)
(* that are its objects: one that the program holds is kept, one that it   *)
(* does not is taken out of weak tables in the very step in which it is    *)
(* queued for its __gc, its __gc runs once, and it is freed after that.    *)
(* Lua's collector (LuaGC) implements this, and so do the steps that       *)
(* Objects takes for it.                                                   *)
(***************************************************************************)

CONSTANT Handles  \* the userdata

VARIABLES
  stage, \* absent, plain (without a __gc, or after it), live, or pending
  held,  \* those that the program can come to without weak references
  weak   \* those in weak tables

vars == <<stage, held, weak>>

Stages == {"absent", "plain", "live", "pending"}

New == {h \in Handles : stage[h] = "absent" /\ stage'[h] # "absent"}

\* What becomes of userdata that the program has no part in: what it does not
\* hold may be freed, once there is no __gc to call.
SweptOr(h, then) ==
  \/ stage'[h] \in {stage[h]} \cup then
  \/ stage[h] = "plain" /\ h \notin held /\ stage'[h] = "absent"

\* The program makes userdata, gives them a __gc, forgets some, finds others
\* in weak tables, and puts some there. Giving a __gc may sweep a little.
Mutate ==
  /\ stage' \in [Handles -> Stages]
  /\ \A h \in Handles :
       SweptOr(h, IF stage[h] = "absent" THEN {"plain", "live"}
                  ELSE IF stage[h] = "plain" /\ h \in held THEN {"live"} ELSE {})
  /\ held' \subseteq held \cup weak \cup New
  /\ weak' \subseteq weak \cup {h \in held \cup New : stage'[h] = "live"}

\* A cycle finds userdata that are not held, and frees others.
Collect ==
  /\ stage' \in [Handles -> Stages]
  /\ \A h \in Handles :
       SweptOr(h, IF stage[h] = "live" /\ h \notin held THEN {"pending"} ELSE {})
  /\ weak' = {h \in weak : stage'[h] # "pending"}
  /\ UNCHANGED held

\* The __gc of one of them is called.
Finalize(h) ==
  /\ stage[h] = "pending"
  /\ stage' = [stage EXCEPT ![h] = "plain"]
  /\ UNCHANGED <<held, weak>>

\* The __gc of a script's table comes to userdata that only the table held.
Resurrect ==
  /\ \A h \in held' : stage[h] # "absent"
  /\ held \subseteq held'
  /\ held' \subseteq Handles
  /\ UNCHANGED <<stage, weak>>

Init ==
  /\ stage = [h \in Handles |-> "absent"]
  /\ held = {}
  /\ weak = {}

Next ==
  \/ Mutate
  \/ Collect
  \/ \E h \in Handles : Finalize(h)
  \/ Resurrect

Spec == Init /\ [][Next]_vars

-----------------------------------------------------------------------------
\* Nothing the program can come to has been freed, and a weak table never gives
\* it a userdata whose __gc is due or has run.
Safe ==
  /\ stage \in [Handles -> Stages]
  /\ held \cup weak \subseteq Handles
  /\ \A h \in held : stage[h] # "absent"
  /\ \A h \in weak : stage[h] = "live"
=============================================================================

------------------------------ MODULE Iteration ------------------------------
(***************************************************************************)
(* pairs of an object (object.c): a script goes through the fields of a    *)
(* struct while the host, called from the body of the loop, defines types  *)
(* and declares fields, perhaps of that struct. The loop keeps nothing but *)
(* the last key it was given, and finds its place again by that.           *)
(***************************************************************************)
EXTENDS StructTypes

CONSTANTS
  Unread,    \* the names of fields that __index cannot read, LUAST_UINT64
  Redeclares \* whether the host declares two fields of one name for a struct

VARIABLE loop \* the script's loop: the struct, the key it is at, 0 for nil

iterVars == <<registered, types, stack, open, declared, loop>>

ASSUME IterationAssumption == Redeclares \in BOOLEAN

NoLoop(status) == [over |-> Nil, at |-> 0, status |-> status]

List(n) == types[n].fields_by_name

-----------------------------------------------------------------------------
\* luastruct_object__pairs, of an object the script has.
Pairs(n) ==
  /\ loop.status # "running"
  /\ Exists(n)
  /\ loop' = [over |-> n, at |-> 0, status |-> "running"]

\* As Following, when the list by offset is walked.
FollowingByOffset(n, at, p) ==
  /\ p \in 1 .. Len(types[n].fields)
  /\ IF at = 0 THEN p = 1 ELSE First(types[n].fields, at, p - 1)

\* As Following, when the key itself is given again.
FollowingItself(n, at, p) ==
  /\ p \in 1 .. Len(List(n))
  /\ IF at = 0 THEN p = 1 ELSE First(List(n), at, p)

\* The field whose name luastruct_object__next returns for the key at: the head
\* of the list, or what next_by_name of the field of that name points to.
Following(n, at, p) ==
  /\ p \in 1 .. Len(List(n))
  /\ IF at = 0 THEN p = 1 ELSE First(List(n), at, p - 1)

\* It calls __index for the value, which raises an error for some types.
Deliver ==
  \E p \in 1 .. Len(List(loop.over)) :
    /\ Following(loop.over, loop.at, p)
    /\ loop' = IF List(loop.over)[p].name \in Unread THEN NoLoop("stopped")
               ELSE [loop EXCEPT !.at = List(loop.over)[p].name]

\* It returns nil at the end of the list, and for a key that is not there.
Exhaust ==
  /\ \A p \in 1 .. Len(List(loop.over)) : ~Following(loop.over, loop.at, p)
  /\ loop' = NoLoop("done")

ObjectNext == loop.status = "running" /\ (Deliver \/ Exhaust)

\* The body breaks out of the loop, or the object has become invalid.
Break ==
  /\ loop.status = "running"
  /\ loop' = NoLoop("stopped")

Script == \/ (\E n \in Names : Pairs(n)) \/ ObjectNext \/ Break

-----------------------------------------------------------------------------
FieldNames(n) == {f.name : f \in ToSet(List(n))}

\* No struct has two fields of one name.
DistinctNames ==
  \A n \in DOMAIN types : \A i, j \in 1 .. Len(List(n)) :
    List(n)[i].name = List(n)[j].name => i = j

IterInit == Init /\ loop = NoLoop("idle")

Host == Next /\ (Redeclares \/ DistinctNames') /\ UNCHANGED loop

IterNext ==
  \/ Host
  \/ Script /\ UNCHANGED vars

IterSpec == IterInit /\ [][IterNext]_iterVars

(***************************************************************************)
(* The script calls __next until the loop is over. Nothing is assumed of   *)
(* the host.                                                               *)
(***************************************************************************)
FairSpec == IterSpec /\ WF_iterVars(ObjectNext /\ UNCHANGED vars)

-----------------------------------------------------------------------------
(***************************************************************************)
(* Properties.                                                             *)
(***************************************************************************)
\* A loop runs over a type that exists, and is at a field of it.
LoopOK ==
  \/ loop \in {NoLoop("idle"), NoLoop("done"), NoLoop("stopped")}
  \/ /\ loop = [over |-> loop.over, at |-> loop.at, status |-> "running"]
     /\ Exists(loop.over)
     /\ loop.at \in {0} \cup FieldNames(loop.over)

\* The keys of the loop's struct.
LoopKeys == IF loop.over = Nil THEN {} ELSE FieldNames(loop.over)

Loop == INSTANCE Traversal WITH
  Keys   <- Nat \ {0},
  keys   <- LoopKeys,
  at     <- loop.at,
  status <- loop.status

\* pairs of an object gives each field once, in the order of their names, also
\* those that are declared while it runs and sort behind the key it is at.
LoopIsTraversal == Loop!Spec

\* The loop comes to an end.
LoopEnds == Loop!LoopEnds
=============================================================================

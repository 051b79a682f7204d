------------------------------- MODULE Teardown -------------------------------
(***************************************************************************)
(* What luastruct allocates with malloc, and the finalizers that free it:  *)
(* the fields of a type, freed by luastruct_struct__gc (struct.c), and the *)
(* data of an object made without any, freed by luastruct_object__gc       *)
(* (object.c). Finalizers run in cycles of the collector and in lua_close, *)
(* where types and objects go together with the tables of scripts, whose   *)
(* __gc may still use objects.                                             *)
(*                                                                         *)
(* The order of finalizers is what matters here: Lua calls those of one    *)
(* cycle, and of lua_close, in the reverse order in which their objects    *)
(* were given a metatable with a __gc. How the collector finds objects is  *)
(* in LuaGC. The __gc of a table may bring back the table and what it      *)
(* holds; an object that is brought back has its own __gc all the same.    *)
(***************************************************************************)
EXTENDS Queues

CONSTANTS
  Types, Objects, Tables, \* as many of each as are made
  TypesFirst,  \* whether the host defines types before scripts set a __gc
  HeldBefore,  \* whether tables are given objects before their __gc only
  HostAtClose, \* whether the host defines types and makes objects in lua_close
  Nil

ASSUME TeardownAssumption ==
  /\ {TypesFirst, HeldBefore, HostAtClose} \subseteq BOOLEAN
  /\ Types \cap Objects = {} /\ (Types \cup Objects) \cap Tables = {}
  /\ Nil \notin Types \cup Objects \cup Tables

VARIABLES
  phase,      \* of the Lua state
  finobj,     \* what has a __gc to be called, the latest first
  tobefnz,    \* what is due for it, the next first
  finalizing, \* the table whose __gc is running
  defined,    \* the types of the types registry
  fields,     \* those whose fields are allocated
  type,       \* the type of each object, Nil until it is made
  owned,      \* the objects that have delete_on_gc
  blocks,     \* those of them whose data is allocated
  holds,      \* the objects in each table
  roots,      \* the objects and tables in variables of scripts
  revived     \* history: the objects brought back when their __gc was due

lists == <<finobj, tobefnz>>
memory == <<defined, fields, type, owned, blocks>>
vars == <<phase, lists, finalizing, memory, holds, roots, revived>>

Things == Types \cup Objects \cup Tables

Due == Range(tobefnz)

-----------------------------------------------------------------------------
\* The host and scripts run until lua_close, and then in finalizers.
Running == phase = "running" \/ finalizing # Nil

HostRuns == Running /\ (phase = "running" \/ HostAtClose)

\* As Mark, when finalizers are queued in the order they were set in.
MarkLast(o) == finobj' = Append(finobj, o) /\ UNCHANGED tobefnz

\* luaC_checkfinalizer of something that is given a metatable with a __gc.
Mark(o) == finobj' = <<o>> \o finobj /\ UNCHANGED tobefnz

Marked(o) == o \in Range(finobj) \cup Due

\* As MarkStruct, when __gc gets into the metatable after it was set for the
\* first type.
MarkLaterStructs(t) == IF defined = {} THEN UNCHANGED lists ELSE Mark(t)

MarkStruct(t) == Mark(t)

\* luastruct_new_struct, and the fields that are added to it.
NewStruct(t) ==
  /\ HostRuns
  /\ t \notin defined
  /\ TypesFirst => \A tb \in Tables : ~Marked(tb)
  /\ MarkStruct(t)
  /\ defined' = defined \cup {t}
  /\ fields' = fields \cup {t}
  /\ UNCHANGED <<phase, finalizing, type, owned, blocks, holds, roots, revived>>

\* luastruct_new_object. A script that indexes a field makes an object too, one
\* that does not own its data.
NewObject(o, t, own) ==
  /\ HostRuns \/ (Running /\ ~own /\ \E p \in Objects : type[p] # Nil)
  /\ t \in defined /\ type[o] = Nil
  /\ Mark(o)
  /\ type' = [type EXCEPT ![o] = t]
  /\ owned' = IF own THEN owned \cup {o} ELSE owned
  /\ blocks' = IF own THEN blocks \cup {o} ELSE blocks
  /\ roots' = roots \cup {o}
  /\ UNCHANGED <<phase, finalizing, defined, fields, holds, revived>>

\* A script puts an object into a table,
Store(tb, o) ==
  /\ Running
  /\ tb \in roots /\ o \in roots \ holds[tb]
  /\ HeldBefore => phase = "running" /\ ~Marked(tb)
  /\ holds' = [holds EXCEPT ![tb] = @ \cup {o}]
  /\ UNCHANGED <<phase, lists, finalizing, memory, roots, revived>>

\* gives the table a __gc,
SetGC(tb) ==
  /\ Running
  /\ tb \in roots /\ ~Marked(tb)
  /\ Mark(tb)
  /\ UNCHANGED <<phase, finalizing, memory, holds, roots, revived>>

\* and forgets either.
Forget(x) ==
  /\ Running
  /\ x \in roots
  /\ roots' = roots \ {x}
  /\ UNCHANGED <<phase, lists, finalizing, memory, holds, revived>>

HeldBy(S) == UNION {holds[tb] : tb \in S \cap Tables}

Reach(S) == S \cup HeldBy(S)

\* The __gc of a table puts the table, or an object in it, into a variable.
Revive(x) ==
  /\ finalizing # Nil
  /\ x \in Reach({finalizing}) \ roots
  /\ roots' = roots \cup {x}
  /\ revived' = revived \cup (Reach({x}) \cap Objects \cap Due)
  /\ UNCHANGED <<phase, lists, finalizing, memory, holds>>

-----------------------------------------------------------------------------
\* What scripts and finalizers that are due can come to; types are in the
\* types registry.
Reachable == Types \cup Reach(roots \cup Due)

\* A cycle of the collector queues the finalizers of things that cannot be
\* reached. Some it may not find: nothing these hold is found either.
Collect(dead) ==
  /\ phase = "running" /\ finalizing = Nil
  /\ dead # {} /\ dead \cap Reachable = {}
  /\ dead \cap HeldBy(Range(finobj) \ dead) = {}
  /\ finobj' = Without(finobj, dead)
  /\ tobefnz' = tobefnz \o Only(finobj, dead)
  /\ UNCHANGED <<phase, finalizing, memory, holds, roots, revived>>

\* As CloseQueue, when lua_close leaves alone what a cycle has queued before.
CloseQueueFresh == finobj

CloseQueue == tobefnz \o finobj

\* lua_close: luaC_freeallobjects queues all finalizers.
Close ==
  /\ phase = "running" /\ finalizing = Nil
  /\ phase' = "closing"
  /\ tobefnz' = CloseQueue
  /\ finobj' = <<>>
  /\ UNCHANGED <<finalizing, memory, holds, roots, revived>>

\* As Dequeue, when what is called stays in the list.
DequeueNone == UNCHANGED lists

Dequeue == tobefnz' = Tail(tobefnz) /\ UNCHANGED finobj

\* As FreeBlock, when the data stays.
FreeNoBlock(o) == UNCHANGED blocks

FreeBlock(o) == blocks' = blocks \ {o}

\* GCTM: luastruct_struct__gc, luastruct_object__gc, or the function of a script.
CallFinalizer ==
  LET o == tobefnz[1] IN
  /\ tobefnz # <<>> /\ finalizing = Nil
  /\ Dequeue
  /\ \/ o \in Types /\ fields' = fields \ {o} /\ UNCHANGED <<blocks, finalizing>>
     \/ o \in Objects /\ FreeBlock(o) /\ UNCHANGED <<fields, finalizing>>
     \/ o \in Tables /\ finalizing' = o /\ UNCHANGED <<fields, blocks>>
  /\ UNCHANGED <<phase, defined, type, owned, holds, roots, revived>>

\* It returns, or raises an error, which lua_close ignores.
Return ==
  /\ finalizing # Nil
  /\ finalizing' = Nil
  /\ UNCHANGED <<phase, lists, memory, holds, roots, revived>>

\* The Lua heap is freed; what finalizers have marked meanwhile is not called.
Closed ==
  /\ phase = "closing" /\ tobefnz = <<>> /\ finalizing = Nil
  /\ phase' = "closed"
  /\ finobj' = <<>> /\ roots' = {}
  /\ UNCHANGED <<tobefnz, finalizing, memory, holds, revived>>

-----------------------------------------------------------------------------
Init ==
  /\ phase = "running"
  /\ finobj = <<>> /\ tobefnz = <<>> /\ finalizing = Nil
  /\ defined = {} /\ fields = {} /\ owned = {} /\ blocks = {}
  /\ type = [o \in Objects |-> Nil]
  /\ holds = [tb \in Tables |-> {}]
  /\ roots = Tables /\ revived = {}

Program ==
  \/ \E t \in Types : NewStruct(t) \/ \E o \in Objects, own \in BOOLEAN : NewObject(o, t, own)
  \/ \E tb \in Tables : SetGC(tb) \/ \E o \in Objects : Store(tb, o)
  \/ \E x \in Objects \cup Tables : Forget(x) \/ Revive(x)

Finalizers == CallFinalizer \/ Return \/ Closed

Next ==
  \/ Program
  \/ \E dead \in SUBSET Range(finobj) : Collect(dead)
  \/ Close
  \/ Finalizers

Spec == Init /\ [][Next]_vars

(***************************************************************************)
(* lua_close runs to its end, if the finalizers of scripts return.         *)
(***************************************************************************)
FairSpec == Spec /\ WF_vars(Finalizers)

-----------------------------------------------------------------------------
(***************************************************************************)
(* Properties.                                                             *)
(***************************************************************************)
\* As long as scripts run, the fields of an object's type are there for
\* __index: no type goes before a finalizer that may use an object of it.
FieldsAlive == Running => \A o \in Objects : type[o] # Nil => type[o] \in fields

\* A script finds the data of the objects it can come to, and its finalizers,
\* in lua_close too, the data of those that their table holds. It may miss that
\* of an object which a finalizer brought back when the __gc of the object was
\* due, and of no other.
DataAlive ==
  /\ phase = "running" => Reach(roots) \cap owned \subseteq blocks \cup revived
  /\ finalizing # Nil => holds[finalizing] \cap owned \subseteq blocks \cup revived

\* Memory is freed exactly once: what has a finalizer to be called has it once,
\* and its memory is there, and none is left when lua_close returns.
FreedOnce ==
  /\ IsInjective(finobj \o tobefnz)
  /\ (Range(finobj) \cup Due) \cap Types = fields
  /\ (Range(finobj) \cup Due) \cap owned = blocks
  /\ phase = "closed" => fields = {} /\ blocks = {}

\* lua_close ends, also when finalizers set finalizers.
Closes == phase = "closing" ~> phase = "closed"
=============================================================================

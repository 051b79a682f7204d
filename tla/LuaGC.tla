-------------------------------- MODULE LuaGC --------------------------------
(***************************************************************************)
(* Lua's garbage collector, lgc.c: incremental, tri-colour mark and sweep, *)
(* with finalizers and one weak table, the registry of luastruct's         *)
(* objects. The program runs between any two of its steps.                 *)
(*                                                                         *)
(* Userdata are the objects that luastruct_new_object makes. Tables are    *)
(* the script's: they hold values, and may be given a __gc. What a script  *)
(* can come to is on the stack of its thread. Strings, closures, further   *)
(* threads and ephemeron tables are left out. So is the pace of the        *)
(* collector: luaC_step takes as many single steps as the allocations      *)
(* since the last call demand, here it takes any number, and finalizers    *)
(* run one by one.                                                         *)
(***************************************************************************)
EXTENDS Queues

CONSTANTS
  Userdata, Tables,
  SweepMax, \* GCSWEEPMAX, the objects swept in one step
  MaxFull,  \* bound: full cycles
  Outruns,  \* whether finalizers may outrun the sweep of the list they are taken from
  Thread,   \* the main thread, on the gray lists
  Header,   \* sweepgc points to the head of the list it sweeps
  Nil

Things == Userdata \cup Tables

ASSUME LuaGCAssumption ==
  /\ SweepMax \in Nat \ {0} /\ MaxFull \in Nat /\ Outruns \in BOOLEAN
  /\ Userdata \cap Tables = {} /\ {Thread, Header, Nil} \cap Things = {} /\ Header # Nil

VARIABLES
  gcstate,    \* the phase
  white,      \* g->currentwhite
  color,      \* the colour of every object
  gray,       \* the gray list
  grayagain,  \* those to be visited in the atomic phase
  lists,      \* allgc, finobj and tobefnz
  sweepgc,    \* Header, an object, after which sweeping goes on, or Nil
  full,       \* a full cycle: "no", "finish" the current one, or "collect"
  emergency,  \* g->gckind
  fulls,      \* how many full cycles there were
  finalizing, \* the table whose __gc is running
  stack,      \* what the script's variables refer to
  refs,       \* the values of each table
  weak,       \* the values of the weak table "luastruct_objects"
  building    \* the object luastruct_new_object is making

heap == <<gcstate, white, color, gray, grayagain, lists, sweepgc>>
control == <<full, emergency, fulls, finalizing>>
program == <<stack, refs, weak, building>>
vars == <<heap, control, program>>

Sweeps == <<"swpallgc", "swpfinobj", "swptobefnz", "swpend">>
Phases == {"pause", "propagate", "atomic", "callfin"} \cup Range(Sweeps)

Lists == {"allgc", "finobj", "tobefnz"}

\* The list that each sweep phase goes through.
Swept == [swpallgc |-> "allgc", swpfinobj |-> "finobj", swptobefnz |-> "tobefnz"]

Whites == {"white0", "white1"}
Colors == Whites \cup {"gray", "black"}
OtherWhite == IF white = "white0" THEN "white1" ELSE "white0"

On(list) == Range(lists[list])
Exists(o) == \E list \in Lists : o \in On(list)

\* FINALIZEDBIT: set on the way to finobj, reset on the way from tobefnz.
ToFinalize(o) == o \in On("finobj") \cup On("tobefnz")

IsSweepPhase == gcstate \in Range(Sweeps)
KeepInvariant == gcstate \in {"propagate", "atomic"}

Successors(o) == IF o \in Tables THEN refs[o] ELSE {}

-----------------------------------------------------------------------------
(***************************************************************************)
(* Marking. Userdata become black at once, a table is gray until its       *)
(* values are marked.                                                      *)
(***************************************************************************)
Marked(c, S) ==
  [o \in Things |-> IF o \in S /\ c[o] \in Whites
                    THEN IF o \in Tables THEN "gray" ELSE "black"
                    ELSE c[o]]

WhiteTables(S) == {t \in S \cap Tables : color[t] \in Whites}

\* What propagateall marks from S, the least set that leads to nothing unmarked
\* outside itself. One that is black is not looked into again.
PropagateAll(S, marked) ==
  {o \in Things :
     \A T \in SUBSET Things :
       S \ marked \subseteq T /\ (\A x \in T : Successors(x) \ marked \subseteq T) => o \in T}

-----------------------------------------------------------------------------
(***************************************************************************)
(* Sweeping. sweepgc is a pointer to the next field of an object, or to    *)
(* the head of a list: what comes after it is the rest of the list that    *)
(* object is on now.                                                       *)
(***************************************************************************)
Rest(l, list, at) ==
  IF at = Header THEN l[list]
  ELSE LET on == CHOOSE x \in DOMAIN l : at \in Range(l[x])
           i  == CHOOSE j \in 1 .. Len(l[on]) : l[on][j] = at
       IN  SubSeq(l[on], i + 1, Len(l[on]))

\* sweeplist over n objects after at: the dead are freed, the others get white w.
Sweep(l, c, r, list, at, n, w) ==
  LET rest == Rest(l, list, at)
      done == SubSeq(rest, 1, IF n < Len(rest) THEN n ELSE Len(rest))
      dead == {o \in Range(done) : c[o] \in Whites \ {w}}
      live == Without(done, dead)
  IN  [lists |-> [x \in DOMAIN l |-> Without(l[x], dead)],
       color |-> [o \in Things |-> IF o \in dead THEN "white0"
                                   ELSE IF o \in Range(done) THEN w ELSE c[o]],
       refs  |-> [t \in Tables |-> IF t \in dead THEN {} ELSE r[t]],
       at    |-> IF Len(done) = Len(rest) THEN Nil
                 ELSE IF live = <<>> THEN at ELSE live[Len(live)]]

\* How far sweeptolive goes: to the first object that is not dead.
ToLive(rest) ==
  IF \E i \in 1 .. Len(rest) : color[rest[i]] # OtherWhite
  THEN CHOOSE i \in 1 .. Len(rest) :
         color[rest[i]] # OtherWhite /\ \A j \in 1 .. i - 1 : color[rest[j]] = OtherWhite
  ELSE Len(rest)

-----------------------------------------------------------------------------
(***************************************************************************)
(* The program: luastruct_new_object, and a script's tables and variables. *)
(***************************************************************************)
\* The program runs between the collector's steps, but for a full cycle.
Running == full = "no" \/ finalizing # Nil

\* luaC_newobj.
NewObject(o) ==
  /\ ~Exists(o)
  /\ color' = [color EXCEPT ![o] = white]
  /\ lists' = [lists EXCEPT !.allgc = <<o>> \o @]
  /\ stack' = stack \cup {o}
  /\ UNCHANGED <<gcstate, white, gray, grayagain, sweepgc>>

\* As UnlinkFrom, when sweepgc stays where it is.
UnlinkInPlace(o) == [lists |-> lists, color |-> color, refs |-> refs, at |-> sweepgc]

\* sweepgc must not stay behind an object that leaves its list.
UnlinkFrom(o) ==
  IF IsSweepPhase /\ sweepgc = o
  THEN Sweep(lists, color, refs, "allgc", o, ToLive(Rest(lists, "allgc", o)), white)
  ELSE UnlinkInPlace(o)

\* luaC_checkfinalizer, of an object that is given a metatable with a __gc.
CheckFinalizer(o) ==
  IF ToFinalize(o) THEN UNCHANGED <<heap, refs>>
  ELSE LET s == UnlinkFrom(o) IN
       /\ lists' = [s.lists EXCEPT !.allgc = Without(@, {o}),
                                   !.finobj = <<o>> \o @]
       /\ color' = IF IsSweepPhase THEN [s.color EXCEPT ![o] = white] ELSE s.color
       /\ sweepgc' = s.at
       /\ refs' = s.refs
       /\ UNCHANGED <<gcstate, white, gray, grayagain>>

\* luastruct_new_object, in three steps: lua_newuserdata,
NewUserdata(u) ==
  /\ building = Nil
  /\ NewObject(u)
  /\ building' = u
  /\ UNCHANGED <<refs, weak>>

\* lua_setmetatable,
SetMetatable ==
  /\ building # Nil
  /\ ~ToFinalize(building)
  /\ CheckFinalizer(building)
  /\ UNCHANGED <<stack, weak, building>>

\* and the entry of the registry.
Register ==
  /\ building # Nil
  /\ ToFinalize(building)
  /\ weak' = weak \cup {building}
  /\ building' = Nil
  /\ UNCHANGED <<heap, stack, refs>>

\* luastruct_get_object.
GetObject(u) ==
  /\ u \in weak
  /\ stack' = stack \cup {u}
  /\ UNCHANGED <<heap, refs, weak, building>>

NewTable(t) == NewObject(t) /\ UNCHANGED <<refs, weak, building>>

\* setmetatable of a table, with a __gc.
SetGC(t) ==
  /\ t \in stack
  /\ ~ToFinalize(t)
  /\ CheckFinalizer(t)
  /\ UNCHANGED <<stack, weak, building>>

\* As BarrierBack, when it is forgotten.
NoBarrier(t, o) == UNCHANGED <<color, grayagain>>

\* luaC_barrierback: a black table that is given a white value is gray again.
BarrierBack(t, o) ==
  IF color[t] = "black" /\ color[o] \in Whites
  THEN /\ color' = [color EXCEPT ![t] = "gray"]
       /\ grayagain' = grayagain \cup {t}
  ELSE UNCHANGED <<color, grayagain>>

SetTable(t, o) ==
  /\ t \in stack /\ o \in stack \ refs[t]
  /\ refs' = [refs EXCEPT ![t] = @ \cup {o}]
  /\ BarrierBack(t, o)
  /\ UNCHANGED <<gcstate, white, gray, lists, sweepgc, stack, weak, building>>

GetTable(t, o) ==
  /\ t \in stack /\ o \in refs[t] \ stack
  /\ stack' = stack \cup {o}
  /\ UNCHANGED <<heap, refs, weak, building>>

ClearTable(t) ==
  /\ t \in stack /\ refs[t] # {}
  /\ refs' = [refs EXCEPT ![t] = {}]
  /\ UNCHANGED <<heap, stack, weak, building>>

Forget(o) ==
  /\ o \in stack \ {building}
  /\ stack' = stack \ {o}
  /\ UNCHANGED <<heap, refs, weak, building>>

\* The __gc of a table returns. An error leaves luaC_fullgc as well.
Return(error) ==
  /\ finalizing # Nil
  /\ finalizing' = Nil
  /\ full' = IF error THEN "no" ELSE full
  /\ UNCHANGED <<heap, emergency, fulls, program>>

\* luaC_fullgc, by collectgarbage or because malloc has failed. If there may
\* be black objects, everything is swept first. Full cycles inside a __gc are
\* left out.
FullGC(kind) ==
  /\ full = "no" /\ finalizing = Nil
  /\ fulls < MaxFull
  /\ full' = "finish"
  /\ emergency' = kind
  /\ fulls' = fulls + 1
  /\ IF KeepInvariant
     THEN LET s == Sweep(lists, color, refs, "allgc", Header, 1, white) IN
          /\ gcstate' = "swpallgc"
          /\ lists' = s.lists /\ color' = s.color /\ refs' = s.refs /\ sweepgc' = s.at
          /\ UNCHANGED <<white, gray, grayagain>>
     ELSE UNCHANGED <<heap, refs>>
  /\ UNCHANGED <<finalizing, stack, weak, building>>

-----------------------------------------------------------------------------
(***************************************************************************)
(* singlestep, case by case.                                               *)
(***************************************************************************)
\* Objects that are due for their finalizers are marked first: markbeingfnz.
BeingFinalized == On("tobefnz")

RestartCollection ==
  /\ gcstate = "pause"
  /\ gcstate' = "propagate"
  /\ color' = Marked(color, BeingFinalized)
  /\ gray' = {Thread} \cup WhiteTables(BeingFinalized)
  /\ grayagain' = {}
  /\ full' = IF full = "finish" THEN "collect" ELSE full
  /\ UNCHANGED <<white, lists, sweepgc, emergency, fulls, finalizing, program>>

\* propagatemark, of any object on the gray list; the thread stays gray.
PropagateMark(o) ==
  LET values == IF o = Thread THEN stack ELSE refs[o]
      rest   == (gray \ {o}) \cup WhiteTables(values)
  IN
  /\ gcstate = "propagate"
  /\ o \in gray
  /\ color' = IF o = Thread THEN Marked(color, values)
              ELSE Marked([color EXCEPT ![o] = "black"], values)
  /\ gray' = rest
  /\ grayagain' = IF o = Thread THEN grayagain \cup {Thread} ELSE grayagain
  /\ gcstate' = IF rest = {} THEN "atomic" ELSE "propagate"
  /\ UNCHANGED <<white, lists, sweepgc, control, program>>

\* As ClearValues, when weak tables are cleared after the unreachable objects
\* have been marked for their finalizers.
ClearValuesLate(strong, all) == weak \cap all

\* Weak values go unless they are strongly reachable: objects that are about to
\* be finalized are not.
ClearValues(strong, all) == weak \cap strong

\* As Staying, when separatetobefnz leaves what it queues on its list.
StayingAll(strong) == lists.finobj

\* What separatetobefnz leaves on finobj.
Staying(strong) == Only(lists.finobj, strong)

\* atomic: no step of the program comes between marking the last object,
\* clearing the weak table, queueing finalizers, and changing the white.
Atomic ==
  LET again  == (gray \cup grayagain) \ {Thread}
      old    == {o \in Things : color[o] \notin Whites}
      strong == old \cup PropagateAll(stack \cup UNION {refs[t] : t \in again}, old)
      queue  == lists.tobefnz \o Without(lists.finobj, strong)
      all    == strong \cup PropagateAll(Range(queue), strong)
      s      == Sweep([lists EXCEPT !.tobefnz = queue, !.finobj = Staying(strong)],
                      [o \in Things |-> IF o \in all THEN "black" ELSE color[o]],
                      refs, "allgc", Header, 1, OtherWhite)
  IN
  /\ gcstate = "atomic"
  /\ weak' = ClearValues(strong, all)
  /\ white' = OtherWhite
  /\ gray' = {} /\ grayagain' = {}
  /\ gcstate' = "swpallgc"
  /\ lists' = s.lists /\ color' = s.color /\ refs' = s.refs /\ sweepgc' = s.at
  /\ UNCHANGED <<control, stack, building>>

\* sweepstep: the next phase begins when nothing is left to sweep.
SweepStep ==
  \E i \in 1 .. 3 :
    LET list == Swept[Sweeps[i]]
        s == IF sweepgc = Nil
             THEN [lists |-> lists, color |-> color, refs |-> refs, at |-> Nil]
             ELSE Sweep(lists, color, refs, list, sweepgc, SweepMax, white)
    IN
    /\ gcstate = Sweeps[i]
    /\ lists' = s.lists /\ color' = s.color /\ refs' = s.refs
    /\ IF s.at # Nil THEN sweepgc' = s.at /\ UNCHANGED gcstate
       ELSE /\ sweepgc' = IF i = 3 THEN Nil ELSE Header
            /\ gcstate' = Sweeps[i + 1]
    /\ UNCHANGED <<white, gray, grayagain, control, stack, weak, building>>

SweepEnd ==
  /\ gcstate = "swpend"
  /\ gcstate' = "callfin"
  /\ UNCHANGED <<white, color, gray, grayagain, lists, sweepgc, control, program>>

\* As AfterFull, when g->gckind is not set back.
AfterFullAsBefore == full' = "no" /\ UNCHANGED emergency

AfterFull == full' = "no" /\ emergency' = FALSE

\* The cycle ends when no finalizer is left, or in an emergency.
Pause ==
  /\ gcstate = "callfin"
  /\ lists.tobefnz = <<>> \/ emergency
  /\ gcstate' = "pause"
  /\ IF full = "collect" THEN AfterFull ELSE UNCHANGED <<full, emergency>>
  /\ UNCHANGED <<white, color, gray, grayagain, lists, sweepgc, fulls, finalizing, program>>

\* The next object that is due. When it is the one that sweepgc is at, it leads
\* the sweep to allgc, away from what is left of tobefnz. Finalizers run in
\* batches that double in size, a sweep goes on by some hundred objects: it takes
\* thousands of pending objects for the finalizers to get there.
\*
\* GCTM. The object is an ordinary one again before its __gc runs: that of a
\* userdata is luastruct_object__gc, that of a table is the script's.
CallFinalizer ==
  LET o == lists.tobefnz[1] IN
  /\ lists.tobefnz # <<>>
  /\ ~emergency
  /\ gcstate = "callfin" \/ (full = "no" /\ gcstate # "pause")
  /\ gcstate = "swptobefnz" /\ sweepgc = o => Outruns
  /\ lists' = [lists EXCEPT !.tobefnz = Tail(@), !.allgc = <<o>> \o @]
  /\ color' = IF IsSweepPhase THEN [color EXCEPT ![o] = white] ELSE color
  /\ IF o \in Tables
     THEN finalizing' = o /\ stack' = stack \cup {o}
     ELSE UNCHANGED <<finalizing, stack>>
  /\ UNCHANGED <<gcstate, white, gray, grayagain, sweepgc, full, emergency, fulls,
                 refs, weak, building>>

-----------------------------------------------------------------------------
Init ==
  /\ gcstate = "pause"
  /\ white = "white0"
  /\ color = [o \in Things |-> "white0"]
  /\ gray = {} /\ grayagain = {}
  /\ lists = [list \in Lists |-> <<>>]
  /\ sweepgc = Nil
  /\ full = "no" /\ emergency = FALSE /\ fulls = 0
  /\ finalizing = Nil
  /\ stack = {}
  /\ refs = [t \in Tables |-> {}]
  /\ weak = {}
  /\ building = Nil

Script ==
  \/ \E u \in Userdata : NewUserdata(u) \/ GetObject(u)
  \/ \E t \in Tables :
       \/ NewTable(t) \/ SetGC(t) \/ ClearTable(t)
       \/ \E o \in Things : SetTable(t, o) \/ GetTable(t, o)
  \/ \E o \in Things : Forget(o)

\* Within luastruct_new_object only a finalizer runs the script.
Program ==
  /\ Running
  /\ \/ SetMetatable
     \/ Register
     \/ (building = Nil \/ finalizing # Nil) /\ Script
  /\ UNCHANGED control

\* No step of the collector is taken while a finalizer runs.
SingleStep ==
  /\ finalizing = Nil
  /\ \/ RestartCollection
     \/ \E o \in Tables \cup {Thread} : PropagateMark(o)
     \/ Atomic
     \/ SweepStep
     \/ SweepEnd
     \/ Pause

Finalize == finalizing = Nil /\ CallFinalizer

Collecting ==
  \/ SingleStep
  \/ Finalize
  \/ \E error \in BOOLEAN : Return(error)

Next ==
  \/ Program
  \/ \E kind \in BOOLEAN : FullGC(kind)
  \/ Collecting

Spec == Init /\ [][Next]_vars

\* A program that goes on allocating calls luaC_step again and again, and
\* finalizers return.
FairSpec == Spec /\ WF_vars(Collecting)

-----------------------------------------------------------------------------
(***************************************************************************)
(* Properties.                                                             *)
(***************************************************************************)
Reach(S) == PropagateAll(S, {})

\* What the program, or a finalizer that is due, can come to.
Reachable == Reach(stack \cup On("tobefnz"))

\* Every object is on one of the lists at most, and there once.
Well(l) ==
  /\ l \in [Lists -> Seq(Things)]
  /\ \A list \in Lists : IsInjective(l[list])
  /\ \A l1, l2 \in Lists : l1 # l2 => Range(l[l1]) \cap Range(l[l2]) = {}

\* Every variable has a value of its type.
TypeOK ==
  /\ gcstate \in Phases
  /\ white \in Whites
  /\ color \in [Things -> Colors]
  /\ gray \cup grayagain \subseteq Tables \cup {Thread}
  /\ Well(lists)
  /\ sweepgc \in {Nil, Header} \cup Things
  /\ full \in {"no", "finish", "collect"} /\ emergency \in BOOLEAN
  /\ finalizing \in Tables \cup {Nil}
  /\ refs \in [Tables -> SUBSET Things] /\ weak \subseteq Userdata
  /\ stack \subseteq Things /\ building \in stack \cup {Nil}

\* No object is freed that the program, a finalizer that is due or the weak
\* table can come to.
NoneFreed == \A o \in Reachable \cup weak : Exists(o)

\* The main invariant, while marking: no black table refers to a white object.
TriColour ==
  KeepInvariant =>
    \A t \in Tables : Exists(t) /\ color[t] = "black" =>
      \A o \in refs[t] : color[o] \notin Whites

\* Once everything has been swept, every object is white again, ready for the
\* next cycle.
AllWhite ==
  gcstate \in {"callfin", "pause"} => \A o \in Things : Exists(o) => color[o] = white

\* A pending finalizer is called in the end.
FinalizersRun == \A o \in Things : o \in On("tobefnz") ~> o \notin On("tobefnz")

Stage(u) ==
  IF ~Exists(u) THEN "absent"
  ELSE IF u \in On("finobj") THEN "live"
  ELSE IF u \in On("tobefnz") THEN "pending" ELSE "plain"

Promise == INSTANCE Collector WITH
  Handles <- Userdata,
  stage   <- [u \in Userdata |-> Stage(u)],
  held    <- Reach(stack) \cap Userdata,
  weak    <- weak

\* The incremental collector implements Collector: to luastruct, a cycle that
\* takes many steps looks like one.
KeepsPromise == Promise!Spec
=============================================================================

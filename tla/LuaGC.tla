------------------------------- MODULE LuaGC -------------------------------
(***************************************************************************)
(* The incremental collector of the Lua 5.1 machine that the MAC, iOS and  *)
(* WinPhone builds embed (win_build_src/luavm/src: lgc.c, with the write   *)
(* barriers of lapi.c, lvm.c and ltable.c and the upvalues of lfunc.c),    *)
(* interleaved with the program whose heap it collects.                    *)
(*                                                                         *)
(* The collector marks (propagate), ends the marking in one atomic step,   *)
(* sweeps strings and objects, and calls finalizers; the program runs      *)
(* between any two steps.  Two whites tell an object that is not marked    *)
(* yet, or new, from one that was found dead by the last marking.          *)
(***************************************************************************)
EXTENDS Integers, FiniteSets

CONSTANTS
  Tables, Udata, Strings, Closures, Upvals, Threads,  \* the cells of the heap
  Main,      \* the main thread
  Nil,       \* no value
  Num,       \* a value that is not collectable
  Slots,     \* the stack slots of a thread; only open upvalues need their order
  Keys,      \* the values the program uses as table keys
  Modes,     \* the __mode strings it gives tables: "", "k", "v", "kv"
  BaseMts,   \* the tables it sets as the metatable of a basic type
  FullCalls  \* does the program call collectgarbage("collect")?

Obj == Tables \cup Udata \cup Strings \cup Closures \cup Upvals \cup Threads

Value == (Obj \ Upvals) \cup {Nil}

ASSUME MainAssumption == Main \in Threads
ASSUME ValuesAssumption == Nil \notin Obj \cup {Num} /\ Num \notin Obj
ASSUME SlotsAssumption == Upvals # {} => Slots \subseteq Nat
ASSUME KindsAssumption ==
  /\ Tables \cap (Udata \cup Strings \cup Closures \cup Upvals \cup Threads) = {}
  /\ Udata \cap (Strings \cup Closures \cup Upvals \cup Threads) = {}
  /\ Strings \cap (Closures \cup Upvals \cup Threads) = {}
  /\ Closures \cap (Upvals \cup Threads) = {}
  /\ Upvals \cap Threads = {}
ASSUME KeysAssumption == Keys \subseteq (Value \ {Nil}) \cup {Num}
ASSUME ModesAssumption == "" \in Modes /\ Modes \subseteq {"", "k", "v", "kv"}
ASSUME BaseMtsAssumption == BaseMts \subseteq Tables
ASSUME FullCallsAssumption == FullCalls \in BOOLEAN

VARIABLES
  mark,       \* the colour of each cell, "free" when it is not allocated
  cw,         \* currentwhite
  gcstate,    \* the collector's state
  gray, grayagain, weak,  \* the collector's lists, threaded through gclist
  tosweep,    \* what the sweep has not reached
  tmudata,    \* the userdata whose finalizers are to be called
  finalized,  \* the userdata with FINALIZEDBIT
  drain,      \* luaC_fullgc is finishing the sweep it found
  called,     \* the userdata whose finalizer has been called
  tab, mode,  \* the one hash entry of each table, and its __mode
  env, hasgc, \* the environment of a userdata, and has it a __gc?
  up, uv,     \* the upvalue of a closure, the contents of an upvalue
  stack,      \* the slots of each thread
  args,       \* the userdata that running finalizers hold on a thread's stack
  running,    \* the thread that runs
  basemt      \* a metatable of a basic type (g->mt)

collector == <<cw, gcstate, gray, grayagain, weak, tosweep, tmudata, finalized, drain>>
heap == <<tab, mode, env, hasgc, up, uv>>
roots == <<args, running, basemt>>
vars == <<mark, collector, called, heap, stack, roots>>

-----------------------------------------------------------------------------
(***************************************************************************)
(* Colours.                                                                *)
(***************************************************************************)
Whites == {"white0", "white1"}
Other(w) == IF w = "white0" THEN "white1" ELSE "white0"

White == {o \in Obj : mark[o] \in Whites}
Black == {o \in Obj : mark[o] = "black"}
Gray == {o \in Obj : mark[o] = "gray"}
Free == {o \in Obj : mark[o] = "free"}
Dead == {o \in Obj : mark[o] = Other(cw)}

(***************************************************************************)
(* The heap as a graph.                                                    *)
(***************************************************************************)
NoEntry == [key |-> Nil, val |-> Nil]
NoUpval == [th |-> Nil, slot |-> Nil, val |-> Nil]

Open(v) == uv[v].th # Nil
Contents(v) == IF Open(v) THEN stack[uv[v].th][uv[v].slot] ELSE uv[v].val
OpenOn(th) == {v \in Upvals : uv[v].th = th}

WeakKey(t) == mode[t] \in {"k", "kv"}
WeakValue(t) == mode[t] \in {"v", "kv"}

OnStack(th) == {stack[th][s] : s \in Slots} \cup args[th]

(* Everything the program can follow from o.                               *)
AllRefs(o) ==
  Obj \cap
    CASE o \in Tables   -> IF tab[o].val = Nil THEN {} ELSE {tab[o].key, tab[o].val}
      [] o \in Udata    -> {env[o]}
      [] o \in Closures -> {up[o]}
      [] o \in Upvals   -> {Contents(o)}
      [] o \in Threads  -> OnStack(o)
      [] OTHER          -> {}

(* What the collector marks when it traverses o.                           *)
StrongRefs(o) ==
  IF o \in Tables /\ tab[o].val # Nil
  THEN Obj \cap ((IF WeakKey(o) THEN {} ELSE {tab[o].key})
                   \cup (IF WeakValue(o) THEN {} ELSE {tab[o].val}))
  ELSE AllRefs(o)

(* The least set that holds S and the references of each member of it.     *)
Reached(S, Refs(_)) ==
  LET Closed == {X \in {S \cup Y : Y \in SUBSET (Obj \ S)} : \A x \in X : Refs(x) \subseteq X}
  IN  {o \in Obj : \A X \in Closed : o \in X}

-----------------------------------------------------------------------------
(***************************************************************************)
(* Marking.  reallymarkobject goes at once through userdata and upvalues,  *)
(* and leaves tables, closures and threads gray, on the gray list.         *)
(***************************************************************************)
Listed == Tables \cup Closures \cup Threads

Onward(S) == S \cup (White \cap UNION {StrongRefs(o) : o \in S \cap (Udata \cup Upvals)})

(* The longest way at once is upvalue, userdata, environment.              *)
Touched(S) == Onward(Onward(S \cap White))

Colour(o) == IF o \in Udata \/ (o \in Upvals /\ ~Open(o)) THEN "black" ELSE "gray"

Marked(S) ==
  LET touched == Touched(S)
  IN  [o \in Obj |-> IF o \in touched THEN Colour(o) ELSE mark[o]]

(* A table's empty entry loses its key when the table is traversed.        *)
Removed(key) == IF key = Num THEN Num ELSE Nil

Purged(T) ==
  [t \in Tables |-> IF t \in T /\ mode[t] # "kv" /\ tab[t].val = Nil
                    THEN [tab[t] EXCEPT !.key = Removed(@)] ELSE tab[t]]

(* The colour of an object after propagatemark.                            *)
Traversed(o) == IF o \in Threads \/ (o \in Tables /\ mode[o] # "") THEN "gray" ELSE "black"

WeakTables(S) == {t \in S \cap Tables : mode[t] # ""}

(* markroot, which singlestep runs in a pause and luaC_fullgc when it has  *)
(* finished the sweep it found.                                            *)
MarkRoot ==
  /\ gcstate = "pause" \/ (gcstate = "finalize" /\ drain)
  /\ mark' = Marked({Main, basemt})
  /\ gray' = Touched({Main, basemt}) \cap Listed
  /\ grayagain' = {}
  /\ weak' = {}
  /\ gcstate' = "propagate"
  /\ drain' = FALSE
  /\ UNCHANGED <<cw, tosweep, tmudata, finalized, called, heap, stack, roots>>

(* propagatemark.                                                          *)
Propagate(o) ==
  /\ gcstate = "propagate"
  /\ o \in gray
  /\ mark' = [Marked(StrongRefs(o)) EXCEPT ![o] = Traversed(o)]
  /\ gray' = (gray \ {o}) \cup (Touched(StrongRefs(o)) \cap Listed)
  /\ grayagain' = grayagain \cup ({o} \cap Threads)
  /\ weak' = weak \cup WeakTables({o})
  /\ tab' = Purged({o})
  /\ UNCHANGED <<cw, gcstate, tosweep, tmudata, finalized, drain, called, mode, env, hasgc, up, uv, stack, roots>>

(***************************************************************************)
(* atomic.  Its propagations reach everything white that the lists, the    *)
(* contents of gray open upvalues, the running thread and the basic        *)
(* metatables lead to; then the userdata to finalize are set apart and     *)
(* what they lead to is marked too, so that their finalizers can use it.   *)
(***************************************************************************)
RemarkUpvals == {Contents(v) : v \in {w \in Upvals \cap Gray : Open(w)}}

Unmarked(o) == StrongRefs(o) \cap White

RemarkedWithoutGrayagain == Reached(gray \cup weak \cup (White \cap (RemarkUpvals \cup {running, basemt})), Unmarked)

Remarked == Reached(gray \cup weak \cup grayagain \cup (White \cap (RemarkUpvals \cup {running, basemt})), Unmarked)

SeparatedAgain(rem) == (Udata \cap White) \ rem

(* luaC_separateudata.                                                     *)
Separated(rem) == {u \in (Udata \cap White) \ rem : u \notin finalized}

ToFinalizeOnlyOld(rem) == tmudata

ToFinalize(rem) == tmudata \cup {u \in Separated(rem) : hasgc[u]}

(* marktmu and the propagation after it.                                   *)
Preserved(rem) == Reached(rem \cup ToFinalize(rem), Unmarked)

(* iscleared, once all that is kept is marked: strings are never cleared.  *)
Cleared(o, iskey, kept, fin) ==
  /\ o \in Obj \ Strings
  /\ \/ o \in White \ kept
     \/ o \in Udata \cap fin /\ ~iskey

ClearedEntryByKey(t, kept, fin) ==
  /\ t \in WeakTables(kept)
  /\ tab[t].val # Nil
  /\ Cleared(tab[t].key, TRUE, kept, fin)

ClearedEntry(t, kept, fin) ==
  /\ t \in WeakTables(kept)
  /\ tab[t].val # Nil
  /\ Cleared(tab[t].key, TRUE, kept, fin) \/ Cleared(tab[t].val, FALSE, kept, fin)

ClearTable(entries, kept, fin) ==
  [t \in Tables |-> IF ClearedEntry(t, kept, fin)
                    THEN [key |-> Removed(tab[t].key), val |-> Nil] ELSE entries[t]]

(* The strings iscleared marks on its way through the weak tables.         *)
KeptStrings(kept, fin) ==
  LET filled == {t \in WeakTables(kept) : tab[t].val # Nil}
  IN  Strings \cap ({tab[t].key : t \in filled}
                      \cup {tab[t].val : t \in {w \in filled : ~Cleared(tab[w].key, TRUE, kept, fin)}})

RootList == {o \in Obj \ Free : ~(o \in Upvals /\ Open(o))}

Atomic ==
  /\ gcstate = "propagate"
  /\ gray = {}
  /\ LET rem  == Remarked
         kept == Preserved(rem)
         fin  == finalized \cup Separated(rem)
         strs == KeptStrings(kept, fin)
     IN  /\ tmudata' = ToFinalize(rem)
         /\ finalized' = fin
         /\ mark' = [o \in Obj |-> CASE o \in kept \cap Listed        -> Traversed(o)
                                     [] o \in kept \ Listed          -> Colour(o)
                                     [] o \in (strs \cap White) \ kept -> "gray"
                                     [] OTHER                        -> mark[o]]
         /\ grayagain' = kept \cap Threads
         /\ weak' = WeakTables(kept)
         /\ tab' = ClearTable(Purged(kept), kept, fin)
  /\ cw' = Other(cw)
  /\ tosweep' = RootList \ tmudata'
  /\ gcstate' = "sweepstring"
  /\ UNCHANGED <<gray, drain, called, mode, env, hasgc, up, uv, stack, roots>>

-----------------------------------------------------------------------------
(***************************************************************************)
(* Sweeping.  A cell that is freed loses its contents.                     *)
(***************************************************************************)
SweptNothing(S) == [o \in Obj |-> IF o \in S THEN cw ELSE mark[o]]

Swept(S) == [o \in Obj |-> IF o \notin S THEN mark[o] ELSE IF o \in Dead THEN "free" ELSE cw]

(* One bucket of the string table; the last one ends the phase.            *)
SweepStrings(bucket) ==
  /\ gcstate = "sweepstring"
  /\ bucket \subseteq tosweep \cap Strings
  /\ \/ bucket # {} /\ gcstate' = "sweepstring"
     \/ bucket = tosweep \cap Strings /\ gcstate' = "sweep"
  /\ mark' = Swept(bucket)
  /\ tosweep' = tosweep \ bucket
  /\ UNCHANGED <<cw, gray, grayagain, weak, tmudata, finalized, drain, called, heap, stack, roots>>

Emptied(f, D, none) == [o \in DOMAIN f |-> IF o \in D THEN none ELSE f[o]]

(* sweeplist on one object, with the open upvalues of a thread.  freeobj   *)
(* of a thread closes what is left of them (luaE_freethread).              *)
SweepObject(o) ==
  /\ gcstate = "sweep"
  /\ o \in tosweep
  /\ LET S == {o} \cup OpenOn(o)
         freed == S \cap Dead
     IN  /\ mark' = Swept(S)
         /\ tab' = Emptied(tab, freed, NoEntry)
         /\ mode' = Emptied(mode, freed, "")
         /\ env' = Emptied(env, freed, Nil)
         /\ hasgc' = Emptied(hasgc, freed, FALSE)
         /\ up' = Emptied(up, freed, Nil)
         /\ uv' = [v \in Upvals |->
                     IF v \in freed THEN NoUpval
                     ELSE IF o \in freed /\ uv[v].th = o THEN [NoUpval EXCEPT !.val = Contents(v)]
                     ELSE uv[v]]
         /\ stack' = Emptied(stack, freed, [s \in Slots |-> Nil])
         /\ finalized' = finalized \ freed
         /\ called' = called \ freed
  /\ tosweep' = tosweep \ {o}
  /\ gcstate' = IF tosweep = {o} THEN "finalize" ELSE "sweep"
  /\ UNCHANGED <<cw, gray, grayagain, weak, tmudata, drain, roots>>

(***************************************************************************)
(* GCTM: the finalizer of one userdata starts, on the stack of whichever   *)
(* thread happens to run.                                                  *)
(***************************************************************************)
Finalize(u) ==
  /\ gcstate = "finalize" /\ ~drain
  /\ u \in tmudata
  /\ tmudata' = tmudata \ {u}
  /\ mark' = [mark EXCEPT ![u] = cw]
  /\ IF hasgc[u]
     THEN args' = [args EXCEPT ![running] = @ \cup {u}] /\ called' = called \cup {u}
     ELSE UNCHANGED <<args, called>>
  /\ UNCHANGED <<cw, gcstate, gray, grayagain, weak, tosweep, finalized, drain, heap, stack, running, basemt>>

EndCycle ==
  /\ gcstate = "finalize" /\ ~drain
  /\ tmudata = {}
  /\ gcstate' = "pause"
  /\ UNCHANGED <<mark, cw, gray, grayagain, weak, tosweep, tmudata, finalized, drain, called, heap, stack, roots>>

GCStep ==
  \/ MarkRoot
  \/ \E o \in Listed : Propagate(o)
  \/ Atomic
  \/ \E bucket \in SUBSET Strings : SweepStrings(bucket)
  \/ \E o \in Obj \ Strings : SweepObject(o)
  \/ \E u \in Udata : Finalize(u)
  \/ EndCycle

-----------------------------------------------------------------------------
(***************************************************************************)
(* The write barriers: the colours and lists after a reference to v has    *)
(* been stored in o.                                                       *)
(***************************************************************************)
NeedsBarrier(o, v) == o \in Black /\ v \in White

BarrierNone(t, V) == UNCHANGED <<mark, grayagain>>

BarrierUnlisted(t, V) ==
  IF \E v \in V : NeedsBarrier(t, v)
  THEN mark' = [mark EXCEPT ![t] = "gray"] /\ UNCHANGED grayagain
  ELSE UNCHANGED <<mark, grayagain>>

(* luaC_barriert with luaC_barrierback: the table is gray again.           *)
BarrierBack(t, V) ==
  IF \E v \in V : NeedsBarrier(t, v)
  THEN /\ mark' = [mark EXCEPT ![t] = "gray"]
       /\ grayagain' = grayagain \cup {t}
  ELSE UNCHANGED <<mark, grayagain>>

BarrierForwardNone(o, v) == UNCHANGED <<mark, gray>>

(* luaC_barrier and luaC_objbarrier with luaC_barrierf: the value is       *)
(* marked, or the object is whitened when there is no invariant to keep.   *)
BarrierForward(o, v) ==
  IF ~NeedsBarrier(o, v) THEN UNCHANGED <<mark, gray>>
  ELSE IF gcstate = "propagate"
  THEN mark' = Marked({v}) /\ gray' = gray \cup (Touched({v}) \cap Listed)
  ELSE mark' = [mark EXCEPT ![o] = cw] /\ UNCHANGED gray

-----------------------------------------------------------------------------
(***************************************************************************)
(* The program.  It holds what is on the running thread's stack.  It       *)
(* cannot run while luaC_fullgc finishes a sweep.                          *)
(***************************************************************************)
Held == OnStack(running) \ {Nil}

Put(s, v) == stack' = [stack EXCEPT ![running][s] = v]

(* luaC_link of a new object.                                              *)
Create(o, s) ==
  /\ o \in Free \cap (Tables \cup Udata \cup Threads \cup Strings)
  /\ mark' = [mark EXCEPT ![o] = cw]
  /\ Put(s, o)
  /\ UNCHANGED <<collector, called, heap, roots>>

(* luaS_newlstr on a string that exists: it may be dead, and comes back.   *)
Intern(o, s) ==
  /\ o \in Strings \ Free
  /\ mark' = IF o \in Dead THEN [mark EXCEPT ![o] = Other(@)] ELSE mark
  /\ Put(s, o)
  /\ UNCHANGED <<collector, called, heap, roots>>

Move(s, v) ==
  /\ v \in Held \cup {Nil}
  /\ Put(s, v)
  /\ UNCHANGED <<mark, collector, called, heap, roots>>

(* luaV_settable: luaH_set may put a new key in the table, with a barrier  *)
(* of its own.                                                             *)
TableSet(t, k, v) ==
  /\ t \in Held /\ k \in Held \cup {Num} /\ v \in Held \cup {Nil}
  /\ tab[t].val = Nil \/ tab[t].key = k
  /\ tab' = [tab EXCEPT ![t] = [key |-> k, val |-> v]]
  /\ BarrierBack(t, {v} \cup (IF tab[t].key = k THEN {} ELSE {k}))
  /\ UNCHANGED <<cw, gcstate, gray, weak, tosweep, tmudata, finalized, drain, called, mode, env, hasgc, up, uv, stack, roots>>

(* lua_next and luaV_gettable.                                             *)
TableGet(t, s, v) ==
  /\ t \in Held
  /\ v \in AllRefs(t)
  /\ Put(s, v)
  /\ UNCHANGED <<mark, collector, called, heap, roots>>

(* lua_setmetatable with one of the metatables the registry keeps: what    *)
(* matters here is its __mode, or whether it has a __gc.                   *)
SetMode(t, m) ==
  /\ t \in Held
  /\ mode' = [mode EXCEPT ![t] = m]
  /\ UNCHANGED <<mark, collector, called, tab, env, hasgc, up, uv, stack, roots>>

SetGC(u, b) ==
  /\ u \in Held
  /\ hasgc' = [hasgc EXCEPT ![u] = b]
  /\ UNCHANGED <<mark, collector, called, tab, mode, env, up, uv, stack, roots>>

(* lua_setfenv and lua_getfenv of a userdata.                              *)
SetEnv(u, t) ==
  /\ u \in Held /\ t \in Held
  /\ env' = [env EXCEPT ![u] = t]
  /\ BarrierForward(u, t)
  /\ UNCHANGED <<cw, gcstate, grayagain, weak, tosweep, tmudata, finalized, drain, called, tab, mode, hasgc, up, uv, stack, roots>>

GetEnv(u, s) ==
  /\ u \in Held
  /\ env[u] # Nil
  /\ Put(s, env[u])
  /\ UNCHANGED <<mark, collector, called, heap, roots>>

(* lua_setmetatable of a basic type: no barrier; and lua_getmetatable.     *)
SetBaseMt(t) ==
  /\ t \in Held \cup {Nil}
  /\ basemt' = t
  /\ UNCHANGED <<mark, collector, called, heap, stack, args, running>>

GetBaseMt(s) ==
  /\ basemt # Nil
  /\ Put(s, basemt)
  /\ UNCHANGED <<mark, collector, called, heap, roots>>

(* The finalizer returns.                                                  *)
FinalizerReturns(u) ==
  /\ u \in args[running]
  /\ args' = [args EXCEPT ![running] = @ \ {u}]
  /\ UNCHANGED <<mark, collector, called, heap, stack, running, basemt>>

(***************************************************************************)
(* OP_CLOSURE: the upvalue is the open one of a slot, which luaF_findupval *)
(* finds (and revives) or makes, or one of the enclosing closure.          *)
(***************************************************************************)
FoundAlive(v, s) == v \notin Free \cup Dead /\ uv[v].th = running /\ uv[v].slot = s

Found(v, s) == v \notin Free /\ uv[v].th = running /\ uv[v].slot = s

FindUpval(v, s) ==
  IF \E w \in Upvals : Found(w, s)
  THEN Found(v, s) /\ uv' = uv
  ELSE v \in Free /\ uv' = [uv EXCEPT ![v] = [th |-> running, slot |-> s, val |-> Nil]]

(* A new upvalue is white; a dead one that is found changes its white.     *)
Revived(v) == IF v \in Free \cup Dead THEN cw ELSE mark[v]

NewClosure(c, d, v, s) ==
  /\ c \in Free
  /\ FindUpval(v, s)
  /\ mark' = [mark EXCEPT ![c] = cw, ![v] = Revived(v)]
  /\ up' = [up EXCEPT ![c] = v]
  /\ Put(d, c)
  /\ UNCHANGED <<collector, called, tab, mode, env, hasgc, roots>>

ShareUpval(c, d, outer) ==
  /\ c \in Free
  /\ outer \in Held
  /\ mark' = [mark EXCEPT ![c] = cw]
  /\ up' = [up EXCEPT ![c] = up[outer]]
  /\ Put(d, c)
  /\ UNCHANGED <<collector, called, tab, mode, env, hasgc, uv, roots>>

(* OP_GETUPVAL and OP_SETUPVAL, in a closure the thread holds.             *)
GetUpval(c, s) ==
  /\ c \in Held
  /\ Put(s, Contents(up[c]))
  /\ UNCHANGED <<mark, collector, called, heap, roots>>

SetUpval(c, v) ==
  /\ c \in Held
  /\ v \in Held \cup {Nil}
  /\ LET u == up[c]
     IN  /\ IF Open(u) THEN /\ stack' = [stack EXCEPT ![uv[u].th][uv[u].slot] = v]
                            /\ uv' = uv
                       ELSE /\ uv' = [uv EXCEPT ![u].val = v]
                            /\ stack' = stack
         /\ BarrierForward(u, v)
  /\ UNCHANGED <<cw, gcstate, grayagain, weak, tosweep, tmudata, finalized, drain, called, tab, mode, env, hasgc, up, roots>>

LinkNoBarrier(linked) == {}

(* What linking these closed upvalues marks.                               *)
LinkBarrier(linked) == IF gcstate = "propagate" THEN {Contents(v) : v \in linked} ELSE {}

(* luaF_close with luaC_linkupval: a closed upvalue that was gray becomes  *)
(* black, with its barrier, or white again when the marking is over.       *)
CloseUpvals(level) ==
  LET leaving == {v \in OpenOn(running) : uv[v].slot >= level}
      dead    == leaving \cap Dead
      linked  == leaving \cap Gray
      values  == LinkBarrier(linked)
      colour  == IF gcstate = "propagate" THEN "black" ELSE cw
      marked  == Marked(values)
  IN  /\ leaving # {}
      /\ uv' = [v \in Upvals |->
                  CASE v \in dead    -> NoUpval
                    [] v \in leaving \ dead -> [NoUpval EXCEPT !.val = Contents(v)]
                    [] OTHER         -> uv[v]]
      /\ mark' = [o \in Obj |-> IF o \in dead THEN "free" ELSE IF o \in linked THEN colour ELSE marked[o]]
      /\ gray' = gray \cup (Touched(values) \cap Listed)
      /\ UNCHANGED <<cw, gcstate, grayagain, weak, tosweep, tmudata, finalized, drain, called, tab, mode, env, hasgc, up, stack, roots>>

(***************************************************************************)
(* lua_resume and lua_yield, with one value moved between the stacks; no   *)
(* thread yields out of a finalizer.                                       *)
(***************************************************************************)
Resume(th, s, v) ==
  /\ running = Main
  /\ th \in Held \ {Main}
  /\ v \in Held
  /\ running' = th
  /\ stack' = [stack EXCEPT ![th][s] = v]
  /\ UNCHANGED <<mark, collector, called, heap, args, basemt>>

Yield(s, v) ==
  /\ running # Main
  /\ args[running] = {}
  /\ v \in Held
  /\ running' = Main
  /\ stack' = [stack EXCEPT ![Main][s] = v]
  /\ UNCHANGED <<mark, collector, called, heap, args, basemt>>

(* luaC_fullgc forgets a marking in progress and sweeps everything white,  *)
(* finishes the sweep it finds, and starts a cycle (MarkRoot).             *)
FullGC ==
  /\ FullCalls
  /\ drain' = TRUE
  /\ IF gcstate \in {"pause", "propagate"}
     THEN /\ tosweep' = RootList \ tmudata
          /\ gray' = {} /\ grayagain' = {} /\ weak' = {}
          /\ gcstate' = "sweepstring"
     ELSE UNCHANGED <<tosweep, gray, grayagain, weak, gcstate>>
  /\ UNCHANGED <<mark, cw, tmudata, finalized, called, heap, stack, roots>>

Program ==
  /\ ~drain
  /\ \/ \E o \in Obj, s \in Slots : Create(o, s)
     \/ \E o \in Strings, s \in Slots : Intern(o, s)
     \/ \E s \in Slots, v \in Value : Move(s, v)
     \/ \E t \in Tables, k \in Keys, v \in Value : TableSet(t, k, v)
     \/ \E t \in Tables, s \in Slots, v \in Obj : TableGet(t, s, v)
     \/ \E t \in Tables, m \in Modes : SetMode(t, m)
     \/ \E u \in Udata, b \in BOOLEAN : SetGC(u, b)
     \/ \E u \in Udata, t \in Tables : SetEnv(u, t)
     \/ \E u \in Udata, s \in Slots : GetEnv(u, s)
     \/ \E t \in BaseMts \cup {Nil} : SetBaseMt(t)
     \/ \E s \in Slots : GetBaseMt(s)
     \/ \E u \in Udata : FinalizerReturns(u)
     \/ \E c \in Closures, d \in Slots, v \in Upvals, s \in Slots : NewClosure(c, d, v, s)
     \/ \E c \in Closures, d \in Slots, outer \in Closures : ShareUpval(c, d, outer)
     \/ \E c \in Closures, s \in Slots : GetUpval(c, s)
     \/ \E c \in Closures, v \in Value : SetUpval(c, v)
     \/ \E level \in Slots : CloseUpvals(level)
     \/ \E th \in Threads, s \in Slots, v \in Value : Resume(th, s, v)
     \/ \E s \in Slots, v \in Value : Yield(s, v)
     \/ FullGC

Init ==
  /\ mark = [o \in Obj |-> IF o = Main THEN "white0" ELSE "free"]
  /\ cw = "white0"
  /\ gcstate = "pause"
  /\ gray = {} /\ grayagain = {} /\ weak = {}
  /\ tosweep = {} /\ tmudata = {} /\ finalized = {} /\ called = {}
  /\ drain = FALSE
  /\ tab = [t \in Tables |-> NoEntry]
  /\ mode = [t \in Tables |-> ""]
  /\ env = [u \in Udata |-> Nil]
  /\ hasgc = [u \in Udata |-> FALSE]
  /\ up = [c \in Closures |-> Nil]
  /\ uv = [v \in Upvals |-> NoUpval]
  /\ stack = [th \in Threads |-> [s \in Slots |-> Nil]]
  /\ args = [th \in Threads |-> {}]
  /\ running = Main
  /\ basemt = Nil

Next == GCStep \/ Program

Spec == Init /\ [][Next]_vars

(* The program allocates for ever, so the collector keeps stepping; some   *)
(* step of it is always possible, so this is its weak fairness.            *)
FairSpec == Spec /\ []<><<GCStep>>_vars

-----------------------------------------------------------------------------
(* Every cell has a colour or is free, the collector's lists hold cells of *)
(* the kinds that have a gclist, and references are of their kind: an      *)
(* environment is a table, an upvalue of a closure an upvalue.             *)
TypeOK ==
  /\ mark \in [Obj -> Whites \cup {"free", "gray", "black"}]
  /\ cw \in Whites
  /\ gcstate \in {"pause", "propagate", "sweepstring", "sweep", "finalize"}
  /\ gray \cup grayagain \subseteq Tables \cup Closures \cup Threads /\ weak \subseteq Tables
  /\ tosweep \subseteq Obj
  /\ tmudata \subseteq Udata /\ finalized \subseteq Udata /\ called \subseteq Udata
  /\ drain \in BOOLEAN
  /\ tab \in [Tables -> [key : Keys \cup {Nil}, val : Value]]
  /\ mode \in [Tables -> Modes]
  /\ env \in [Udata -> Tables \cup {Nil}]
  /\ hasgc \in [Udata -> BOOLEAN]
  /\ up \in [Closures -> Upvals \cup {Nil}]
  /\ uv \in [Upvals -> [th : Threads \cup {Nil}, slot : Slots \cup {Nil}, val : Value]]
  /\ stack \in [Threads -> [Slots -> Value]]
  /\ args \in [Threads -> SUBSET Udata]
  /\ running \in Threads
  /\ basemt \in BaseMts \cup {Nil}

Roots == {Main, running} \cup (Obj \cap {basemt})

(* Nothing the program can follow, through weak tables and through the     *)
(* userdata whose finalizers are pending too, has been freed               *)
(* (sweeplist).                                                            *)
NoDangling == Reached(Roots \cup tmudata, AllRefs) \cap Free = {}

(* After the marking, an object the sweep will keep refers only to objects *)
(* it will keep: what the program finds in a weak table, a revived string  *)
(* or a new object cannot lead to a cell about to be freed (atomic).       *)
SweepSafe ==
  gcstate # "propagate" =>
    \A o \in Obj \ (Free \cup Dead) : AllRefs(o) \cap (Free \cup Dead) = {}

(* While marking, a traversed object leads to no white object, whatever    *)
(* the program stored in it since (the write barriers).  Userdata left     *)
(* from an earlier cycle are marked afresh by marktmu.                     *)
TriColour ==
  gcstate = "propagate" =>
    \A o \in Black \ tmudata : StrongRefs(o) \cap White = {}

(* The lists are threaded through one field of their members: while        *)
(* marking, a gray object is on exactly one of them, nothing else is on    *)
(* any, and threads, which have no barrier, are never black.               *)
ListsSound ==
  gcstate = "propagate" =>
    /\ gray \cap grayagain = {} /\ gray \cap weak = {} /\ grayagain \cap weak = {}
    /\ gray \cup grayagain \cup weak = Gray \cap Listed
    /\ Threads \cap Black = {}

(* A stack slot has at most one open upvalue, so closures that capture it  *)
(* share it, and an open upvalue is never black and never points into the  *)
(* stack of a thread that was freed (luaF_findupval, luaE_freethread).     *)
OpenUpvalsSound ==
  \A v \in Upvals : Open(v) =>
    /\ v \notin Black
    /\ uv[v].th \notin Free
    /\ \A w \in Upvals \ {v} : uv[w].th = uv[v].th => uv[w].slot # uv[v].slot

(* The finalizer of a userdata is called at most once, however it is       *)
(* revived and collected again (luaC_separateudata, GCTM).                 *)
FinalizeOnce ==
  [][\A th \in Threads : \A u \in args'[th] \ args[th] : u \notin called]_vars

Strongly(o) == IF o \in tmudata THEN {} ELSE StrongRefs(o)

(* Userdata are set apart for finalization only when nothing but weak      *)
(* tables and other userdata to be finalized lead to them (atomic).        *)
FinalizeOnlyGarbage ==
  [][\A u \in tmudata' \ tmudata : u \notin Reached(Roots, Strongly)]_vars

Garbage(o) == o \notin Free /\ o \notin Reached(Roots \cup tmudata, AllRefs)

(* What the program can no longer reach is freed, unless it is a string    *)
(* the program makes again or what a finalizer brings back.                *)
EventuallyFreed == \A o \in Obj : Garbage(o) ~> ~Garbage(o)

Owed(u) == u \notin Free /\ hasgc[u] /\ u \notin finalized /\ u \notin Reached(Roots \cup tmudata, AllRefs)

(* An unreachable userdata with a __gc gets its finalizer called.          *)
EventuallyFinalized == \A u \in Udata : Owed(u) ~> u \in called

(* luaC_barrierf asserts gcstate != GCSfinalize && gcstate != GCSpause.    *)
BarrierAsserted ==
  [][\A u \in Udata : env'[u] # env[u] /\ env'[u] # Nil /\ NeedsBarrier(u, env'[u])
        => gcstate \notin {"finalize", "pause"}]_vars
=============================================================================

------------------------------ MODULE LuaCalls ------------------------------
(* Calls, errors and coroutines of Lua 5.1 (ldo.c, with the parts of lvm.c, *)
(* lapi.c, ldebug.c, lbaselib.c, lparser.c and lgc.c that call them).  The  *)
(* C stack is part of the state: cstack holds the activations of the        *)
(* interpreter's C functions, over all threads.  An error is a long jump    *)
(* that drops some of them, a yield returns from some, and in both cases    *)
(* what they had done to their thread has to be undone by others.           *)
EXTENDS Integers, Sequences, FiniteSets, SequencesExt, FiniteSetsExt

CONSTANTS
  Main,        \* the main thread
  Coros,       \* the coroutines
  Handlers,    \* what is given to lua_pcall as an error handler
  MaxCCalls,   \* LUAI_MAXCCALLS
  ErrRoom,     \* LUAI_MAXCCALLS >> 3
  MaxCalls,    \* LUAI_MAXCALLS
  BasicCI,     \* BASIC_CI_SIZE
  MaxSaved,    \* a bound: hooks, finalizers and protected calls under way at once
  MaxDeep,     \* a bound for each thread: its calls from C, handlers not counted
  Overfull     \* a bound: the coroutines that return more than can be taken

Threads == {Main} \cup Coros

ASSUME CallsAssumption ==
  /\ Main \notin Coros
  /\ Handlers \subseteq {"none", "function", "other"}
  /\ {MaxCCalls, ErrRoom, MaxCalls} \subseteq Nat \ {0}
  /\ MaxSaved \in Nat /\ MaxDeep \in [Threads -> Nat]
  /\ BasicCI \in 1 .. MaxCalls /\ Overfull \subseteq Coros

VARIABLES
  cstack,  \* the activations of C functions, the deepest last
  mode,    \* what the deepest one is about to do
  th       \* the threads: the fields of lua_State

vars == <<cstack, mode, th>>

(* Activations are records with their kind and their thread:               *)
(*   host      the host program, which has called no function              *)
(*   exec      luaV_execute, with the number n of Lua functions it runs     *)
(*   cfn       a C function called from luaD_precall                        *)
(*   call      luaD_call                                                    *)
(*   pcall     luaD_pcall, with what it saved                               *)
(*   parser    luaY_parser or luaU_undump, n levels deep                    *)
(*   resume    lua_resume                                                   *)
(*   handler   luaG_errormsg while the error handler runs                   *)
(*   hook, gctm  luaD_callhook and GCTM while what they called runs         *)
Frame(k, t) == [kind |-> k, th |-> t]
Counted(k, t, num) == [kind |-> k, th |-> t, n |-> num]

(* luaE_newthread, and the function that coroutine.create pushes.  filled   *)
(* says that the stack below the arguments holds something to call, entry   *)
(* whether that is, or was, this function or a result that was left.        *)
NewThread ==
  [ci |-> <<>>, size |-> BasicCI, nC |-> 0, baseC |-> 0, status |-> "ok",
   errfunc |-> "none", allowhook |-> TRUE, errorJmp |-> 0, filled |-> TRUE,
   entry |-> "body"]

Init ==
  /\ cstack = <<Frame("host", Main)>>
  /\ mode = "run"
  /\ th = [t \in Threads |-> NewThread]

Deepest == cstack[Len(cstack)]
L == Deepest.th
Pop == Front(cstack)

Put(t, r) == th' = [th EXCEPT ![t] = r]

Running(kinds) == mode = "run" /\ Deepest.kind \in kinds
Shallow == th[L].nC - th[L].baseC < MaxDeep[L]
Code == {"exec", "cfn"}
Saving == {"pcall", "hook", "gctm"}
Room == Len(SelectSeq(cstack, LAMBDA f : f.kind \in Saving)) < MaxSaved
Calling == {"host", "exec", "cfn", "parser"}
Returned(k) == mode = "return" /\ Deepest.kind = k
-----------------------------------------------------------------------------
(* luaD_precall and luaD_call.  They give the next thread, C stack, mode.   *)

Outcome(r, stack, m) == [r |-> r, stack |-> stack, m |-> m]

Becomes(t, o) == Put(t, o.r) /\ cstack' = o.stack /\ mode' = o.m

(* growCI, when there is no CallInfo left                                  *)
GrowCI(r) ==
  IF Len(r.ci) + 1 < r.size \/ r.size > MaxCalls THEN r
  ELSE [r EXCEPT !.size = 2 * @]

(* A function of type f, Lua ("L") or C ("C"), is entered by thread r,     *)
(* which makes the C stack the given one.                                  *)
Precall(r, stack, f, entered) ==
  LET grown == GrowCI(r)
      full == Len(r.ci) + 1 = r.size
  IN  IF full /\ r.size > MaxCalls THEN Outcome(r, stack, "throw")
      ELSE IF full /\ grown.size > MaxCalls THEN Outcome(grown, stack, "error")
      ELSE Outcome([grown EXCEPT !.ci = Append(@, f)], entered, "run")

Activation(t, f) == IF f = "L" THEN Counted("exec", t, 1) ELSE Frame("cfn", t)

CallOver(t, r, under, f) ==
  LET deeper == [r EXCEPT !.nC = @ + 1]
      stack == Append(under, Frame("call", t))
  IN  IF deeper.nC = MaxCCalls THEN Outcome(deeper, stack, "error")
      ELSE IF deeper.nC >= MaxCCalls + ErrRoom THEN Outcome(deeper, stack, "throw")
      ELSE Precall(deeper, stack, f, Append(stack, Activation(t, f)))

(* OP_CALL.  A Lua function is run by the same activation of luaV_execute.  *)
CallByOp(f) ==
  /\ Running({"exec"})
  /\ Becomes(L, Precall(th[L], cstack, f,
       IF f = "L" THEN Append(Pop, [Deepest EXCEPT !.n = @ + 1])
       ELSE Append(cstack, Activation(L, f))))

(* lua_call, metamethods, the reader of a parser                           *)
Call(f) ==
  /\ Running(Calling) /\ Shallow
  /\ Becomes(L, CallOver(L, th[L], cstack, f))

(* luaD_pcall, without the call                                            *)
Protect(t, ef) ==
  [frame |-> [kind |-> "pcall", th |-> t, ef |-> ef,
              nC |-> th[t].nC, ci |-> Len(th[t].ci),
              allowhook |-> th[t].allowhook, errfunc |-> th[t].errfunc,
              previous |-> th[t].errorJmp],
   r |-> [th[t] EXCEPT !.errfunc = ef, !.errorJmp = Len(cstack) + 1]]

(* lua_pcall; lua_cpcall is the case of no handler                         *)
PCall(f, ef) ==
  /\ Running({"host", "cfn"}) /\ Room /\ Shallow
  /\ LET p == Protect(L, ef)
     IN  Becomes(L, CallOver(L, p.r, Append(cstack, p.frame), f))

(* lua_load: luaD_protectedparser keeps the handler that is there.         *)
Load ==
  /\ Running({"host", "cfn"}) /\ Room /\ Shallow
  /\ LET p == Protect(L, th[L].errfunc)
     IN  Becomes(L, Outcome(p.r, cstack \o <<p.frame, Counted("parser", L, 0)>>, "run"))

(* enterlevel and leavelevel; LoadFunction                                 *)
EnterLevel ==
  /\ Running({"parser"})
  /\ LET deeper == [th[L] EXCEPT !.nC = @ + 1]
     IN  Becomes(L, Outcome(deeper, Append(Pop, [Deepest EXCEPT !.n = @ + 1]),
                            IF deeper.nC > MaxCCalls THEN "throw" ELSE "run"))

LeaveLevel ==
  /\ Running({"parser"}) /\ Deepest.n > 0
  /\ Becomes(L, Outcome([th[L] EXCEPT !.nC = @ - 1],
                        Append(Pop, [Deepest EXCEPT !.n = @ - 1]), "run"))

Parsed ==
  /\ Running({"parser"}) /\ Deepest.n = 0
  /\ Becomes(L, Outcome(th[L], Pop, "return"))

(* luaD_callhook from a Lua function: ldblib's hookf calls a Lua function.  *)
Hook ==
  /\ Running({"exec"}) /\ th[L].allowhook /\ Room /\ Shallow
  /\ Becomes(L, CallOver(L, [th[L] EXCEPT !.allowhook = FALSE],
                         Append(cstack, Frame("hook", L)), "L"))

(* GCTM, called by luaC_checkGC, for a finalizer in C                      *)
Finalizer ==
  /\ Running(Calling) /\ Room /\ Shallow
  /\ Becomes(L, CallOver(L, [th[L] EXCEPT !.allowhook = FALSE],
       Append(cstack, [kind |-> "gctm", th |-> L, allowhook |-> th[L].allowhook]), "C"))
-----------------------------------------------------------------------------
(* Returns *)

(* OP_RETURN and luaD_poscall                                              *)
ReturnLua ==
  /\ Running({"exec"})
  /\ LET r == [th[L] EXCEPT !.ci = Front(@)]
     IN  IF Deepest.n = 1 THEN Becomes(L, Outcome(r, Pop, "return"))
         ELSE Becomes(L, Outcome(r, Append(Pop, [Deepest EXCEPT !.n = @ - 1]), "run"))

(* A C function called by OP_CALL goes back into luaV_execute.             *)
ReturnC ==
  /\ Running({"cfn"})
  /\ Becomes(L, Outcome([th[L] EXCEPT !.ci = Front(@)], Pop,
                        IF Last(Pop).kind = "exec" THEN "run" ELSE "return"))

(* The end of luaD_call                                                    *)
CallReturns ==
  /\ Returned("call")
  /\ Becomes(L, Outcome([th[L] EXCEPT !.nC = @ - 1], Pop,
                        IF Last(Pop).kind \in Calling THEN "run" ELSE "return"))

(* luaD_pcall and luaD_rawrunprotected, whatever the status                *)
Ended(r, f) == [r EXCEPT !.errfunc = f.errfunc, !.errorJmp = f.previous]

PCallReturns ==
  /\ Returned("pcall")
  /\ Becomes(L, Outcome(Ended(th[L], Deepest), Pop, "run"))

HookReturns ==
  /\ Returned("hook")
  /\ Becomes(L, Outcome([th[L] EXCEPT !.allowhook = TRUE], Pop, "run"))

FinalizerReturns ==
  /\ Returned("gctm")
  /\ Becomes(L, Outcome([th[L] EXCEPT !.allowhook = Deepest.allowhook], Pop, "run"))
-----------------------------------------------------------------------------
(* Errors *)

(* lua_error, luaG_runerror: luaG_errormsg is called.                      *)
Raise ==
  /\ Running(Code)
  /\ mode' = "error" /\ UNCHANGED <<cstack, th>>

(* What is thrown without asking the handler: lack of memory, and the       *)
(* errors of the parser                                                     *)
ThrowAtOnce ==
  /\ Running(Code \cup {"parser"})
  /\ mode' = "throw" /\ UNCHANGED <<cstack, th>>

(* luaG_errormsg, for a handler in C                                       *)
ErrorMsg ==
  /\ mode = "error"
  /\ IF th[L].errfunc = "function"
     THEN Becomes(L, CallOver(L, th[L], Append(cstack, Frame("handler", L)), "C"))
     ELSE mode' = "throw" /\ UNCHANGED <<cstack, th>>

HandlerReturns ==
  /\ Returned("handler")
  /\ mode' = "throw" /\ cstack' = Pop /\ UNCHANGED th

(* restore_stack_limit                                                     *)
RestoreStackLimit(r) ==
  IF r.size > MaxCalls /\ Len(r.ci) + 1 < MaxCalls THEN [r EXCEPT !.size = MaxCalls] ELSE r

Jump == th[L].errorJmp
Target == cstack[Jump]

(* Mutant: hooks stay off after an error in a hook.                        *)
UnwoundNoHooks(r, f) == RestoreStackLimit([r EXCEPT !.nC = f.nC, !.ci = SubSeq(@, 1, f.ci)])

(* luaD_pcall after an error                                               *)
Unwound(r, f) ==
  RestoreStackLimit([r EXCEPT !.nC = f.nC, !.ci = SubSeq(@, 1, f.ci),
                              !.allowhook = f.allowhook])

Catch ==
  /\ mode = "throw" /\ Jump # 0 /\ Target.kind = "pcall"
  /\ Becomes(L, Outcome(Ended(Unwound(th[L], Target), Target),
                        SubSeq(cstack, 1, Jump - 1), "run"))

(* luaD_throw to lua_resume: the coroutine is dead.  What its stack still   *)
(* holds serves nothing but tracebacks.                                     *)
CoroutineFails ==
  /\ mode = "throw" /\ Jump # 0 /\ Target.kind = "resume"
  /\ Becomes(L, Outcome([NewThread EXCEPT !.status = "error", !.errorJmp = Target.previous],
                        SubSeq(cstack, 1, Jump - 1), "run"))

(* luaD_throw with nowhere to jump to: resetstack, and the panic function,  *)
(* which jumps back into the host                                           *)
Panic ==
  /\ mode = "throw" /\ Jump = 0
  /\ LET r == [th[L] EXCEPT !.status = "error", !.ci = <<>>, !.nC = th[L].baseC,
                            !.allowhook = TRUE, !.errfunc = "none"]
     IN  Becomes(L, Outcome(RestoreStackLimit(r), <<Frame("host", Main)>>, "run"))
-----------------------------------------------------------------------------
(* Coroutines *)

(* costatus, asked by thread t                                             *)
CoStatus(t, co) ==
  CASE t = co -> "running"
    [] t # co /\ th[co].status = "yield" -> "suspended"
    [] t # co /\ th[co].status = "ok" ->
         (IF th[co].ci # <<>> THEN "normal" ELSE IF th[co].filled THEN "suspended" ELSE "dead")
    [] OTHER -> "dead"

Create(co) ==
  /\ Running({"cfn"}) /\ CoStatus(L, co) = "dead"
  /\ Put(co, NewThread)
  /\ UNCHANGED <<cstack, mode>>

(* auxresume, with lua_setlevel, and lua_resume, up to the error it answers *)
(* when the C stack is too deep: its message takes the place of the function *)
(* on the coroutine's stack, and is moved away.                             *)
(* Mutant: a coroutine that has resumed another may be resumed as well.    *)
ResumableNormal(co) == Running({"cfn"}) /\ CoStatus(L, co) \in {"suspended", "normal"}

Resumable(co) == Running({"cfn"}) /\ CoStatus(L, co) = "suspended"

ResumeTooDeep(co) ==
  /\ Resumable(co) /\ th[L].nC >= MaxCCalls
  /\ Put(co, [th[co] EXCEPT !.nC = th[L].nC, !.filled = FALSE])
  /\ UNCHANGED <<cstack, mode>>

(* Mutant: every coroutine counts from 0 (no lua_setlevel).                *)
EnteredFresh(co) ==
  [th[co] EXCEPT !.nC = 1, !.baseC = 1, !.errorJmp = Len(cstack) + 1,
                 !.filled = FALSE, !.status = "ok"]

Entered(co) ==
  LET deeper == th[L].nC + 1
  IN  [th[co] EXCEPT !.nC = deeper, !.baseC = deeper, !.errorJmp = Len(cstack) + 1,
                     !.filled = FALSE, !.status = "ok"]

UnderResume(co) ==
  Append(cstack, [kind |-> "resume", th |-> co, previous |-> th[co].errorJmp])

(* What lies below the arguments is called, without luaD_call: the body, a  *)
(* Lua function, or a result of any type.                                   *)
Start(co) ==
  /\ Resumable(co) /\ th[L].nC < MaxCCalls /\ th[co].status = "ok"
  /\ \E f \in IF th[co].entry = "body" THEN {"L"} ELSE {"L", "C"} :
       Becomes(co, Precall(Entered(co), UnderResume(co), f,
                           Append(UnderResume(co), Activation(co, f))))

NotCallable(co) ==
  /\ Resumable(co) /\ th[L].nC < MaxCCalls /\ th[co].status = "ok"
  /\ th[co].entry = "result"
  /\ Becomes(co, Outcome(Entered(co), UnderResume(co), "error"))

(* The interrupted call of lua_yield is finished, and one luaV_execute runs *)
(* all the functions that are left.  When there is none, it would run the   *)
(* base CallInfo, which is undefined: the model has no such step.           *)
Continue(co) ==
  /\ Resumable(co) /\ th[L].nC < MaxCCalls /\ th[co].status = "yield"
  /\ Len(th[co].ci) > 1
  /\ LET r == [Entered(co) EXCEPT !.ci = Front(@)]
     IN  Becomes(co, Outcome(r, Append(UnderResume(co), Counted("exec", co, Len(r.ci))), "run"))

(* Mutant: the call of lua_resume itself is not in baseCcalls.             *)
MayYieldLoose(t) == th[t].nC <= th[t].baseC + 1

MayYield(t) == th[t].nC <= th[t].baseC

YieldRefused ==
  /\ Running({"cfn"}) /\ ~MayYield(L)
  /\ mode' = "error" /\ UNCHANGED <<cstack, th>>

(* lua_yield: the C function that called it and the luaV_execute that called *)
(* that return, but the CallInfos stay.                                      *)
Yield ==
  /\ Running({"cfn"}) /\ MayYield(L)
  /\ Becomes(L, Outcome([th[L] EXCEPT !.status = "yield"],
                        IF Last(Pop).kind = "exec" THEN Front(Pop) ELSE Pop, "return"))

(* The end of lua_resume without an error                                  *)
Resumed(r, f) == [r EXCEPT !.errorJmp = f.previous, !.nC = @ - 1]

ResumeReturns ==
  /\ Returned("resume")
  /\ Becomes(L, Outcome(Resumed(th[L], Deepest), Pop, "run"))

(* The rest of auxresume when the caller's stack has no room for what was   *)
(* returned or yielded: it stays where it is, and the caller gets an error. *)
TooManyResults ==
  /\ Returned("resume") /\ L \in Overfull
  /\ LET r == Resumed(th[L], Deepest)
     IN  Becomes(L, Outcome(IF r.status = "ok"
                            THEN [r EXCEPT !.filled = TRUE, !.entry = "result"] ELSE r,
                            Pop, "error"))
-----------------------------------------------------------------------------
Entry(f) ==
  CallByOp(f) \/ Call(f) \/ \E ef \in Handlers : PCall(f, ef)

Return ==
  \/ ReturnLua \/ ReturnC \/ CallReturns \/ PCallReturns
  \/ HookReturns \/ FinalizerReturns \/ HandlerReturns

Error == Raise \/ ErrorMsg \/ ThrowAtOnce \/ Catch \/ CoroutineFails \/ Panic

Coroutine(co) ==
  Create(co) \/ ResumeTooDeep(co) \/ Start(co) \/ NotCallable(co) \/ Continue(co)

Next ==
  \/ \E f \in {"L", "C"} : Entry(f)
  \/ Hook \/ Finalizer \/ Load \/ EnterLevel \/ LeaveLevel \/ Parsed
  \/ Return
  \/ Error
  \/ \E co \in Coros : Coroutine(co)
  \/ YieldRefused \/ Yield \/ ResumeReturns \/ TooManyResults

Spec == Init /\ [][Next]_vars
-----------------------------------------------------------------------------
(* Properties *)

Result == {"none", "function", "other"}

Activations ==
  [kind : {"host", "cfn", "call", "handler", "hook"}, th : Threads]
  \cup [kind : {"exec", "parser"}, th : Threads, n : Nat]
  \cup [kind : {"pcall"}, th : Threads, ef : Result, nC : Nat, ci : Nat,
        allowhook : BOOLEAN, errfunc : Result, previous : Nat]
  \cup [kind : {"resume"}, th : Threads, previous : Nat]
  \cup [kind : {"gctm"}, th : Threads, allowhook : BOOLEAN]

States ==
  [ci : Seq({"L", "C"}), size : Nat, nC : Nat, baseC : Nat,
   status : {"ok", "yield", "error"}, errfunc : Result, allowhook : BOOLEAN,
   errorJmp : Nat, filled : BOOLEAN, entry : {"body", "result"}]

TypeOK ==
  /\ cstack \in Seq(Activations) /\ cstack # <<>>
  /\ mode \in {"run", "return", "error", "throw"}
  /\ th \in [Threads -> States]

OnStack == {cstack[i].th : i \in 1 .. Len(cstack)}

(* The activations of thread t of some kinds among the first n of a C stack *)
Own(s, n, t, kinds) == {i \in 1 .. n : s[i].th = t /\ s[i].kind \in kinds}

(* The functions that an activation runs for thread t                      *)
Shown(f, t) ==
  IF f.th = t /\ f.kind = "exec" THEN [k \in 1 .. f.n |-> "L"]
  ELSE IF f.th = t /\ f.kind = "cfn" THEN <<"C">> ELSE <<>>

(* Those that a C stack runs, up to each of its activations, outermost first *)
RunUpTo(s, t) ==
  LET upto[i \in 0 .. Len(s)] == IF i = 0 THEN <<>> ELSE upto[i - 1] \o Shown(s[i], t)
  IN  upto

(* The CallInfos of a thread that is on the C stack are, one by one, the    *)
(* functions that the C stack runs, so every return finds the caller it     *)
(* belongs to; and a suspended coroutine has left nothing on the C stack:   *)
(* it is Lua functions up to the C function that yielded, so one            *)
(* luaV_execute can take them up; only a coroutine that was entered in a    *)
(* result it had left can be without any (luaD_poscall, resume, lua_yield). *)
FramesMatch ==
  \A t \in Threads :
    IF th[t].status = "yield"
    THEN /\ Own(cstack, Len(cstack), t, Code) = {}
         /\ th[t].ci # <<>> /\ Last(th[t].ci) = "C"
         /\ Len(th[t].ci) > 1 \/ th[t].entry = "result"
         /\ \A i \in 1 .. Len(th[t].ci) - 1 : th[t].ci[i] = "L"
    ELSE t \in OnStack => th[t].ci = RunUpTo(cstack, t)[Len(cstack)]

(* What an activation adds to the depth of the C stack, and the depth of a *)
(* C stack at each of its activations, over all threads                    *)
Adds(f) == IF f.kind \in {"call", "resume"} THEN 1 ELSE IF f.kind = "parser" THEN f.n ELSE 0

DepthUpTo(s) ==
  LET upto[i \in 0 .. Len(s)] == IF i = 0 THEN 0 ELSE upto[i - 1] + Adds(s[i])
  IN  upto

(* nCcalls is the depth at the deepest activation of the thread; those of a *)
(* thread are next to one another, from its lua_resume on.                  *)
DepthKept ==
  LET depth == DepthUpTo(cstack)
  IN  \A i \in 1 .. Len(cstack) :
        i = Len(cstack) \/ cstack[i + 1].kind = "resume"
          => th[cstack[i].th].nC = depth[i]

(* What errorJmp, errfunc and allowhook of a thread are to be at the n-th  *)
(* activation: the last protection, its handler, and FALSE in a hook.      *)
JumpIs(s, n, t, jump) ==
  LET own == Own(s, n, t, {"pcall", "resume"})
  IN  IF own = {} THEN jump = 0 ELSE jump \in own /\ \A i \in own : i <= jump

HandlerIs(s, n, t, ef) ==
  LET own == Own(s, n, t, {"pcall"})
  IN  IF own = {} THEN ef = "none" ELSE \E i \in own : ef = s[i].ef /\ \A j \in own : j <= i

HooksAre(s, n, t, allowed) == allowed = (Own(s, n, t, {"hook", "gctm"}) = {})

(* Whatever errors and yields have done to the C stack, every thread has   *)
(* the call depth, the jump, the error handler and the permission to call  *)
(* hooks that belong to where it is (luaD_pcall, lua_resume, lua_setlevel,  *)
(* luaD_callhook, GCTM, resetstack).                                        *)
Restored ==
  /\ DepthKept
  /\ \A t \in Threads :
       /\ JumpIs(cstack, Len(cstack), t, th[t].errorJmp)
       /\ HandlerIs(cstack, Len(cstack), t, th[t].errfunc)
       /\ HooksAre(cstack, Len(cstack), t, th[t].allowhook)

(* The C stack and the CallInfos are bounded, however coroutines resume one *)
(* another and handlers fail in handlers (luaD_call, growCI, lua_setlevel). *)
Bounded ==
  /\ \A t \in Threads : Len(th[t].ci) + 1 <= th[t].size /\ th[t].size <= 2 * MaxCalls
  /\ DepthUpTo(cstack)[Len(cstack)] <= MaxCCalls + ErrRoom

(* The threads that have resumed one another, up to each activation of a   *)
(* C stack, the main thread first                                          *)
ChainUpTo(s) ==
  LET upto[i \in 0 .. Len(s)] ==
        IF i = 0 THEN <<Main>>
        ELSE IF s[i].kind = "resume" THEN Append(upto[i - 1], s[i].th) ELSE upto[i - 1]
  IN  upto

(* Coroutines are resumed, run, yield and die as Coroutines says: costatus  *)
(* answers its states, asked by the thread that runs (lua_resume,           *)
(* lua_yield, auxresume).                                                   *)
Abstract == INSTANCE Coroutines WITH
  chain <- ChainUpTo(cstack)[Len(cstack)],
  state <- [co \in Coros |-> CoStatus(L, co)]
IsCoroutines == Abstract!Spec

(* "initial state", says costatus of a coroutine that has neither yielded   *)
(* nor frames but something on its stack (lbaselib.c): it is still to run   *)
(* the function it was created with.                                        *)
InitialState ==
  \A co \in Coros : th[co].status = "ok" /\ CoStatus(L, co) = "suspended"
                      => th[co].entry = "body"
=============================================================================

-------------------------- MODULE LuaCalls_proofs --------------------------
(***************************************************************************)
(* What LuaCalls promises, for any number of coroutines and all limits:    *)
(* every action keeps the invariant of LuaCallStacks.                      *)
(***************************************************************************)
EXTENDS LuaCallStacks

LEMMA Present ==
  ASSUME IInv
  PROVE  /\ cstack \in Seq(Activations) /\ cstack # <<>> /\ Len(cstack) \in Nat \ {0}
         /\ Len(cstack) \in 1 .. Len(cstack)
         /\ th \in [Threads -> States] /\ WellFormed(cstack)
         /\ Deepest = cstack[Len(cstack)] /\ Deepest \in Activations
         /\ Deepest.th = L /\ L \in Threads /\ th[L] \in States
         /\ \A t \in Threads : Fine(cstack, t, th[t])
         /\ DepthUpTo(cstack)[Len(cstack)] \in Nat
         /\ th[L].nC = DepthUpTo(cstack)[Len(cstack)]
         /\ Lies(Deepest, cstack, Len(cstack) - 1)
         /\ mode # "throw" => DepthUpTo(cstack)[Len(cstack)] < MaxCCalls + ErrRoom
         /\ mode # "return" \/ Deepest.kind # "resume" => Steady(cstack, th)
<1>1. /\ cstack \in Seq(Activations) /\ cstack # <<>> /\ th \in [Threads -> States]
      /\ WellFormed(cstack) /\ \A t \in Threads : Fine(cstack, t, th[t]) /\ Fits(cstack, th)
  BY DEF IInv, Fits
<1>2. Len(cstack) \in Nat \ {0} /\ Len(cstack) \in 1 .. Len(cstack) /\ Len(cstack) \in 0 .. Len(cstack)
  BY <1>1
<1>3. Deepest = cstack[Len(cstack)] /\ Deepest \in Activations /\ Deepest.th = L
  BY <1>1, <1>2 DEF Deepest, L
<1>4. L \in Threads
  BY <1>3 DEF Activations
<1>5. th[L] \in States
  BY <1>1, <1>4
<1>6. DepthUpTo(cstack)[Len(cstack)] \in Nat
  BY <1>1, <1>2, DepthRec
<1>7. th[L].nC = DepthUpTo(cstack)[Len(cstack)]
  BY <1>1, <1>2, <1>3, <1>4 DEF Fine, DepthFine
<1>8. Lies(Deepest, cstack, Len(cstack) - 1)
  BY <1>2, <1>1, <1>3 DEF WellFormed
<1>9. mode # "throw" => DepthUpTo(cstack)[Len(cstack)] < MaxCCalls + ErrRoom
  BY DEF IInv, ModeFits
<1>10. mode # "return" \/ Deepest.kind # "resume" => Steady(cstack, th)
  BY <1>1, <1>3 DEF IInv, YieldFits, Steady
<1> QED
  BY <1>1, <1>2, <1>3, <1>4, <1>5, <1>6, <1>7, <1>8, <1>9, <1>10

LEMMA Kept ==
  ASSUME Steady(cstack', th'), ModeFits(cstack', mode')
  PROVE  IInv'
BY DEF IInv, Steady, YieldFits

-----------------------------------------------------------------------------
(* Calls                                                                   *)
LEMMA CallKeeps ==
  ASSUME IInv, NEW f \in {"L", "C"}, Call(f)
  PROVE  IInv'
<1> DEFINE o == CallOver(L, th[L], cstack, f)
<1>1. /\ mode = "run" /\ Deepest.kind \in Calling /\ th' = [th EXCEPT ![L] = o.r]
      /\ cstack' = o.stack /\ mode' = o.m
  BY DEF Call, Running, Becomes, Put
<1>2. Steady(o.stack, [th EXCEPT ![L] = o.r]) /\ ModeFits(o.stack, o.m)
  <2> HIDE DEF o
  <2>1. /\ Steady(cstack, th) /\ L \in Threads /\ cstack[Len(cstack)].th = L
        /\ cstack[Len(cstack)].kind \in Calling \cup {"pcall", "hook", "gctm", "handler"}
        /\ DepthUpTo(cstack)[Len(cstack)] < MaxCCalls + ErrRoom
    BY <1>1, Present
  <2> QED
    BY <2>1, CallOverIs DEF o
<1> QED
  BY <1>1, <1>2, Kept

(* The protection that luaD_pcall sets up                                  *)
LEMMA ProtectIs ==
  ASSUME IInv, Running({"host", "cfn"}), NEW ef \in Result
  PROVE  LET p == Protect(L, ef)
         IN  /\ p.frame \in Activations /\ p.frame.kind = "pcall" /\ p.frame.th = L
             /\ p.r \in States
             /\ Steady(Append(cstack, p.frame), [th EXCEPT ![L] = p.r])
             /\ DepthUpTo(Append(cstack, p.frame))[Len(cstack) + 1] < MaxCCalls + ErrRoom
<1> DEFINE p == Protect(L, ef)
           f == p.frame
           o == th[L]
<1>1. /\ mode = "run" /\ Deepest.kind \in {"host", "cfn"} /\ Steady(cstack, th)
      /\ DepthUpTo(cstack)[Len(cstack)] < MaxCCalls + ErrRoom
      /\ cstack[Len(cstack)].th = L /\ cstack[Len(cstack)].kind \in {"host", "cfn"}
      /\ Fine(cstack, L, o) /\ o \in States /\ L \in Threads
  BY Present DEF Running
<1>2. /\ o.nC \in Nat /\ Len(o.ci) \in Nat /\ o.allowhook \in BOOLEAN /\ o.errfunc \in Result
      /\ o.errorJmp \in Nat /\ Len(cstack) + 1 \in Nat /\ Len(cstack) > 0
  BY <1>1, Present DEF States
<1>3. /\ f = [kind |-> "pcall", th |-> L, ef |-> ef, nC |-> o.nC, ci |-> Len(o.ci),
               allowhook |-> o.allowhook, errfunc |-> o.errfunc, previous |-> o.errorJmp]
      /\ p.r = [o EXCEPT !.errfunc = ef, !.errorJmp = Len(cstack) + 1]
  BY DEF Protect
<1> HIDE DEF p, o
<1>4. /\ f \in Activations /\ f.kind = "pcall" /\ f.th = L
  BY <1>1, <1>2, <1>3 DEF Activations
<1>5. /\ f.ef = ef /\ f.nC = o.nC /\ f.ci = Len(o.ci) /\ f.allowhook = o.allowhook
      /\ f.errfunc = o.errfunc /\ f.previous = o.errorJmp
  BY <1>3
<1>6. p.r \in States
  BY <1>1, <1>2, <1>3 DEF States
<1>7. /\ p.r.ci = o.ci /\ p.r.nC = o.nC /\ p.r.baseC = o.baseC /\ p.r.status = o.status
      /\ p.r.filled = o.filled /\ p.r.entry = o.entry /\ p.r.errorJmp = Len(cstack) + 1 /\ p.r.errfunc = ef
      /\ p.r.allowhook = o.allowhook /\ p.r.size = o.size
  BY <1>1, <1>3 DEF States
<1>8. Lies(f, cstack, Len(cstack))
  <2>1. On(cstack, L)
    BY <1>1, Present DEF On
  <2>2. o.ci = RunUpTo(cstack, L)[Len(cstack)]
    <3>1. o.status # "yield"
      BY <1>1, <2>1 DEF Steady, o
    <3> QED
      BY <1>1, <2>1, <3>1 DEF Fine, FramesFine
  <2>3. o.nC = DepthUpTo(cstack)[Len(cstack)]
    BY Present DEF o
  <2>4. /\ JumpIs(cstack, Len(cstack), L, o.errorJmp) /\ HandlerIs(cstack, Len(cstack), L, o.errfunc)
        /\ HooksAre(cstack, Len(cstack), L, o.allowhook)
    BY <1>1 DEF Fine, SavedFine
  <2>5. cstack[Len(cstack)].kind \in {"host", "cfn"} /\ cstack[Len(cstack)].th = L
    BY <1>1
  <2> HIDE DEF f
  <2> QED
    BY <1>1, <1>2, <1>4, <1>5, <2>2, <2>3, <2>4, <2>5 DEF Lies
<1> HIDE DEF f
<1>9. Adds(f) = 0 /\ Shown(f, L) = <<>>
  BY <1>4 DEF Adds, Shown
<1>10. Pushed(f, o, p.r, Len(cstack) + 1)
  <2>1. o.ci \o <<>> = o.ci /\ o.nC + 0 = o.nC
    BY <1>1, <1>2 DEF States
  <2>2. SizeFine(p.r)
    BY <1>1, <1>7 DEF Fine, SizeFine
  <2> QED
    BY <1>4, <1>5, <1>7, <1>9, <2>1, <2>2 DEF Pushed
<1>11. f.kind \notin {"host", "resume"} /\ EntryFits(f, cstack[Len(cstack)], p.r)
  BY <1>4 DEF EntryFits
<1>12. /\ Steady(Append(cstack, f), [th EXCEPT ![L] = p.r])
       /\ DepthUpTo(Append(cstack, f))[Len(cstack) + 1] = DepthUpTo(cstack)[Len(cstack)] + Adds(f)
  BY <1>1, <1>4, <1>6, <1>8, <1>10, <1>11, Push DEF o
<1>13. DepthUpTo(cstack)[Len(cstack)] + 0 = DepthUpTo(cstack)[Len(cstack)]
  BY Present
<1> QED
  BY <1>1, <1>4, <1>6, <1>9, <1>12, <1>13 DEF p, f

LEMMA PCallKeeps ==
  ASSUME IInv, NEW f \in {"L", "C"}, NEW ef \in Handlers, PCall(f, ef)
  PROVE  IInv'
<1> DEFINE p == Protect(L, ef)
           s == Append(cstack, p.frame)
           all == [th EXCEPT ![L] = p.r]
           o == CallOver(L, p.r, s, f)
<1>1. /\ Running({"host", "cfn"}) /\ mode = "run"
      /\ th' = [th EXCEPT ![L] = o.r] /\ cstack' = o.stack /\ mode' = o.m
  BY DEF PCall, Running, Becomes, Put
<1>2. /\ p.frame \in Activations /\ p.frame.kind = "pcall" /\ p.frame.th = L /\ p.r \in States
      /\ Steady(s, all) /\ DepthUpTo(s)[Len(cstack) + 1] < MaxCCalls + ErrRoom
  BY <1>1, ProtectIs, Limits
<1>3. Len(s) = Len(cstack) + 1 /\ s[Len(s)] = p.frame
  BY <1>2, Present
<1>4. all[L] = p.r /\ [all EXCEPT ![L] = o.r] = [th EXCEPT ![L] = o.r] /\ L \in Threads
  BY <1>2, Present
<1> HIDE DEF s, all, p
<1>5. o = CallOver(L, all[L], s, f)
  BY <1>4
<1> HIDE DEF o
<1>6. Steady(o.stack, [all EXCEPT ![L] = o.r]) /\ ModeFits(o.stack, o.m)
  BY <1>2, <1>3, <1>4, <1>5, CallOverIs
<1> QED
  BY <1>1, <1>4, <1>6, Kept

LEMMA LoadKeeps ==
  ASSUME IInv, Load
  PROVE  IInv'
<1> DEFINE p == Protect(L, th[L].errfunc)
           s == Append(cstack, p.frame)
           all == [th EXCEPT ![L] = p.r]
           g == Counted("parser", L, 0)
           n == Len(cstack) + 1
<1>1. /\ Running({"host", "cfn"}) /\ mode' = "run"
      /\ th' = [th EXCEPT ![L] = p.r] /\ cstack' = cstack \o <<p.frame, g>>
  BY DEF Load, Running, Becomes, Put, Outcome
<1>2. /\ p.frame \in Activations /\ p.frame.kind = "pcall" /\ p.frame.th = L /\ p.r \in States
      /\ Steady(s, all) /\ DepthUpTo(s)[n] < MaxCCalls + ErrRoom
  <2>1. th[L].errfunc \in Result
    BY Present DEF States
  <2> QED
    BY <1>1, <2>1, ProtectIs
<1>3. /\ Len(s) = n /\ s[n] = p.frame /\ n > 0 /\ n # 0 /\ n \in 1 .. Len(s) /\ s \in Seq(Activations)
      /\ Append(s, g) = cstack \o <<p.frame, g>>
  BY <1>2, Present
<1>4. all[L] = p.r /\ all = [all EXCEPT ![L] = p.r] /\ L \in Threads
  BY <1>2, Present
<1>5. /\ g \in Activations /\ g.kind = "parser" /\ g.th = L /\ g.n = 0
      /\ Adds(g) = 0 /\ Shown(g, L) = <<>>
  BY <1>4 DEF Counted, Activations, Adds, Shown
<1> HIDE DEF s, all, p, g, n
<1>6. Lies(g, s, Len(s))
  BY <1>2, <1>3, <1>5 DEF Lies
<1>7. Pushed(g, all[L], p.r, Len(s) + 1)
  <2>1. p.r.ci \o <<>> = p.r.ci /\ p.r.nC + 0 = p.r.nC
    BY <1>2 DEF States
  <2>2. SizeFine(p.r)
    BY <1>2, <1>4 DEF Steady, Fits, Fine
  <2> QED
    BY <1>4, <1>5, <2>1, <2>2 DEF Pushed
<1>8. /\ Steady(Append(s, g), all)
      /\ DepthUpTo(Append(s, g))[Len(s) + 1] = DepthUpTo(s)[Len(s)] + Adds(g)
  <2>1. g.kind \notin {"host", "resume"} /\ EntryFits(g, s[Len(s)], p.r)
    BY <1>5 DEF EntryFits
  <2>2. /\ Steady(Append(s, g), [all EXCEPT ![L] = p.r])
        /\ DepthUpTo(Append(s, g))[Len(s) + 1] = DepthUpTo(s)[Len(s)] + Adds(g)
    BY <1>2, <1>4, <1>5, <1>6, <1>7, <2>1, Push
  <2> QED
    BY <1>4, <2>2
<1>9. ModeFits(Append(s, g), "run")
  <2>1. Len(Append(s, g)) = n + 1 /\ Append(s, g)[n + 1] = g
    BY <1>3, <1>5
  <2>2. DepthUpTo(s)[n] \in Nat
    <3>1. n \in 0 .. Len(s)
      BY <1>3
    <3> QED
      BY <1>3, <3>1, DepthRec
  <2> QED
    BY <1>2, <1>3, <1>5, <1>8, <2>1, <2>2, Limits DEF ModeFits, Calling
<1> QED
  BY <1>1, <1>3, <1>8, <1>9, Kept DEF all

(* One step of luaD_callhook or GCTM: the activation f, and the call       *)
LEMMA SavingKeeps ==
  ASSUME IInv, mode = "run", NEW f \in Activations, f.th = L, f.kind \in {"hook", "gctm"},
         Lies(f, cstack, Len(cstack)), NEW g \in {"L", "C"},
         NEW o, o = CallOver(L, [th[L] EXCEPT !.allowhook = FALSE], Append(cstack, f), g),
         th' = [th EXCEPT ![L] = o.r], cstack' = o.stack, mode' = o.m
  PROVE  IInv'
<1> DEFINE s == Append(cstack, f)
           r == [th[L] EXCEPT !.allowhook = FALSE]
           all == [th EXCEPT ![L] = r]
<1>1. /\ Steady(cstack, th) /\ L \in Threads /\ th[L] \in States /\ cstack \in Seq(Activations)
      /\ DepthUpTo(cstack)[Len(cstack)] \in Nat /\ th \in [Threads -> States]
      /\ DepthUpTo(cstack)[Len(cstack)] < MaxCCalls + ErrRoom
      /\ Fine(cstack, L, th[L]) /\ Len(cstack) \in Nat
  BY Present
<1>2. /\ r \in States /\ r.allowhook = FALSE /\ r.ci = th[L].ci /\ r.nC = th[L].nC
      /\ r.baseC = th[L].baseC /\ r.status = th[L].status /\ r.filled = th[L].filled /\ r.entry = th[L].entry
      /\ r.errorJmp = th[L].errorJmp /\ r.errfunc = th[L].errfunc /\ r.size = th[L].size
  BY <1>1 DEF States
<1>3. Adds(f) = 0 /\ Shown(f, L) = <<>> /\ f.kind \notin {"host", "resume", "pcall"}
  BY DEF Adds, Shown
<1>4. /\ all[L] = r /\ [all EXCEPT ![L] = o.r] = [th EXCEPT ![L] = o.r]
      /\ Len(s) = Len(cstack) + 1 /\ s[Len(s)] = f
  <2>1. Len(s) = Len(cstack) + 1 /\ s[Len(s)] = f
    BY <1>1
  <2> HIDE DEF s, r
  <2>2. all[L] = r /\ [all EXCEPT ![L] = o.r] = [th EXCEPT ![L] = o.r]
    BY <1>1
  <2> QED
    BY <2>1, <2>2
<1> HIDE DEF s, r, all
<1>5. Pushed(f, th[L], r, Len(cstack) + 1)
  <2>1. th[L].ci \o <<>> = th[L].ci /\ th[L].nC + 0 = th[L].nC
    BY <1>1 DEF States
  <2>2. SizeFine(r)
    BY <1>1, <1>2 DEF Fine, SizeFine
  <2> QED
    BY <1>2, <1>3, <2>1, <2>2 DEF Pushed
<1>6. /\ Steady(s, all)
      /\ DepthUpTo(s)[Len(s)] = DepthUpTo(cstack)[Len(cstack)] + 0
  <2>0. EntryFits(f, cstack[Len(cstack)], r)
    BY DEF EntryFits
  <2>1. /\ Steady(Append(cstack, f), [th EXCEPT ![L] = r])
        /\ DepthUpTo(Append(cstack, f))[Len(cstack) + 1] = DepthUpTo(cstack)[Len(cstack)] + Adds(f)
    BY <1>1, <1>2, <1>3, <1>5, <2>0, Push
  <2> QED
    BY <1>3, <1>4, <2>1 DEF s, all
<1>7. o = CallOver(L, all[L], s, g)
  BY <1>4 DEF s, r
<1>8. DepthUpTo(s)[Len(s)] < MaxCCalls + ErrRoom
  BY <1>1, <1>6
<1>9. Steady(o.stack, [all EXCEPT ![L] = o.r]) /\ ModeFits(o.stack, o.m)
  <2>1. s[Len(s)].th = L /\ s[Len(s)].kind \in Calling \cup {"pcall", "hook", "gctm", "handler"}
    BY <1>4
  <2> QED
    BY <1>1, <1>6, <1>7, <1>8, <2>1, CallOverIs
<1> QED
  BY <1>4, <1>9, Kept

LEMMA HookKeeps ==
  ASSUME IInv, Hook
  PROVE  IInv'
<1> DEFINE f == Frame("hook", L)
           o == CallOver(L, [th[L] EXCEPT !.allowhook = FALSE], Append(cstack, f), "L")
<1>1. /\ mode = "run" /\ Deepest.kind = "exec" /\ th[L].allowhook
      /\ th' = [th EXCEPT ![L] = o.r] /\ cstack' = o.stack /\ mode' = o.m
  BY DEF Hook, Running, Becomes, Put
<1> HIDE DEF o
<1>2. f \in Activations /\ f.th = L /\ f.kind = "hook"
  BY Present DEF Frame, Activations
<1>3. HooksAre(cstack, Len(cstack), L, TRUE)
  <2>1. HooksAre(cstack, Len(cstack), L, th[L].allowhook) /\ th[L].allowhook \in BOOLEAN
    BY Present DEF Fine, SavedFine, States
  <2> QED
    BY <1>1, <2>1 DEF HooksAre
<1>4. Lies(f, cstack, Len(cstack))
  <2> HIDE DEF f
  <2> QED
    BY <1>1, <1>2, <1>3, Present DEF Lies
<1>5. o = CallOver(L, [th[L] EXCEPT !.allowhook = FALSE], Append(cstack, f), "L")
  BY DEF o
<1> HIDE DEF f
<1> QED
  BY <1>1, <1>2, <1>4, <1>5, SavingKeeps

LEMMA FinalizerKeeps ==
  ASSUME IInv, Finalizer
  PROVE  IInv'
<1> DEFINE f == [kind |-> "gctm", th |-> L, allowhook |-> th[L].allowhook]
           o == CallOver(L, [th[L] EXCEPT !.allowhook = FALSE], Append(cstack, f), "C")
<1>1. /\ mode = "run" /\ Deepest.kind \in Calling
      /\ th' = [th EXCEPT ![L] = o.r] /\ cstack' = o.stack /\ mode' = o.m
  BY DEF Finalizer, Running, Becomes, Put
<1> HIDE DEF o
<1>2. f \in Activations /\ f.th = L /\ f.kind = "gctm" /\ f.allowhook = th[L].allowhook
  BY Present DEF States, Activations
<1>3. HooksAre(cstack, Len(cstack), L, th[L].allowhook)
  BY Present DEF Fine, SavedFine
<1>4. Lies(f, cstack, Len(cstack))
  <2> HIDE DEF f
  <2> QED
    BY <1>1, <1>2, <1>3, Present DEF Lies
<1>5. o = CallOver(L, [th[L] EXCEPT !.allowhook = FALSE], Append(cstack, f), "C")
  BY DEF o
<1> HIDE DEF f
<1> QED
  BY <1>1, <1>2, <1>4, <1>5, SavingKeeps

-----------------------------------------------------------------------------
(* OP_CALL and the levels of the parser: the top activation changes        *)
Luas(k) == [i \in 1 .. k |-> "L"]

LEMMA OneMore ==
  ASSUME NEW x \in Seq({"L", "C"}), NEW k \in Nat
  PROVE  /\ x \o Luas(k + 1) = (x \o Luas(k)) \o <<"L">>
         /\ Luas(k) \in Seq({"L", "C"}) /\ x \o Luas(k) \in Seq({"L", "C"})
<1> DEFINE y == Luas(k)
           z == Luas(k + 1)
<1>1. y \in Seq({"L", "C"}) /\ Len(y) = k /\ z \in Seq({"L", "C"}) /\ Len(z) = k + 1
  BY DEF Luas
<1>2. z = y \o <<"L">>
  <2>1. y \o <<"L">> \in Seq({"L", "C"}) /\ Len(y \o <<"L">>) = k + 1
    BY <1>1
  <2>2. \A i \in 1 .. k + 1 : z[i] = (y \o <<"L">>)[i]
    BY <1>1 DEF Luas
  <2> HIDE DEF y, z
  <2> QED
    BY <1>1, <2>1, <2>2
<1> HIDE DEF y, z
<1>3. x \o (y \o <<"L">>) = (x \o y) \o <<"L">>
  <2> DEFINE a == x \o (y \o <<"L">>)
             b == (x \o y) \o <<"L">>
  <2>1. /\ a \in Seq({"L", "C"}) /\ b \in Seq({"L", "C"}) /\ Len(a) = Len(b)
        /\ \A i \in 1 .. Len(a) : a[i] = b[i]
    BY <1>1
  <2> HIDE DEF a, b
  <2>2. a = b
    BY <2>1
  <2> QED
    BY <2>2 DEF a, b
<1>4. x \o y \in Seq({"L", "C"})
  BY <1>1
<1>5. x \o z = (x \o y) \o <<"L">>
  BY <1>2, <1>3, Zenon
<1> QED
  BY <1>1, <1>4, <1>5 DEF y, z

LEMMA FrontIs ==
  ASSUME NEW x \in Seq({"L", "C"}), NEW e \in {"L", "C"}
  PROVE  /\ Front(x \o <<e>>) = x /\ Last(x \o <<e>>) = e
         /\ Len(x \o <<e>>) = Len(x) + 1 /\ x \o <<e>> \in Seq({"L", "C"})
<1>1. x \o <<e>> \in Seq({"L", "C"}) /\ Len(x \o <<e>>) = Len(x) + 1 /\ (x \o <<e>>)[Len(x) + 1] = e
  OBVIOUS
<1>2. SubSeq(x \o <<e>>, 1, Len(x)) = x
  <2>1. <<e>> \in Seq({"L", "C"}) /\ Len(x) \in 0 .. Len(x) /\ SubSeq(x, 1, Len(x)) = x
    OBVIOUS
  <2> QED
    BY <2>1, CutConcat
<1>3. (Len(x) + 1) - 1 = Len(x)
  OBVIOUS
<1> QED
  BY <1>1, <1>2, <1>3 DEF Front, Last

(* What the top activation of luaV_execute says of the frames              *)
LEMMA TopIs ==
  ASSUME IInv, Steady(cstack, th)
  PROVE  LET x == RunUpTo(cstack, L)[Len(cstack) - 1]
             d == DepthUpTo(cstack)[Len(cstack) - 1]
         IN  /\ x \in Seq({"L", "C"}) /\ d \in Nat
             /\ th[L].ci = x \o Shown(Deepest, L) /\ th[L].nC = d + Adds(Deepest)
<1>1. L \in Threads /\ cstack[Len(cstack)].th = L /\ Deepest = cstack[Len(cstack)]
  BY Present
<1>2. /\ th[L].ci = RunUpTo(cstack, L)[Len(cstack) - 1] \o Shown(cstack[Len(cstack)], L)
      /\ RunUpTo(cstack, L)[Len(cstack) - 1] \in Seq({"L", "C"})
      /\ th[L].nC = DepthUpTo(cstack)[Len(cstack)]
      /\ DepthUpTo(cstack)[Len(cstack)] = DepthUpTo(cstack)[Len(cstack) - 1] + Adds(cstack[Len(cstack)])
      /\ DepthUpTo(cstack)[Len(cstack) - 1] \in Nat
  BY <1>1, TopRuns
<1> QED
  BY <1>1, <1>2

LEMMA NotHost ==
  ASSUME IInv, Deepest.kind # "host"
  PROVE  Len(cstack) > 1 /\ Len(cstack) - 1 \in 1 .. Len(cstack)
<1>1. Lies(Deepest, cstack, Len(cstack) - 1) /\ Len(cstack) \in Nat \ {0}
  BY Present
<1> DEFINE n == Len(cstack)
<1>2. n - 1 # 0 /\ n \in Nat /\ n # 0
  BY <1>1 DEF Lies
<1> HIDE DEF n
<1>3. n > 1 /\ n - 1 \in 1 .. n
  BY <1>2
<1> QED
  BY <1>3 DEF n

LEMMA CallByOpKeeps ==
  ASSUME IInv, NEW f \in {"L", "C"}, CallByOp(f)
  PROVE  IInv'
<1> DEFINE g == [Deepest EXCEPT !.n = Deepest.n + 1]
           entered == IF f = "L" THEN Append(Pop, g) ELSE Append(cstack, Activation(L, f))
           o == Precall(th[L], cstack, f, entered)
           n == Len(cstack)
           x == RunUpTo(cstack, L)[n - 1]
           d == DepthUpTo(cstack)[n - 1]
<1>1. /\ mode = "run" /\ Deepest.kind = "exec"
      /\ th' = [th EXCEPT ![L] = o.r] /\ cstack' = o.stack /\ mode' = o.m
  BY DEF CallByOp, Running, Becomes, Put
<1>2. /\ Steady(cstack, th) /\ L \in Threads /\ cstack \in Seq(Activations) /\ n \in Nat \ {0}
      /\ Deepest = cstack[n] /\ Deepest \in Activations /\ Deepest.th = L /\ th[L] \in States
      /\ DepthUpTo(cstack)[n] < MaxCCalls + ErrRoom /\ DepthUpTo(cstack)[n] \in Nat
      /\ th[L].nC = DepthUpTo(cstack)[n]
  BY <1>1, Present
<1>3. Deepest.n \in Nat /\ Adds(Deepest) = 0 /\ Shown(Deepest, L) = Luas(Deepest.n)
  BY <1>1, <1>2 DEF Activations, Adds, Shown, Luas
<1>4. CASE f = "C"
  <2> DEFINE a == Activation(L, f)
  <2>1. a.th = L /\ a.kind = "cfn"
    BY <1>4 DEF Activation, Frame
  <2>2. Lies(a, cstack, n) /\ EntryFits(a, cstack[n], th[L])
    <3> HIDE DEF a
    <3> QED
      BY <1>1, <1>2, <2>1 DEF Lies, EntryFits
  <2>3. o = Precall(th[L], cstack, f, Append(cstack, a))
    BY <1>4
  <2> HIDE DEF o, a
  <2>4. Steady(o.stack, [th EXCEPT ![L] = o.r]) /\ ModeFits(o.stack, o.m)
    BY <1>2, <2>2, <2>3, PrecallPushes DEF a
  <2> QED
    BY <1>1, <2>4, Kept
<1>5. CASE f = "L"
  <2>1. /\ x \in Seq({"L", "C"}) /\ d \in Nat /\ th[L].ci = x \o Shown(Deepest, L)
        /\ th[L].nC = d + Adds(Deepest)
    BY <1>2, TopIs
  <2>2. g.kind = "exec" /\ g.th = L /\ g.n = Deepest.n + 1 /\ g \in Activations
    BY <1>1, <1>2, <1>3 DEF Activations
  <2> HIDE DEF g
  <2>3. Adds(g) = 0 /\ Shown(g, L) = Luas(Deepest.n + 1)
    BY <2>2 DEF Adds, Shown, Luas
  <2> HIDE DEF x, d
  <2>4. th[L].ci \o <<"L">> = x \o Shown(g, L)
    <3>1. x \o Luas(Deepest.n + 1) = (x \o Luas(Deepest.n)) \o <<"L">>
      BY <1>3, <2>1, OneMore
    <3> QED
      BY <1>3, <2>1, <2>3, <3>1, Zenon
  <2> DEFINE w == Append(Front(cstack), g)
  <2>w. w = Append(Front(cstack), g)
    OBVIOUS
  <2> HIDE DEF w
  <2>5. ASSUME NEW r \in States, EnteredBy(r, th[L], f)
        PROVE  Steady(w, [th EXCEPT ![L] = r]) /\ ModeFits(w, "run")
    <3>1. /\ r.ci = x \o Shown(g, L) /\ SizeFine(r)
          /\ r.baseC = th[L].baseC /\ r.status = th[L].status /\ r.filled = th[L].filled /\ r.entry = th[L].entry
          /\ r.errorJmp = th[L].errorJmp /\ r.errfunc = th[L].errfunc /\ r.allowhook = th[L].allowhook
          /\ r.nC = th[L].nC
      BY <1>5, <2>4, <2>5 DEF EnteredBy
    <3>2. r.nC = d + Adds(g) /\ r.nC = DepthUpTo(cstack)[n]
      BY <1>2, <1>3, <2>1, <2>3, <3>1
    <3>3. Recounted(cstack, L, g, th[L], r)
      BY <3>1, <3>2 DEF x, d, Recounted
    <3>4. /\ Steady(cstack, th) /\ cstack[Len(cstack)].th = L /\ L \in Threads
          /\ g \in Activations /\ g.th = L /\ g.kind = cstack[Len(cstack)].kind
          /\ g.kind \in {"exec", "parser"} /\ (g.kind = "exec" => g.n > 0)
      BY <1>1, <1>2, <1>3, <2>2
    <3>5. /\ Steady(w, [th EXCEPT ![L] = r])
          /\ Len(w) = Len(cstack) /\ w[Len(cstack)] = g
          /\ DepthUpTo(w)[Len(cstack)] = DepthUpTo(cstack)[Len(cstack) - 1] + Adds(g)
      <4>1. Steady(w, [th EXCEPT ![L] = r])
        BY <2>w, <3>3, <3>4, Recount
      <4>2. Len(cstack) > 1
        BY <1>1, NotHost
      <4> QED
        BY <1>2, <2>w, <3>4, <4>1, <4>2, RecountedTop
    <3>6. DepthUpTo(w)[n] = DepthUpTo(cstack)[n]
      BY <3>2, <3>5 DEF d
    <3>7. ModeFits(w, "run")
      BY <1>2, <2>2, <3>5, <3>6, Limits DEF ModeFits, Calling
    <3> QED
      BY <3>5, <3>7
  <2>6. o = Precall(th[L], cstack, f, Append(Front(cstack), g))
    BY <1>5 DEF Pop, g
  <2> HIDE DEF o
  <2>7. Steady(o.stack, [th EXCEPT ![L] = o.r]) /\ ModeFits(o.stack, o.m)
    <3>1. o = Precall(th[L], cstack, f, w)
      BY <2>6 DEF w
    <3>2. Steady(cstack, th) /\ L \in Threads /\ DepthUpTo(cstack)[Len(cstack)] < MaxCCalls + ErrRoom
      BY <1>2
    <3> QED
      BY <2>5, <3>1, <3>2, PrecallIs
  <2> QED
    BY <1>1, <2>7, Kept
<1> QED
  BY <1>4, <1>5

LEMMA RecountKeeps ==
  ASSUME IInv, Steady(cstack, th), NEW g \in Activations, g.th = L, g.kind = Deepest.kind,
         g.kind \in {"exec", "parser"}, g.kind = "exec" => g.n > 0,
         NEW r \in States, Recounted(cstack, L, g, th[L], r),
         th' = [th EXCEPT ![L] = r], cstack' = Append(Pop, g), mode' \in {"run", "throw"},
         DepthUpTo(cstack)[Len(cstack) - 1] + Adds(g) <= MaxCCalls + ErrRoom,
         mode' = "run" => DepthUpTo(cstack)[Len(cstack) - 1] + Adds(g) < MaxCCalls + ErrRoom
  PROVE  IInv'
<1> DEFINE w == Append(Front(cstack), g)
<1>1. w = Append(Front(cstack), g) /\ cstack' = w
  BY DEF Pop
<1> HIDE DEF w
<1>2. /\ cstack[Len(cstack)].th = L /\ L \in Threads /\ g.kind = cstack[Len(cstack)].kind
      /\ cstack \in Seq(Activations)
  BY Present
<1>3. Steady(w, [th EXCEPT ![L] = r])
  BY <1>1, <1>2, Recount
<1>4. Len(cstack) > 1
  BY NotHost
<1>5. /\ Len(w) = Len(cstack) /\ w[Len(cstack)] = g
      /\ DepthUpTo(w)[Len(cstack)] = DepthUpTo(cstack)[Len(cstack) - 1] + Adds(g)
  BY <1>1, <1>2, <1>4, RecountedTop
<1>6. ModeFits(w, mode')
  BY <1>5 DEF ModeFits, Calling
<1> QED
  BY <1>1, <1>3, <1>6, Kept

LEMMA EnterLevelKeeps ==
  ASSUME IInv, EnterLevel
  PROVE  IInv'
<1> DEFINE r == [th[L] EXCEPT !.nC = th[L].nC + 1]
           g == [Deepest EXCEPT !.n = Deepest.n + 1]
           x == RunUpTo(cstack, L)[Len(cstack) - 1]
           d == DepthUpTo(cstack)[Len(cstack) - 1]
<1>1. /\ mode = "run" /\ Deepest.kind = "parser" /\ th' = [th EXCEPT ![L] = r]
      /\ cstack' = Append(Pop, g) /\ mode' = IF r.nC > MaxCCalls THEN "throw" ELSE "run"
  BY DEF EnterLevel, Running, Becomes, Put, Outcome
<1>2. /\ Steady(cstack, th) /\ Deepest \in Activations /\ Deepest.th = L /\ th[L] \in States
      /\ DepthUpTo(cstack)[Len(cstack)] < MaxCCalls + ErrRoom /\ Fine(cstack, L, th[L])
      /\ th[L].nC = DepthUpTo(cstack)[Len(cstack)]
  BY <1>1, Present
<1>3. /\ x \in Seq({"L", "C"}) /\ d \in Nat /\ th[L].ci = x \o Shown(Deepest, L)
      /\ th[L].nC = d + Adds(Deepest)
  BY <1>2, TopIs
<1>4. /\ Deepest.n \in Nat /\ Adds(Deepest) = Deepest.n /\ Shown(Deepest, L) = <<>>
  BY <1>1, <1>2 DEF Activations, Adds, Shown
<1>5. /\ g \in Activations /\ g.kind = "parser" /\ g.th = L /\ g.n = Deepest.n + 1
  BY <1>1, <1>2, <1>4 DEF Activations
<1>6. th[L].nC \in Nat /\ th[L].nC + 1 \in Nat
  BY <1>2 DEF States
<1>7. /\ r \in States /\ r.nC = th[L].nC + 1
      /\ r.ci = th[L].ci /\ r.size = th[L].size /\ r.baseC = th[L].baseC /\ r.status = th[L].status
      /\ r.filled = th[L].filled /\ r.entry = th[L].entry /\ r.errorJmp = th[L].errorJmp /\ r.errfunc = th[L].errfunc
      /\ r.allowhook = th[L].allowhook
  BY <1>2, <1>6, WithDepth
<1> HIDE DEF r, g, x, d
<1>8. Adds(g) = Deepest.n + 1 /\ Shown(g, L) = <<>>
  BY <1>5 DEF Adds, Shown
<1>9. Recounted(cstack, L, g, th[L], r)
  <2>1. r.nC = d + Adds(g)
    BY <1>3, <1>4, <1>7, <1>8
  <2>2. SizeFine(r)
    BY <1>2, <1>7 DEF Fine, SizeFine
  <2> QED
    BY <1>3, <1>4, <1>7, <1>8, <2>1, <2>2 DEF Recounted, x, d
<1>10. /\ d + Adds(g) <= MaxCCalls + ErrRoom
       /\ mode' = "run" => d + Adds(g) < MaxCCalls + ErrRoom
  BY <1>1, <1>2, <1>3, <1>4, <1>6, <1>7, <1>8, Limits
<1> QED
  BY <1>1, <1>2, <1>5, <1>7, <1>9, <1>10, RecountKeeps DEF d

LEMMA LeaveLevelKeeps ==
  ASSUME IInv, LeaveLevel
  PROVE  IInv'
<1> DEFINE r == [th[L] EXCEPT !.nC = th[L].nC - 1]
           g == [Deepest EXCEPT !.n = Deepest.n - 1]
           x == RunUpTo(cstack, L)[Len(cstack) - 1]
           d == DepthUpTo(cstack)[Len(cstack) - 1]
<1>1. /\ mode = "run" /\ Deepest.kind = "parser" /\ Deepest.n > 0 /\ th' = [th EXCEPT ![L] = r]
      /\ cstack' = Append(Pop, g) /\ mode' = "run"
  BY DEF LeaveLevel, Running, Becomes, Put, Outcome
<1>2. /\ Steady(cstack, th) /\ Deepest \in Activations /\ Deepest.th = L /\ th[L] \in States
      /\ DepthUpTo(cstack)[Len(cstack)] < MaxCCalls + ErrRoom /\ Fine(cstack, L, th[L])
      /\ th[L].nC = DepthUpTo(cstack)[Len(cstack)]
  BY <1>1, Present
<1>3. /\ x \in Seq({"L", "C"}) /\ d \in Nat /\ th[L].ci = x \o Shown(Deepest, L)
      /\ th[L].nC = d + Adds(Deepest)
  BY <1>2, TopIs
<1>4. /\ Deepest.n \in Nat /\ Deepest.n - 1 \in Nat /\ Adds(Deepest) = Deepest.n /\ Shown(Deepest, L) = <<>>
  <2>1. Deepest.n \in Nat /\ Adds(Deepest) = Deepest.n /\ Shown(Deepest, L) = <<>>
    BY <1>1, <1>2 DEF Activations, Adds, Shown
  <2> QED
    BY <1>1, <2>1
<1>5. /\ g \in Activations /\ g.kind = "parser" /\ g.th = L /\ g.n = Deepest.n - 1
  BY <1>1, <1>2, <1>4 DEF Activations
<1>6. th[L].nC \in Nat /\ th[L].nC - 1 \in Nat
  <2>1. th[L].nC = d + Deepest.n /\ d \in Nat /\ Deepest.n \in Nat /\ Deepest.n > 0
    BY <1>1, <1>3, <1>4
  <2> HIDE DEF d
  <2> QED
    BY <2>1
<1>7. /\ r \in States /\ r.nC = th[L].nC - 1
      /\ r.ci = th[L].ci /\ r.size = th[L].size /\ r.baseC = th[L].baseC /\ r.status = th[L].status
      /\ r.filled = th[L].filled /\ r.entry = th[L].entry /\ r.errorJmp = th[L].errorJmp /\ r.errfunc = th[L].errfunc
      /\ r.allowhook = th[L].allowhook
  BY <1>2, <1>6, WithDepth
<1> HIDE DEF r, g, x, d
<1>8. Adds(g) = Deepest.n - 1 /\ Shown(g, L) = <<>>
  BY <1>5 DEF Adds, Shown
<1>9. Recounted(cstack, L, g, th[L], r)
  <2>1. r.nC = d + Adds(g)
    BY <1>3, <1>4, <1>7, <1>8
  <2>2. SizeFine(r)
    BY <1>2, <1>7 DEF Fine, SizeFine
  <2> QED
    BY <1>3, <1>4, <1>7, <1>8, <2>1, <2>2 DEF Recounted, x, d
<1>10. d + Adds(g) < MaxCCalls + ErrRoom /\ d + Adds(g) <= MaxCCalls + ErrRoom
  BY <1>2, <1>3, <1>4, <1>6, <1>8, Limits
<1> QED
  BY <1>1, <1>2, <1>5, <1>7, <1>9, <1>10, RecountKeeps DEF d

-----------------------------------------------------------------------------
(* Returns: the top activation is taken off.                               *)
Returning == {"call", "pcall", "hook", "gctm", "handler", "resume"}

LEMMA PopKeeps ==
  ASSUME IInv, mode # "throw", Steady(cstack, th), Deepest.kind \notin {"host", "resume"},
         NEW r \in States, Popped(Deepest, th[L], r),
         th' = [th EXCEPT ![L] = r], cstack' = Pop, mode' \in {"run", "return", "throw"},
         mode' = "run" => cstack[Len(cstack) - 1].kind \in Calling,
         mode' = "return" => cstack[Len(cstack) - 1].kind \in Returning
  PROVE  IInv'
<1>1. /\ L \in Threads /\ Deepest = cstack[Len(cstack)] /\ Deepest.th = L
      /\ DepthUpTo(cstack)[Len(cstack)] < MaxCCalls + ErrRoom
  BY Present
<1>2. /\ Steady(Front(cstack), [th EXCEPT ![L] = r])
      /\ Len(cstack) > 1
      /\ Len(Front(cstack)) = Len(cstack) - 1
      /\ \A i \in 1 .. Len(cstack) - 1 : Front(cstack)[i] = cstack[i]
      /\ DepthUpTo(cstack)[Len(cstack)] = DepthUpTo(Front(cstack))[Len(cstack) - 1] + Adds(Deepest)
      /\ Deepest \in Activations
      /\ DepthUpTo(Front(cstack))[Len(cstack) - 1] \in Nat
  BY <1>1, PopTop
<1>3. Adds(Deepest) \in Nat /\ Len(cstack) \in Nat
  BY <1>2, AddsType, Present
<1> DEFINE u == Front(cstack)
           m == Len(cstack) - 1
           d == DepthUpTo(u)[m]
<1>4. Len(u) = m /\ u[m] = cstack[m]
  BY <1>2, <1>3
<1>5. d < MaxCCalls + ErrRoom /\ d <= MaxCCalls + ErrRoom
  <2> DEFINE a == Adds(Deepest)
             top == DepthUpTo(cstack)[Len(cstack)]
  <2>1. top = d + a /\ a \in Nat /\ d \in Nat /\ top < MaxCCalls + ErrRoom
    BY <1>1, <1>2, <1>3
  <2> HIDE DEF a, d, top
  <2> QED
    BY <2>1, Limits
<1> HIDE DEF u, m, d
<1>6. ModeFits(u, mode')
  BY <1>4, <1>5 DEF ModeFits, d, m, Returning
<1> QED
  BY <1>2, <1>6, Kept DEF Pop, u

(* The caller of the top activation                                        *)
LEMMA BelowIs ==
  ASSUME IInv, Deepest.kind # "host"
  PROVE  Last(Pop) = cstack[Len(cstack) - 1]
<1> DEFINE n == Len(cstack)
           m == n - 1
<1>1. cstack \in Seq(Activations) /\ n > 1 /\ m \in 1 .. n /\ n \in Nat /\ m = n - 1
  BY Present, NotHost
<1>2. Pop = SubSeq(cstack, 1, m)
  BY DEF Pop, Front
<1> HIDE DEF n, m
<1>3. m \in 1 .. Len(cstack)
  BY <1>1 DEF n
<1>4. Len(Pop) = m /\ Pop[m] = cstack[m]
  <2>1. Len(Pop) = m /\ \A i \in 1 .. m : Pop[i] = cstack[i]
    BY <1>1, <1>2, <1>3, CutIs
  <2>2. m \in 1 .. m
    BY <1>1
  <2> QED
    BY <2>1, <2>2
<1>5. Last(Pop) = cstack[m]
  BY <1>4 DEF Last
<1> QED
  BY <1>1, <1>5 DEF n

LEMMA ParsedKeeps ==
  ASSUME IInv, Parsed
  PROVE  IInv'
<1>1. /\ mode = "run" /\ Deepest.kind = "parser" /\ Deepest.n = 0
      /\ th' = [th EXCEPT ![L] = th[L]] /\ cstack' = Pop /\ mode' = "return"
  BY DEF Parsed, Running, Becomes, Put, Outcome
<1>2. /\ Steady(cstack, th) /\ th[L] \in States /\ Fine(cstack, L, th[L])
      /\ Lies(Deepest, cstack, Len(cstack) - 1)
  BY <1>1, Present
<1>3. Adds(Deepest) = 0 /\ Shown(Deepest, Deepest.th) = <<>>
  BY <1>1 DEF Adds, Shown
<1>4. th[L].ci \o <<>> = th[L].ci /\ th[L].nC + 0 = th[L].nC
  BY <1>2 DEF States
<1>5. Popped(Deepest, th[L], th[L])
  BY <1>1, <1>2, <1>3, <1>4 DEF Popped, Fine
<1>6. cstack[Len(cstack) - 1].kind = "pcall"
  BY <1>1, <1>2 DEF Lies
<1> QED
  BY <1>1, <1>2, <1>5, <1>6, PopKeeps DEF Returning

(* A function of luaV_execute, or a C function, is taken off the CallInfos. *)
LEMMA FrontStates ==
  ASSUME NEW r \in States, SizeFine(r), NEW x \in Seq({"L", "C"}), NEW e \in {"L", "C"},
         r.ci = x \o <<e>>
  PROVE  LET q == [r EXCEPT !.ci = Front(r.ci)]
         IN  /\ q \in States /\ q.ci = x /\ SizeFine(q)
             /\ q.nC = r.nC /\ q.size = r.size /\ q.baseC = r.baseC /\ q.status = r.status
             /\ q.filled = r.filled /\ q.entry = r.entry /\ q.errorJmp = r.errorJmp /\ q.errfunc = r.errfunc
             /\ q.allowhook = r.allowhook
<1> DEFINE q == [r EXCEPT !.ci = Front(r.ci)]
<1>1. Front(r.ci) = x /\ Len(r.ci) = Len(x) + 1 /\ Len(x) \in Nat /\ r.size \in Nat
  BY FrontIs DEF States
<1>2. q = [r EXCEPT !.ci = x]
  BY <1>1
<1>3. /\ q \in States /\ q.ci = x
      /\ q.nC = r.nC /\ q.size = r.size /\ q.baseC = r.baseC /\ q.status = r.status
      /\ q.filled = r.filled /\ q.entry = r.entry /\ q.errorJmp = r.errorJmp /\ q.errfunc = r.errfunc
      /\ q.allowhook = r.allowhook
  BY <1>2 DEF States
<1>4. SizeFine(q)
  BY <1>1, <1>3 DEF SizeFine
<1> QED
  BY <1>3, <1>4

LEMMA ReturnCKeeps ==
  ASSUME IInv, ReturnC
  PROVE  IInv'
<1> DEFINE r == [th[L] EXCEPT !.ci = Front(th[L].ci)]
           x == RunUpTo(cstack, L)[Len(cstack) - 1]
<1>1. /\ mode = "run" /\ Deepest.kind = "cfn"
      /\ th' = [th EXCEPT ![L] = r] /\ cstack' = Pop
      /\ mode' = IF Last(Pop).kind = "exec" THEN "run" ELSE "return"
  BY DEF ReturnC, Running, Becomes, Put, Outcome
<1>2. /\ Steady(cstack, th) /\ th[L] \in States /\ Fine(cstack, L, th[L])
      /\ Lies(Deepest, cstack, Len(cstack) - 1) /\ Deepest.th = L
  BY <1>1, Present
<1>3. Adds(Deepest) = 0 /\ Shown(Deepest, L) = <<"C">>
  BY <1>1, <1>2 DEF Adds, Shown
<1>4. x \in Seq({"L", "C"}) /\ th[L].ci = x \o <<"C">> /\ SizeFine(th[L])
  BY <1>2, <1>3, TopIs DEF Fine
<1> HIDE DEF x
<1>5. /\ r \in States /\ r.ci = x /\ SizeFine(r)
      /\ r.nC = th[L].nC /\ r.size = th[L].size /\ r.baseC = th[L].baseC /\ r.status = th[L].status
      /\ r.filled = th[L].filled /\ r.entry = th[L].entry /\ r.errorJmp = th[L].errorJmp /\ r.errfunc = th[L].errfunc
      /\ r.allowhook = th[L].allowhook
  <2> DEFINE o == th[L]
  <2>1. o \in States /\ o.ci = x \o <<"C">> /\ SizeFine(o) /\ "C" \in {"L", "C"}
    BY <1>2, <1>4
  <2> HIDE DEF o
  <2> QED
    BY <1>4, <2>1, FrontStates DEF o
<1> HIDE DEF r
<1>6. Popped(Deepest, th[L], r)
  <2>1. th[L].nC + 0 = th[L].nC
    BY <1>2 DEF States
  <2> QED
    BY <1>1, <1>2, <1>3, <1>4, <1>5, <2>1 DEF Popped
<1>7. Last(Pop) = cstack[Len(cstack) - 1] /\ Last(Pop).kind \in {"call", "exec", "resume"}
  BY <1>1, <1>2, BelowIs DEF Lies
<1> QED
  BY <1>1, <1>2, <1>5, <1>6, <1>7, PopKeeps DEF Returning, Calling

LEMMA ReturnLuaKeeps ==
  ASSUME IInv, ReturnLua
  PROVE  IInv'
<1> DEFINE r == [th[L] EXCEPT !.ci = Front(th[L].ci)]
           g == [Deepest EXCEPT !.n = Deepest.n - 1]
           x == RunUpTo(cstack, L)[Len(cstack) - 1]
           d == DepthUpTo(cstack)[Len(cstack) - 1]
           k == Deepest.n - 1
<1>1. /\ mode = "run" /\ Deepest.kind = "exec" /\ th' = [th EXCEPT ![L] = r]
      /\ Deepest.n = 1 => cstack' = Pop /\ mode' = "return"
      /\ Deepest.n # 1 => cstack' = Append(Pop, g) /\ mode' = "run"
  BY DEF ReturnLua, Running, Becomes, Put, Outcome
<1>2. /\ Steady(cstack, th) /\ th[L] \in States /\ Fine(cstack, L, th[L])
      /\ Lies(Deepest, cstack, Len(cstack) - 1) /\ Deepest.th = L /\ Deepest \in Activations
      /\ DepthUpTo(cstack)[Len(cstack)] < MaxCCalls + ErrRoom
      /\ th[L].nC = DepthUpTo(cstack)[Len(cstack)]
  BY <1>1, Present
<1>3. k \in Nat /\ Deepest.n = k + 1
  <2>1. Deepest.n \in Nat /\ Deepest.n > 0
    BY <1>1, <1>2 DEF Activations, Lies
  <2> QED
    BY <2>1
<1>4. Adds(Deepest) = 0 /\ Shown(Deepest, L) = Luas(Deepest.n)
  BY <1>1, <1>2 DEF Adds, Shown, Luas
<1>5. /\ x \in Seq({"L", "C"}) /\ d \in Nat /\ th[L].ci = x \o Shown(Deepest, L)
      /\ th[L].nC = d + Adds(Deepest) /\ SizeFine(th[L])
  BY <1>2, TopIs DEF Fine
<1>g. g.kind = "exec" /\ g.th = L /\ g.n = k /\ g \in Activations
  BY <1>1, <1>2, <1>3 DEF Activations
<1> HIDE DEF x, d, k, g
<1>6. th[L].ci = (x \o Luas(k)) \o <<"L">> /\ x \o Luas(k) \in Seq({"L", "C"})
  <2>1. x \o Luas(k + 1) = (x \o Luas(k)) \o <<"L">> /\ x \o Luas(k) \in Seq({"L", "C"})
    BY <1>3, <1>5, OneMore
  <2>2. th[L].ci = x \o Luas(k + 1)
    BY <1>3, <1>4, <1>5
  <2> QED
    BY <2>1, <2>2
<1>r. r = [th[L] EXCEPT !.ci = Front(th[L].ci)] /\ "L" \in {"L", "C"}
  OBVIOUS
<1> HIDE DEF r
<1>7. /\ r \in States /\ r.ci = x \o Luas(k) /\ SizeFine(r)
      /\ r.nC = th[L].nC /\ r.size = th[L].size /\ r.baseC = th[L].baseC /\ r.status = th[L].status
      /\ r.filled = th[L].filled /\ r.entry = th[L].entry /\ r.errorJmp = th[L].errorJmp /\ r.errfunc = th[L].errfunc
      /\ r.allowhook = th[L].allowhook
  <2> DEFINE y == x \o Luas(k)
  <2>1. y \in Seq({"L", "C"}) /\ th[L].ci = y \o <<"L">>
    BY <1>6
  <2> HIDE DEF y
  <2>2. /\ r \in States /\ r.ci = y /\ SizeFine(r)
        /\ r.nC = th[L].nC /\ r.size = th[L].size /\ r.baseC = th[L].baseC /\ r.status = th[L].status
        /\ r.filled = th[L].filled /\ r.entry = th[L].entry /\ r.errorJmp = th[L].errorJmp /\ r.errfunc = th[L].errfunc
        /\ r.allowhook = th[L].allowhook
    BY <1>2, <1>5, <1>r, <2>1, FrontStates
  <2> QED
    BY <2>2 DEF y
<1>8. th[L].nC + 0 = th[L].nC /\ d + 0 = d
  BY <1>2, <1>5 DEF States
<1>9. CASE Deepest.n = 1
  <2>1. k = 0 /\ Luas(k) = <<>>
    BY <1>3, <1>9 DEF Luas
  <2>2. r.ci = x
    BY <1>5, <1>7, <2>1
  <2>3. Popped(Deepest, th[L], r)
    BY <1>1, <1>2, <1>4, <1>5, <1>7, <1>8, <2>2 DEF Popped
  <2>4. cstack[Len(cstack) - 1].kind \in {"call", "resume"}
    BY <1>1, <1>2 DEF Lies
  <2> QED
    BY <1>1, <1>2, <1>7, <1>9, <2>3, <2>4, PopKeeps DEF Returning
<1>10. CASE Deepest.n # 1
  <2>1. Adds(g) = 0 /\ Shown(g, L) = Luas(k) /\ g.n > 0
    BY <1>3, <1>10, <1>g DEF Adds, Shown, Luas
  <2>2. Recounted(cstack, L, g, th[L], r)
    BY <1>4, <1>5, <1>7, <1>8, <2>1 DEF Recounted, x, d
  <2>3. d + Adds(g) < MaxCCalls + ErrRoom /\ d + Adds(g) <= MaxCCalls + ErrRoom
    BY <1>2, <1>4, <1>5, <2>1, Limits
  <2> QED
    BY <1>1, <1>2, <1>7, <1>10, <1>g, <2>1, <2>2, <2>3, RecountKeeps DEF d
<1> QED
  BY <1>9, <1>10
(* The ends of the activations that luaD_call, luaD_pcall and the others    *)
(* leave: r is what they put in the thread.                                *)
LEMMA Unchanged ==
  ASSUME IInv
  PROVE  /\ th[L].ci \o <<>> = th[L].ci /\ th[L].nC + 0 = th[L].nC
         /\ SizeFine(th[L]) /\ [th EXCEPT ![L] = th[L]] = th
<1>1. th[L] \in States /\ Fine(cstack, L, th[L]) /\ th \in [Threads -> States] /\ L \in Threads
  BY Present
<1>2. th[L].ci \o <<>> = th[L].ci /\ th[L].nC + 0 = th[L].nC
  BY <1>1 DEF States
<1>3. SizeFine(th[L])
  BY <1>1 DEF Fine
<1>4. [th EXCEPT ![L] = th[L]] = th
  BY <1>1
<1> QED
  BY <1>2, <1>3, <1>4

LEMMA CallReturnsKeeps ==
  ASSUME IInv, CallReturns
  PROVE  IInv'
<1> DEFINE r == [th[L] EXCEPT !.nC = th[L].nC - 1]
<1>1. /\ mode = "return" /\ Deepest.kind = "call"
      /\ th' = [th EXCEPT ![L] = r] /\ cstack' = Pop
      /\ mode' = IF Last(Pop).kind \in Calling THEN "run" ELSE "return"
  BY DEF CallReturns, Returned, Becomes, Put, Outcome
<1>2. /\ Steady(cstack, th) /\ th[L] \in States
      /\ Lies(Deepest, cstack, Len(cstack) - 1) /\ Deepest.th = L
  BY <1>1, Present
<1>3. Adds(Deepest) = 1 /\ Shown(Deepest, L) = <<>>
  BY <1>1 DEF Adds, Shown
<1>4. th[L].nC \in Nat /\ th[L].nC - 1 \in Nat /\ (th[L].nC - 1) + 1 = th[L].nC
  <2> DEFINE d == DepthUpTo(cstack)[Len(cstack) - 1]
  <2>1. d \in Nat /\ th[L].nC = d + Adds(Deepest)
    BY <1>2, TopIs
  <2> HIDE DEF d
  <2> QED
    BY <1>3, <2>1
<1>5. /\ r \in States /\ r.nC = th[L].nC - 1
      /\ r.ci = th[L].ci /\ r.size = th[L].size /\ r.baseC = th[L].baseC /\ r.status = th[L].status
      /\ r.filled = th[L].filled /\ r.entry = th[L].entry /\ r.errorJmp = th[L].errorJmp /\ r.errfunc = th[L].errfunc
      /\ r.allowhook = th[L].allowhook
  BY <1>2, <1>4, WithDepth
<1> HIDE DEF r
<1>6. SizeFine(r)
  BY <1>5, Unchanged DEF SizeFine
<1>7. Popped(Deepest, th[L], r)
  BY <1>1, <1>2, <1>3, <1>4, <1>5, <1>6, Unchanged DEF Popped
<1>8. /\ Last(Pop) = cstack[Len(cstack) - 1]
      /\ Last(Pop).kind \in Calling \cup {"pcall", "hook", "gctm", "handler"}
  BY <1>1, <1>2, BelowIs DEF Lies
<1> QED
  BY <1>1, <1>2, <1>5, <1>7, <1>8, PopKeeps DEF Returning

LEMMA PCallReturnsKeeps ==
  ASSUME IInv, PCallReturns
  PROVE  IInv'
<1> DEFINE o == th[L]
           r == Ended(o, Deepest)
<1>1. /\ mode = "return" /\ Deepest.kind = "pcall"
      /\ th' = [th EXCEPT ![L] = r] /\ cstack' = Pop /\ mode' = "run"
  BY DEF PCallReturns, Returned, Becomes, Put, Outcome
<1>2. /\ Steady(cstack, th) /\ o \in States /\ Deepest \in Activations
      /\ Lies(Deepest, cstack, Len(cstack) - 1) /\ Deepest.th = L
  BY <1>1, Present
<1>3. Adds(Deepest) = 0 /\ Shown(Deepest, L) = <<>>
  BY <1>1 DEF Adds, Shown
<1>4. Deepest.errfunc \in Result /\ Deepest.previous \in Nat
  BY <1>1, <1>2 DEF Activations
<1>u. o.ci \o <<>> = o.ci /\ o.nC + 0 = o.nC /\ SizeFine(o)
  BY Unchanged
<1> HIDE DEF o
<1>5. /\ r \in States /\ r.nC = o.nC /\ r.ci = o.ci /\ r.size = o.size
      /\ r.baseC = o.baseC /\ r.status = o.status /\ r.filled = o.filled /\ r.entry = o.entry
      /\ r.errorJmp = Deepest.previous /\ r.errfunc = Deepest.errfunc
      /\ r.allowhook = o.allowhook
  BY <1>2, <1>4 DEF States, Ended
<1> HIDE DEF r
<1>6. SizeFine(r)
  BY <1>5, <1>u DEF SizeFine
<1>7. Popped(Deepest, o, r)
  BY <1>1, <1>2, <1>3, <1>5, <1>6, <1>u DEF Popped
<1>8. cstack[Len(cstack) - 1].kind \in {"host", "cfn"}
  BY <1>1, <1>2 DEF Lies
<1> QED
  BY <1>1, <1>2, <1>5, <1>7, <1>8, PopKeeps DEF Calling, o

(* luaD_callhook and GCTM put allowhook back.                              *)
LEMMA SavedReturns ==
  ASSUME IInv, mode = "return", Deepest.kind \in {"hook", "gctm"},
         NEW b \in BOOLEAN, b = IF Deepest.kind = "hook" THEN TRUE ELSE Deepest.allowhook,
         th' = [th EXCEPT ![L] = [th[L] EXCEPT !.allowhook = b]], cstack' = Pop, mode' = "run"
  PROVE  IInv'
<1> DEFINE o == th[L]
           r == [o EXCEPT !.allowhook = b]
<1>2. /\ Steady(cstack, th) /\ o \in States /\ Deepest \in Activations
      /\ Lies(Deepest, cstack, Len(cstack) - 1) /\ Deepest.th = L /\ th' = [th EXCEPT ![L] = r]
  BY Present
<1>3. Adds(Deepest) = 0 /\ Shown(Deepest, L) = <<>>
  BY DEF Adds, Shown
<1>u. o.ci \o <<>> = o.ci /\ o.nC + 0 = o.nC /\ SizeFine(o)
  BY Unchanged
<1> HIDE DEF o
<1>5. /\ r \in States /\ r.nC = o.nC /\ r.ci = o.ci /\ r.size = o.size
      /\ r.baseC = o.baseC /\ r.status = o.status /\ r.filled = o.filled /\ r.entry = o.entry
      /\ r.errorJmp = o.errorJmp /\ r.errfunc = o.errfunc /\ r.allowhook = b
  BY <1>2 DEF States
<1> HIDE DEF r
<1>6. SizeFine(r)
  BY <1>5, <1>u DEF SizeFine
<1>7. Popped(Deepest, o, r)
  BY <1>2, <1>3, <1>5, <1>6, <1>u DEF Popped
<1>8. cstack[Len(cstack) - 1].kind \in Calling
  BY <1>2 DEF Lies, Calling
<1> QED
  BY <1>2, <1>5, <1>7, <1>8, PopKeeps DEF o

LEMMA HookReturnsKeeps ==
  ASSUME IInv, HookReturns
  PROVE  IInv'
<1>1. /\ mode = "return" /\ Deepest.kind = "hook" /\ cstack' = Pop /\ mode' = "run"
      /\ th' = [th EXCEPT ![L] = [th[L] EXCEPT !.allowhook = TRUE]]
  BY DEF HookReturns, Returned, Becomes, Put, Outcome
<1> QED
  BY <1>1, SavedReturns

LEMMA FinalizerReturnsKeeps ==
  ASSUME IInv, FinalizerReturns
  PROVE  IInv'
<1>1. /\ mode = "return" /\ Deepest.kind = "gctm" /\ cstack' = Pop /\ mode' = "run"
      /\ th' = [th EXCEPT ![L] = [th[L] EXCEPT !.allowhook = Deepest.allowhook]]
  BY DEF FinalizerReturns, Returned, Becomes, Put, Outcome
<1>2. Deepest.allowhook \in BOOLEAN
  <2>1. Deepest \in Activations
    BY Present
  <2> QED
    BY <1>1, <2>1 DEF Activations
<1> QED
  BY <1>1, <1>2, SavedReturns

LEMMA HandlerReturnsKeeps ==
  ASSUME IInv, HandlerReturns
  PROVE  IInv'
<1>1. /\ mode = "return" /\ Deepest.kind = "handler"
      /\ th' = [th EXCEPT ![L] = th[L]] /\ cstack' = Pop /\ mode' = "throw"
  BY Unchanged DEF HandlerReturns, Returned
<1>2. /\ Steady(cstack, th) /\ th[L] \in States /\ Deepest.th = L
  BY <1>1, Present
<1>3. Adds(Deepest) = 0 /\ Shown(Deepest, L) = <<>>
  BY <1>1 DEF Adds, Shown
<1>4. Popped(Deepest, th[L], th[L])
  BY <1>1, <1>2, <1>3, Unchanged DEF Popped
<1> QED
  BY <1>1, <1>2, <1>4, PopKeeps

-----------------------------------------------------------------------------
(* Errors                                                                  *)
LEMMA SameStack ==
  ASSUME IInv, mode # "throw", Steady(cstack, th), mode' \in {"error", "throw"},
         UNCHANGED <<cstack, th>>
  PROVE  IInv'
<1>1. DepthUpTo(cstack)[Len(cstack)] < MaxCCalls + ErrRoom /\ DepthUpTo(cstack)[Len(cstack)] \in Nat
  BY Present
<1>2. ModeFits(cstack, mode')
  BY <1>1, Limits DEF ModeFits
<1>3. cstack' = cstack /\ th' = th
  OBVIOUS
<1> QED
  BY <1>2, <1>3, Kept

LEMMA RaiseKeeps ==
  ASSUME IInv, Raise \/ ThrowAtOnce \/ YieldRefused
  PROVE  IInv'
<1>1. mode = "run" /\ mode' \in {"error", "throw"} /\ UNCHANGED <<cstack, th>>
  BY DEF Raise, ThrowAtOnce, YieldRefused, Running
<1>2. Steady(cstack, th)
  BY <1>1, Present
<1> QED
  BY <1>1, <1>2, SameStack

LEMMA ErrorMsgKeeps ==
  ASSUME IInv, ErrorMsg
  PROVE  IInv'
<1> DEFINE f == Frame("handler", L)
           s == Append(cstack, f)
           o == CallOver(L, th[L], s, "C")
<1>1. mode = "error"
  BY DEF ErrorMsg
<1>2. /\ Steady(cstack, th) /\ L \in Threads /\ th[L] \in States /\ cstack \in Seq(Activations)
      /\ DepthUpTo(cstack)[Len(cstack)] \in Nat /\ Len(cstack) \in Nat \ {0}
      /\ DepthUpTo(cstack)[Len(cstack)] < MaxCCalls + ErrRoom
      /\ cstack[Len(cstack)].th = L
  BY <1>1, Present
<1>3. CASE th[L].errfunc # "function"
  <2>1. mode' = "throw" /\ UNCHANGED <<cstack, th>>
    BY <1>3 DEF ErrorMsg
  <2> QED
    BY <1>1, <1>2, <2>1, SameStack
<1>4. CASE th[L].errfunc = "function"
  <2>1. th' = [th EXCEPT ![L] = o.r] /\ cstack' = o.stack /\ mode' = o.m
    BY <1>4 DEF ErrorMsg, Becomes, Put
  <2>2. /\ f \in Activations /\ f.kind = "handler" /\ f.th = L /\ Adds(f) = 0 /\ Shown(f, L) = <<>>
    BY <1>2 DEF Frame, Activations, Adds, Shown
  <2>3. Len(s) = Len(cstack) + 1 /\ s[Len(s)] = f
    BY <1>2, <2>2
  <2> HIDE DEF f
  <2>4. Lies(f, cstack, Len(cstack))
    BY <1>2, <2>2 DEF Lies
  <2>5. Pushed(f, th[L], th[L], Len(cstack) + 1)
    BY <2>2, Unchanged DEF Pushed
  <2>6. /\ Steady(Append(cstack, f), [th EXCEPT ![L] = th[L]])
        /\ DepthUpTo(Append(cstack, f))[Len(cstack) + 1] = DepthUpTo(cstack)[Len(cstack)] + Adds(f)
    <3>1. f.kind \notin {"host", "resume"} /\ EntryFits(f, cstack[Len(cstack)], th[L])
      BY <2>2 DEF EntryFits
    <3> QED
      BY <1>2, <2>2, <2>4, <2>5, <3>1, Push
  <2>7. Steady(s, th) /\ DepthUpTo(s)[Len(s)] < MaxCCalls + ErrRoom
    BY <1>2, <2>2, <2>3, <2>6, Unchanged
  <2> HIDE DEF s
  <2>8. o = CallOver(L, th[L], s, "C")
    OBVIOUS
  <2> HIDE DEF o
  <2>9. Steady(o.stack, [th EXCEPT ![L] = o.r]) /\ ModeFits(o.stack, o.m)
    <3>1. s[Len(s)].th = L /\ s[Len(s)].kind \in Calling \cup {"pcall", "hook", "gctm", "handler"}
      BY <2>2, <2>3
    <3> QED
      BY <1>2, <2>7, <2>8, <3>1, CallOverIs
  <2> QED
    BY <2>1, <2>9, Kept
<1> QED
  BY <1>3, <1>4
(* luaD_pcall after an error and resetstack: the C stack is cut down to the *)
(* m-th activation, one of the thread that runs.                           *)
CutDown(s, t, m, o, r) ==
  /\ r.ci = RunUpTo(s, t)[m] /\ r.nC = DepthUpTo(s)[m] /\ r.baseC = o.baseC
  /\ r.entry = o.entry /\ r.status # "yield"
  /\ t # Main => r.status = o.status /\ r.filled = o.filled
  /\ JumpIs(s, m, t, r.errorJmp) /\ HandlerIs(s, m, t, r.errfunc)
  /\ HooksAre(s, m, t, r.allowhook) /\ SizeFine(r)

LEMMA CutTo ==
  ASSUME NEW s, NEW all, Steady(s, all), NEW t \in Threads, s[Len(s)].th = t,
         NEW m \in 1 .. Len(s), s[m].th = t, NEW r \in States, CutDown(s, t, m, all[t], r)
  PROVE  /\ Steady(SubSeq(s, 1, m), [all EXCEPT ![t] = r])
         /\ Len(SubSeq(s, 1, m)) = m /\ SubSeq(s, 1, m)[m] = s[m]
         /\ DepthUpTo(SubSeq(s, 1, m))[m] = DepthUpTo(s)[m]
<1> DEFINE u == SubSeq(s, 1, m)
           o == all[t]
<1>1. /\ s \in Seq(Activations) /\ s # <<>> /\ all \in [Threads -> States] /\ WellFormed(s)
      /\ Fine(s, t, o)
  BY DEF Fits, Steady
<1>2. CutDown(s, t, m, o, r)
  OBVIOUS
<1> HIDE DEF u, o
<1>3. /\ u \in Seq(Activations) /\ Len(u) = m /\ u # <<>>
      /\ Same(s, u, m) /\ \A i \in 1 .. m : u[i] = s[i]
  BY <1>1, CutIs DEF u
<1>4. m \in 0 .. m /\ m \in 1 .. m /\ m \in Nat \ {0} /\ m \in Nat /\ Len(s) \in m .. Len(s)
  BY <1>1
<1>5. u[m] = s[m] /\ On(s, t) /\ On(u, t)
  BY <1>3, <1>4 DEF On
<1>6. DepthUpTo(u)[m] = DepthUpTo(s)[m] /\ RunUpTo(u, t)[m] = RunUpTo(s, t)[m]
  BY <1>1, <1>3, <1>4, Agree
<1>7. FramesFine(u, t, r)
  BY <1>2, <1>3, <1>6 DEF FramesFine, CutDown
<1>8. SavedFine(u, t, r)
  <2>1. JumpIs(u, m, t, r.errorJmp) /\ HandlerIs(u, m, t, r.errfunc) /\ HooksAre(u, m, t, r.allowhook)
    BY <1>1, <1>2, <1>3, <1>4, SavedAgree DEF CutDown
  <2> QED
    BY <1>3, <2>1 DEF SavedFine
<1>9. \A i \in 1 .. Len(u) : DepthFine(u, i, t, r)
  <2>1. r.baseC = o.baseC /\ r.nC = DepthUpTo(s)[m] /\ r.entry = o.entry
    BY <1>2 DEF CutDown
  <2> QED
    BY <1>1, <2>1, DepthsOfCut DEF Fine, u
<1>10. StatusFine(u, t, r) /\ SizeFine(r)
  BY <1>1, <1>2, <1>5 DEF Fine, StatusFine, CutDown
<1>11. Fine(u, t, r)
  BY <1>7, <1>8, <1>9, <1>10 DEF Fine
<1>12. Fits(u, [all EXCEPT ![t] = r])
  <2>1. ASSUME NEW i \in m + 1 .. Len(s) PROVE s[i].th = t
    <3>1. i \in m .. Len(s)
      BY <1>4
    <3> QED
      BY <1>1, <1>4, <3>1, Together
  <2>2. \A i \in m + 1 .. Len(u) : u[i].th = t /\ Lies(u[i], u, i - 1)
    BY <1>3, <1>4
  <2>3. Fits(s, all)
    BY DEF Steady
  <2> QED
    BY <1>3, <1>4, <1>11, <2>1, <2>2, <2>3, Change
<1>13. \A x \in Threads : On(u, x) => [all EXCEPT ![t] = r][x].status # "yield"
  <2> SUFFICES ASSUME NEW x \in Threads, On(u, x) PROVE [all EXCEPT ![t] = r][x].status # "yield"
    OBVIOUS
  <2>1. CASE x = t
    BY <1>1, <1>2, <2>1 DEF CutDown
  <2>2. CASE x # t
    <3>1. On(s, x)
      BY <1>3, <1>4 DEF On
    <3> QED
      BY <1>1, <2>2, <3>1 DEF Steady
  <2> QED
    BY <2>1, <2>2
<1> QED
  BY <1>3, <1>5, <1>6, <1>12, <1>13 DEF Steady, u

LEMMA LimitRestored ==
  ASSUME NEW r \in States, SizeFine(r)
  PROVE  /\ RestoreStackLimit(r) \in States /\ SameBut(RestoreStackLimit(r), r)
         /\ SizeFine(RestoreStackLimit(r))
<1>1. r.size \in Nat /\ Len(r.ci) \in Nat /\ Len(r.ci) + 1 <= r.size /\ r.size <= 2 * MaxCalls
  BY DEF States, SizeFine
<1>2. CASE r.size > MaxCalls /\ Len(r.ci) + 1 < MaxCalls
  <2> DEFINE q == [r EXCEPT !.size = MaxCalls]
  <2>1. RestoreStackLimit(r) = q
    BY <1>2 DEF RestoreStackLimit
  <2>2. q \in States /\ SameBut(q, r) /\ q.size = MaxCalls /\ q.ci = r.ci
    BY Limits DEF States, SameBut
  <2> HIDE DEF q
  <2>3. SizeFine(q)
    BY <1>1, <1>2, <2>2, Limits DEF SizeFine
  <2> QED
    BY <2>1, <2>2, <2>3
<1>3. CASE ~ (r.size > MaxCalls /\ Len(r.ci) + 1 < MaxCalls)
  <2>1. RestoreStackLimit(r) = r
    BY <1>3 DEF RestoreStackLimit
  <2> QED
    BY <2>1 DEF SameBut
<1> QED
  BY <1>2, <1>3

(* Where an error jumps to                                                 *)
LEMMA JumpTarget ==
  ASSUME IInv, Jump # 0
  PROVE  /\ Jump \in 1 .. Len(cstack) /\ Target = cstack[Jump] /\ Target \in Activations
         /\ Target.th = L /\ Target.kind \in {"pcall", "resume"}
         /\ Lies(Target, cstack, Jump - 1)
         /\ Jump - 1 \in 1 .. Len(cstack) /\ Jump - 1 > 0
<1>1. /\ JumpIs(cstack, Len(cstack), L, Jump) /\ cstack \in Seq(Activations) /\ WellFormed(cstack)
  BY Present DEF Fine, SavedFine, Jump
<1> HIDE DEF Jump
<1>2. Jump \in Own(cstack, Len(cstack), L, {"pcall", "resume"})
  BY <1>1 DEF JumpIs
<1>3. Jump \in 1 .. Len(cstack) /\ cstack[Jump].th = L /\ cstack[Jump].kind \in {"pcall", "resume"}
  BY <1>2 DEF Own
<1>4. Target = cstack[Jump]
  BY DEF Target
<1>5. Target \in Activations
  BY <1>1, <1>3, <1>4
<1>6. Lies(Target, cstack, Jump - 1)
  BY <1>1, <1>3, <1>4 DEF WellFormed
<1>7. Jump - 1 # 0
  BY <1>3, <1>4, <1>6 DEF Lies
<1>8. Jump - 1 \in 1 .. Len(cstack) /\ Jump - 1 > 0
  <2>1. Len(cstack) \in Nat
    BY <1>1
  <2> QED
    BY <1>3, <1>7, <2>1
<1> QED
  BY <1>3, <1>4, <1>5, <1>6, <1>8

LEMMA CatchKeeps ==
  ASSUME IInv, Catch
  PROVE  IInv'
<1> DEFINE m == Jump - 1
           f == Target
           o == th[L]
           x == RunUpTo(cstack, L)[m]
           cut == [o EXCEPT !.nC = f.nC, !.ci = SubSeq(o.ci, 1, f.ci), !.allowhook = f.allowhook]
           q == RestoreStackLimit(cut)
           r == [q EXCEPT !.errfunc = f.errfunc, !.errorJmp = f.previous]
<1>1. /\ mode = "throw" /\ Jump # 0 /\ f.kind = "pcall"
      /\ th' = [th EXCEPT ![L] = r] /\ cstack' = SubSeq(cstack, 1, m) /\ mode' = "run"
  BY DEF Catch, Becomes, Put, Outcome, Ended, Unwound
<1>2. /\ Jump \in 1 .. Len(cstack) /\ f = cstack[Jump] /\ f \in Activations /\ f.th = L
      /\ Lies(f, cstack, m) /\ m \in 1 .. Len(cstack) /\ m > 0
  BY <1>1, JumpTarget
<1>3. /\ Steady(cstack, th) /\ L \in Threads /\ o \in States /\ cstack \in Seq(Activations)
      /\ Fine(cstack, L, o) /\ cstack[Len(cstack)].th = L
  BY <1>1, Present
<1>4. o.ci = RunUpTo(cstack, L)[Len(cstack)] /\ o.status # "yield"
  <2>1. On(cstack, L)
    BY <1>2 DEF On
  <2>2. o.status # "yield"
    BY <1>3, <2>1 DEF Steady
  <2> QED
    BY <1>3, <2>1, <2>2 DEF Fine, FramesFine
<1>5. /\ cstack[m].kind \in {"host", "cfn"} /\ cstack[m].th = L
      /\ f.nC = DepthUpTo(cstack)[m] /\ f.ci = Len(RunUpTo(cstack, L)[m])
      /\ JumpIs(cstack, m, L, f.previous)
      /\ HandlerIs(cstack, m, L, f.errfunc)
      /\ HooksAre(cstack, m, L, f.allowhook)
      /\ DepthUpTo(cstack)[m] < MaxCCalls + ErrRoom
  <2> HIDE DEF m
  <2> QED
    BY <1>1, <1>2 DEF Lies
<1>6. x \in Seq({"L", "C"}) /\ Len(x) <= Len(o.ci) /\ SubSeq(o.ci, 1, f.ci) = x /\ f.ci = Len(x)
  <2> HIDE DEF m
  <2>1. m \in 0 .. Len(cstack) /\ Len(cstack) \in m .. Len(cstack)
    BY <1>2, <1>3
  <2>2. /\ Len(RunUpTo(cstack, L)[m]) <= Len(RunUpTo(cstack, L)[Len(cstack)])
        /\ SubSeq(RunUpTo(cstack, L)[Len(cstack)], 1, Len(RunUpTo(cstack, L)[m])) = RunUpTo(cstack, L)[m]
    BY <1>3, <2>1, RunGrows
  <2>3. RunUpTo(cstack, L)[m] \in Seq({"L", "C"})
    BY <1>3, <2>1, RunRec
  <2> QED
    BY <1>4, <1>5, <2>2, <2>3
<1>7. /\ f.nC \in Nat /\ f.allowhook \in BOOLEAN /\ f.errfunc \in Result /\ f.previous \in Nat
  BY <1>1, <1>2 DEF Activations
<1> HIDE DEF m, f, o, x
<1>8. /\ cut \in States /\ cut.ci = x /\ cut.nC = f.nC /\ cut.allowhook = f.allowhook
      /\ cut.size = o.size /\ cut.baseC = o.baseC /\ cut.status = o.status /\ cut.filled = o.filled /\ cut.entry = o.entry
  <2>1. cut = [o EXCEPT !.nC = f.nC, !.ci = x, !.allowhook = f.allowhook]
    BY <1>6
  <2> QED
    BY <1>3, <1>6, <1>7, <2>1 DEF States
<1> HIDE DEF cut
<1>9. SizeFine(cut)
  <2>1. SizeFine(o) /\ o.size \in Nat /\ Len(o.ci) \in Nat /\ Len(x) \in Nat
    BY <1>3, <1>6 DEF Fine, States
  <2> QED
    BY <1>6, <1>8, <2>1 DEF SizeFine
<1>10. q \in States /\ SameBut(q, cut) /\ SizeFine(q)
  BY <1>8, <1>9, LimitRestored
<1> HIDE DEF q
<1>11. /\ r \in States /\ r.ci = q.ci /\ r.nC = q.nC /\ r.allowhook = q.allowhook
       /\ r.size = q.size /\ r.baseC = q.baseC /\ r.status = q.status /\ r.filled = q.filled /\ r.entry = q.entry
       /\ r.errfunc = f.errfunc /\ r.errorJmp = f.previous
  BY <1>7, <1>10 DEF States
<1> HIDE DEF r
<1>12. SizeFine(r)
  BY <1>10, <1>11 DEF SizeFine
<1>13. CutDown(cstack, L, m, o, r)
  BY <1>4, <1>5, <1>8, <1>10, <1>11, <1>12 DEF CutDown, SameBut, x
<1> DEFINE u == SubSeq(cstack, 1, m)
<1>14. /\ Steady(u, [th EXCEPT ![L] = r]) /\ Len(u) = m /\ u[m] = cstack[m]
       /\ DepthUpTo(u)[m] = DepthUpTo(cstack)[m]
  BY <1>2, <1>3, <1>5, <1>11, <1>13, CutTo DEF o
<1>u. cstack' = u /\ th' = [th EXCEPT ![L] = r]
  BY <1>1 DEF m
<1> HIDE DEF u
<1>15. ModeFits(u, "run")
  <2>1. DepthUpTo(u)[m] <= MaxCCalls + ErrRoom /\ DepthUpTo(u)[m] < MaxCCalls + ErrRoom
    <3>1. f.nC = DepthUpTo(u)[m]
      BY <1>5, <1>14
    <3> QED
      BY <1>5, <1>7, <1>14, <3>1, Limits
  <2> QED
    BY <1>5, <1>14, <2>1 DEF ModeFits, Calling
<1> QED
  BY <1>1, <1>14, <1>15, <1>u, Kept
(* What no protection, no handler and no hook mean for a thread             *)
Idle(r) == r.errorJmp = 0 /\ r.errfunc = "none" /\ r.allowhook = TRUE

LEMMA NoneIs ==
  ASSUME NEW s, NEW n, NEW t
  PROVE  /\ Own(s, n, t, {"pcall", "resume"}) = {} => (\A v : JumpIs(s, n, t, v) <=> v = 0)
         /\ Own(s, n, t, {"pcall"}) = {} => (\A v : HandlerIs(s, n, t, v) <=> v = "none")
         /\ Own(s, n, t, {"hook", "gctm"}) = {} => (\A v : HooksAre(s, n, t, v) <=> v = TRUE)
<1>1. Own(s, n, t, {"pcall", "resume"}) = {} => (\A v : JumpIs(s, n, t, v) <=> v = 0)
  BY DEF JumpIs
<1>2. Own(s, n, t, {"pcall"}) = {} => (\A v : HandlerIs(s, n, t, v) <=> v = "none")
  BY DEF HandlerIs
<1>3. Own(s, n, t, {"hook", "gctm"}) = {} => (\A v : HooksAre(s, n, t, v) <=> v = TRUE)
  BY DEF HooksAre
<1> QED
  BY <1>1, <1>2, <1>3

LEMMA PanicKeeps ==
  ASSUME IInv, Panic
  PROVE  IInv'
<1> DEFINE o == th[L]
           cut == [o EXCEPT !.status = "error", !.ci = <<>>, !.nC = o.baseC,
                            !.allowhook = TRUE, !.errfunc = "none"]
           r == RestoreStackLimit(cut)
           u == SubSeq(cstack, 1, 1)
<1>1. /\ mode = "throw" /\ Jump = 0 /\ th' = [th EXCEPT ![L] = r]
      /\ cstack' = <<Frame("host", Main)>> /\ mode' = "run"
  BY DEF Panic, Becomes, Put, Outcome
<1>2. /\ Steady(cstack, th) /\ L \in Threads /\ o \in States /\ cstack \in Seq(Activations)
      /\ Fine(cstack, L, o) /\ cstack[Len(cstack)].th = L /\ WellFormed(cstack) /\ cstack # <<>>
      /\ Len(cstack) \in 1 .. Len(cstack)
  BY <1>1, Present
<1>3. Own(cstack, Len(cstack), L, {"pcall", "resume"}) = {} /\ o.errorJmp = 0
  <2>1. JumpIs(cstack, Len(cstack), L, 0) /\ o.errorJmp = 0
    BY <1>1, <1>2 DEF Fine, SavedFine, Jump
  <2>2. 0 \notin Own(cstack, Len(cstack), L, {"pcall", "resume"})
    BY DEF Own
  <2> QED
    BY <2>1, <2>2 DEF JumpIs
<1>4. L = Main
  <2> SUFFICES ASSUME L # Main PROVE FALSE
    OBVIOUS
  <2>1. On(cstack, L)
    BY <1>2 DEF On
  <2>2. PICK k \in 1 .. Len(cstack) : cstack[k].th = L /\ cstack[k].kind = "resume"
    BY <1>2, <2>1, HasResume
  <2>3. k \in Own(cstack, Len(cstack), L, {"pcall", "resume"})
    BY <2>2 DEF Own
  <2> QED
    BY <1>3, <2>3
<1>5. /\ cstack[1] = Frame("host", Main) /\ cstack[1].th = Main /\ cstack[1].kind = "host"
      /\ 1 \in 1 .. Len(cstack)
  BY <1>2, HostFirst DEF Frame
<1>6. u = <<Frame("host", Main)>>
  <2>1. /\ u \in Seq(Activations) /\ Len(u) = 1 /\ \A i \in 1 .. 1 : u[i] = cstack[i]
    BY <1>2, <1>5, CutIs
  <2> HIDE DEF u
  <2>2. u[1] = Frame("host", Main)
    BY <1>5, <2>1
  <2>3. u = <<u[1]>>
    BY <2>1
  <2> QED
    BY <2>2, <2>3
<1>7. o.baseC = 0
  BY <1>2, <1>4 DEF Fine, StatusFine
<1>8. o.size \in Nat /\ o.size <= 2 * MaxCalls /\ Len(o.ci) + 1 <= o.size /\ Len(o.ci) \in Nat
  BY <1>2 DEF Fine, SizeFine, States
<1> HIDE DEF o
<1>9. /\ cut \in States /\ cut.ci = <<>> /\ cut.nC = 0 /\ cut.allowhook = TRUE
      /\ cut.errfunc = "none" /\ cut.status = "error" /\ cut.size = o.size
      /\ cut.baseC = o.baseC /\ cut.errorJmp = 0 /\ cut.entry = o.entry
  <2>1. cut = [o EXCEPT !.status = "error", !.ci = <<>>, !.nC = 0,
                        !.allowhook = TRUE, !.errfunc = "none"]
    BY <1>7
  <2>2. o \in States /\ o.errorJmp = 0 /\ <<>> \in Seq({"L", "C"})
    BY <1>2, <1>3
  <2> HIDE DEF cut
  <2> QED
    BY <2>1, <2>2 DEF States, Result
<1> HIDE DEF cut
<1>10. SizeFine(cut)
  <2>1. Len(cut.ci) = 0
    BY <1>9
  <2> QED
    BY <1>8, <1>9, <2>1 DEF SizeFine
<1>11. r \in States /\ SameBut(r, cut) /\ SizeFine(r)
  BY <1>9, <1>10, LimitRestored
<1> HIDE DEF r
<1>12. DepthUpTo(cstack)[1] = 0 /\ RunUpTo(cstack, L)[1] = <<>>
  <2>1. Adds(cstack[1]) = 0 /\ Shown(cstack[1], L) = <<>>
    BY <1>5 DEF Adds, Shown
  <2>2. DepthUpTo(cstack)[0] = 0 /\ RunUpTo(cstack, L)[0] = <<>>
    BY <1>2, DepthRec, RunRec
  <2>3. DepthUpTo(cstack)[1] = DepthUpTo(cstack)[1 - 1] + Adds(cstack[1])
    BY <1>2, <1>5, DepthRec
  <2>4. RunUpTo(cstack, L)[1] = RunUpTo(cstack, L)[1 - 1] \o Shown(cstack[1], L)
    BY <1>2, <1>5, RunRec
  <2>5. <<>> \o <<>> = <<>> /\ 1 - 1 = 0 /\ 0 + 0 = 0
    OBVIOUS
  <2> QED
    BY <2>1, <2>2, <2>3, <2>4, <2>5
<1>13. JumpIs(cstack, 1, L, 0) /\ HandlerIs(cstack, 1, L, "none") /\ HooksAre(cstack, 1, L, TRUE)
  <2>1. /\ Own(cstack, 1, L, {"pcall", "resume"}) = {} /\ Own(cstack, 1, L, {"pcall"}) = {}
        /\ Own(cstack, 1, L, {"hook", "gctm"}) = {}
    BY <1>5 DEF Own
  <2> QED
    BY <2>1, NoneIs
<1>14. CutDown(cstack, L, 1, o, r)
  BY <1>4, <1>9, <1>11, <1>12, <1>13 DEF CutDown, SameBut
<1>15. /\ Steady(u, [th EXCEPT ![L] = r]) /\ Len(u) = 1 /\ u[1] = cstack[1]
       /\ DepthUpTo(u)[1] = 0
  BY <1>2, <1>4, <1>5, <1>11, <1>12, <1>14, CutTo DEF o
<1> HIDE DEF u
<1>16. ModeFits(u, "run")
  BY <1>5, <1>15, Limits DEF ModeFits, Calling
<1> QED
  BY <1>1, <1>6, <1>15, <1>16, Kept

-----------------------------------------------------------------------------
(* Threads that are not on the C stack, and what a yield leaves of them    *)
Left(r) ==
  /\ r.ci # <<>> /\ Last(r.ci) = "C"
  /\ Len(r.ci) > 1 \/ r.entry = "result"
  /\ \A i \in 1 .. Len(r.ci) - 1 : r.ci[i] = "L"

LEMMA Off ==
  ASSUME NEW s, NEW t, ~ On(s, t), NEW r
  PROVE  Fine(s, t, r) <=>
           /\ r.status = "yield" => Left(r)
           /\ Idle(r) /\ SizeFine(r)
           /\ t = Main => r.baseC = 0 /\ r.status # "yield"
<1>1. \A kinds : Own(s, Len(s), t, kinds) = {}
  BY DEF Own, On
<1>2. SavedFine(s, t, r) <=> Idle(r)
  <2>1. JumpIs(s, Len(s), t, r.errorJmp) <=> r.errorJmp = 0
    BY <1>1 DEF JumpIs
  <2>2. HandlerIs(s, Len(s), t, r.errfunc) <=> r.errfunc = "none"
    BY <1>1 DEF HandlerIs
  <2>3. HooksAre(s, Len(s), t, r.allowhook) <=> r.allowhook = TRUE
    BY <1>1 DEF HooksAre
  <2> QED
    BY <2>1, <2>2, <2>3 DEF SavedFine, Idle
<1>3. \A i \in 1 .. Len(s) : DepthFine(s, i, t, r)
  BY DEF On, DepthFine
<1>4. StatusFine(s, t, r) <=> (t = Main => r.baseC = 0 /\ r.status # "yield")
  BY DEF StatusFine
<1>5. FramesFine(s, t, r) <=>
        (r.status = "yield" => Left(r))
  BY <1>1 DEF FramesFine, Left
<1> QED
  BY <1>2, <1>3, <1>4, <1>5 DEF Fine

LEMMA OffChange ==
  ASSUME NEW s, NEW all, Steady(s, all), NEW t \in Threads, ~ On(s, t),
         NEW r \in States, Fine(s, t, r)
  PROVE  Steady(s, [all EXCEPT ![t] = r])
<1>1. /\ s \in Seq(Activations) /\ s # <<>> /\ all \in [Threads -> States] /\ Fits(s, all)
  BY DEF Fits, Steady
<1>2. /\ Len(s) \in Nat \ {0} /\ Same(s, s, Len(s))
      /\ \A i \in Len(s) + 1 .. Len(s) : s[i].th = t /\ Lies(s[i], s, i - 1)
  BY <1>1 DEF Same
<1>3. Fits(s, [all EXCEPT ![t] = r])
  BY <1>1, <1>2, Change
<1>4. \A x \in Threads : On(s, x) => [all EXCEPT ![t] = r][x].status # "yield"
  BY <1>1 DEF Steady
<1> QED
  BY <1>3, <1>4 DEF Steady

(* lua_resume ends: its activation at k is taken off with all above it.    *)
LEMMA ResumeOff ==
  ASSUME NEW s, NEW all, Fits(s, all), NEW k \in 1 .. Len(s), s[k].kind = "resume",
         NEW t \in Threads, s[k].th = t, s[Len(s)].th = t,
         \A x \in Threads \ {t} : On(s, x) => all[x].status # "yield",
         NEW r \in States, NEW u, u = SubSeq(s, 1, k - 1),
         ~ On(u, t) => Fine(u, t, r)
  PROVE  /\ Steady(u, [all EXCEPT ![t] = r]) /\ ModeFits(u, "run")
         /\ ~ On(u, t) /\ t \in Coros
<1> DEFINE m == k - 1
<1>1. /\ s \in Seq(Activations) /\ s # <<>> /\ all \in [Threads -> States] /\ WellFormed(s)
  BY DEF Fits
<1>2. /\ Lies(s[k], s, m) /\ k \in Nat /\ Len(s) \in Nat
  BY <1>1 DEF WellFormed
<1>3. m \in 1 .. Len(s) /\ m > 0 /\ k = m + 1 /\ m # 0 /\ m \in Nat
  <2>1. m # 0
    BY <1>2 DEF Lies
  <2> QED
    BY <1>2, <2>1
<1> HIDE DEF m
<1>4. /\ s[m].kind = "cfn" /\ t \in Coros /\ \A j \in 1 .. m : s[j].th # t
      /\ DepthUpTo(s)[m] < MaxCCalls + ErrRoom
  BY <1>2, <1>3 DEF Lies
<1>5. u = SubSeq(s, 1, m)
  BY <1>3
<1>6. /\ u \in Seq(Activations) /\ Len(u) = m /\ u # <<>>
      /\ Same(s, u, m) /\ \A i \in 1 .. m : u[i] = s[i]
  BY <1>1, <1>3, <1>5, CutIs
<1>7. ~ On(u, t)
  BY <1>4, <1>6 DEF On
<1>8. Fits(u, [all EXCEPT ![t] = r])
  <2>1. ASSUME NEW i \in m + 1 .. Len(s) PROVE s[i].th = t
    <3>1. i \in k .. Len(s) /\ Len(s) \in k .. Len(s)
      BY <1>2, <1>3
    <3> QED
      BY <1>1, <3>1, Together
  <2>2. \A i \in m + 1 .. Len(u) : u[i].th = t /\ Lies(u[i], u, i - 1)
    BY <1>3, <1>6
  <2>3. m \in Nat \ {0} /\ Fine(u, t, r)
    BY <1>3, <1>7
  <2>4. /\ \A i \in m + 1 .. Len(s) : s[i].th = t
        /\ u \in Seq(Activations) /\ Same(s, u, m) /\ Fits(s, all) /\ t \in Threads /\ r \in States
    BY <1>6, <2>1
  <2> QED
    BY ONLY <2>2, <2>3, <2>4, Change
<1>9. \A x \in Threads : On(u, x) => [all EXCEPT ![t] = r][x].status # "yield"
  <2> SUFFICES ASSUME NEW x \in Threads, On(u, x) PROVE [all EXCEPT ![t] = r][x].status # "yield"
    OBVIOUS
  <2>1. x # t
    BY <1>7
  <2>2. On(s, x)
    BY <1>3, <1>6 DEF On
  <2> QED
    BY <1>1, <2>1, <2>2
<1>10. ModeFits(u, "run")
  <2>1. m \in 0 .. m /\ m \in 1 .. m
    BY <1>3
  <2>2. DepthUpTo(u)[m] = DepthUpTo(s)[m]
    BY <1>1, <1>3, <1>6, <2>1, Agree
  <2>3. DepthUpTo(u)[m] \in Nat /\ u[m].kind = "cfn"
    <3>1. m \in 0 .. Len(u)
      BY <1>6, <2>1
    <3> QED
      BY <1>4, <1>6, <2>1, <3>1, DepthRec
  <2> QED
    BY <1>4, <1>6, <2>2, <2>3, Limits DEF ModeFits, Calling
<1> QED
  BY <1>4, <1>7, <1>8, <1>9, <1>10 DEF Steady

LEMMA NewThreadIs ==
  /\ NewThread \in States /\ Idle(NewThread) /\ SizeFine(NewThread)
  /\ NewThread.status = "ok" /\ NewThread.ci = <<>>
  /\ \A x \in Nat : LET e == [NewThread EXCEPT !.status = "error", !.errorJmp = x]
                    IN  /\ e \in States /\ e.status = "error" /\ e.errorJmp = x
                        /\ x = 0 => Idle(e)
                        /\ SizeFine(e)
<1>1. Len(<<>>) + 1 <= BasicCI /\ BasicCI <= 2 * MaxCalls /\ <<>> \in Seq({"L", "C"}) /\ BasicCI \in Nat
  BY Limits
<1> QED
  BY <1>1 DEF NewThread, States, Idle, SizeFine, Result

LEMMA CoroutineFailsKeeps ==
  ASSUME IInv, CoroutineFails
  PROVE  IInv'
<1> DEFINE k == Jump
           r == [NewThread EXCEPT !.status = "error", !.errorJmp = Target.previous]
           u == SubSeq(cstack, 1, k - 1)
<1>1. /\ mode = "throw" /\ k # 0 /\ Target.kind = "resume"
      /\ th' = [th EXCEPT ![L] = r] /\ cstack' = u /\ mode' = "run"
  BY DEF CoroutineFails, Becomes, Put, Outcome
<1>2. /\ k \in 1 .. Len(cstack) /\ cstack[k].kind = "resume" /\ cstack[k].th = L
      /\ Target.previous = 0
  <2>1. Lies(Target, cstack, Jump - 1)
    BY <1>1, JumpTarget
  <2>2. Target.previous = 0
    BY <1>1, <2>1 DEF Lies
  <2> QED
    BY <1>1, <2>2, JumpTarget
<1>3. /\ Fits(cstack, th) /\ L \in Threads /\ cstack[Len(cstack)].th = L
      /\ \A x \in Threads : On(cstack, x) => th[x].status # "yield"
  BY <1>1, Present DEF Steady
<1>4. r \in States /\ r.status = "error" /\ Idle(r) /\ SizeFine(r)
  <2>1. 0 \in Nat /\ r = [NewThread EXCEPT !.status = "error", !.errorJmp = 0]
    BY <1>2
  <2> QED
    BY <2>1, NewThreadIs
<1> HIDE DEF k, r, u
<1>5. u = SubSeq(cstack, 1, k - 1)
  BY DEF u
<1>6. ~ On(u, L) => Fine(u, L, r)
  <2>1. L # Main
    <3>1. /\ Lies(cstack[k], cstack, k - 1)
      BY <1>2, <1>3 DEF Fits, WellFormed
    <3> QED
      BY <1>2, <3>1, Limits DEF Lies
  <2> QED
    BY <1>4, <2>1, Off
<1>7. Steady(u, [th EXCEPT ![L] = r]) /\ ModeFits(u, "run")
  BY <1>2, <1>3, <1>4, <1>5, <1>6, ResumeOff
<1> QED
  BY <1>1, <1>7, Kept

LEMMA ResumeEnds ==
  ASSUME IInv, Returned("resume"), NEW q, q = Resumed(th[L], Deepest),
         NEW r, r = q \/ r = [q EXCEPT !.filled = TRUE, !.entry = "result"],
         th' = [th EXCEPT ![L] = r], cstack' = Pop, mode' \in {"run", "error"}
  PROVE  IInv'
<1> DEFINE k == Len(cstack)
           o == th[L]
           u == SubSeq(cstack, 1, k - 1)
<1>1. /\ mode = "return" /\ Deepest.kind = "resume"
      /\ q = [o EXCEPT !.errorJmp = Deepest.previous, !.nC = o.nC - 1]
      /\ th' = [th EXCEPT ![L] = r] /\ cstack' = u
  BY DEF Returned, Resumed, Pop, Front
<1>2. /\ k \in 1 .. Len(cstack) /\ cstack[k] = Deepest /\ cstack[k].kind = "resume" /\ cstack[k].th = L
      /\ L \in Threads /\ o \in States /\ Fits(cstack, th) /\ cstack \in Seq(Activations)
      /\ Fine(cstack, L, o) /\ Lies(Deepest, cstack, k - 1) /\ WellFormed(cstack)
      /\ o.nC = DepthUpTo(cstack)[k]
  BY <1>1, Present DEF IInv
<1>3. /\ Deepest.previous = 0 /\ L # Main /\ \A j \in 1 .. k - 1 : cstack[j].th # L
  <2> HIDE DEF k
  <2> QED
    BY <1>1, <1>2, Limits DEF Lies
<1>4. o.nC - 1 \in Nat
  <2>1. DepthUpTo(cstack)[k] = DepthUpTo(cstack)[k - 1] + Adds(cstack[k])
    BY <1>2, DepthRec
  <2>2. Adds(cstack[k]) = 1
    BY <1>2 DEF Adds
  <2>3. DepthUpTo(cstack)[k - 1] \in Nat
    <3>1. k - 1 \in 0 .. Len(cstack)
      BY <1>2
    <3> QED
      BY <1>2, <3>1, DepthRec
  <2> QED
    BY <1>2, <2>1, <2>2, <2>3
<1>5. o.errfunc = "none" /\ o.allowhook = TRUE
  <2>1. \A kinds : "resume" \notin kinds => Own(cstack, k, L, kinds) = {}
    BY <1>2, <1>3 DEF Own
  <2>2. HandlerIs(cstack, k, L, o.errfunc) /\ HooksAre(cstack, k, L, o.allowhook)
    BY <1>2 DEF Fine, SavedFine
  <2>3. Own(cstack, k, L, {"pcall"}) = {} /\ Own(cstack, k, L, {"hook", "gctm"}) = {}
    BY <2>1
  <2> QED
    BY <2>2, <2>3 DEF HandlerIs, HooksAre
<1>6. o.status = "yield" => Left(o)
  BY <1>2 DEF Fine, FramesFine, Left
<1>7. SizeFine(o)
  BY <1>2 DEF Fine
<1>8. \A x \in Threads \ {L} : On(cstack, x) => th[x].status # "yield"
  BY <1>2 DEF IInv, YieldFits
<1> HIDE DEF o
<1>9. /\ r \in States /\ r.status = o.status /\ r.ci = o.ci /\ r.size = o.size
      /\ r.errorJmp = 0 /\ r.errfunc = o.errfunc /\ r.allowhook = o.allowhook
      /\ r.entry = o.entry \/ r.entry = "result"
  <2>1. q = [o EXCEPT !.errorJmp = 0, !.nC = o.nC - 1] /\ o \in States
    BY <1>1, <1>2, <1>3
  <2>2. /\ q \in States /\ q.status = o.status /\ q.ci = o.ci /\ q.size = o.size
        /\ q.errorJmp = 0 /\ q.errfunc = o.errfunc /\ q.allowhook = o.allowhook
        /\ q.entry = o.entry
    BY ONLY <1>4, <2>1 DEF States
  <2> QED
    BY <2>2 DEF States
<1> HIDE DEF k, u
<1>10. ~ On(u, L) => Fine(u, L, r)
  <2>1. SizeFine(r) /\ Idle(r)
    BY <1>5, <1>7, <1>9 DEF SizeFine, Idle
  <2>2. r.status = "yield" => Left(r)
    BY <1>6, <1>9 DEF Left
  <2> QED
    BY <1>3, <2>1, <2>2, Off
<1>11. u = SubSeq(cstack, 1, k - 1) /\ cstack[Len(cstack)].th = L
  BY <1>2 DEF u, k
<1>12. Steady(u, [th EXCEPT ![L] = r]) /\ ModeFits(u, "run")
  BY <1>2, <1>8, <1>9, <1>10, <1>11, ResumeOff
<1>13. ModeFits(u, mode')
  BY <1>12 DEF ModeFits
<1> QED
  BY <1>1, <1>12, <1>13, Kept

LEMMA ResumeReturnsKeeps ==
  ASSUME IInv, ResumeReturns
  PROVE  IInv'
<1>1. /\ Returned("resume") /\ th' = [th EXCEPT ![L] = Resumed(th[L], Deepest)]
      /\ cstack' = Pop /\ mode' = "run"
  BY DEF ResumeReturns, Becomes, Put, Outcome
<1> QED
  BY <1>1, ResumeEnds

LEMMA TooManyResultsKeeps ==
  ASSUME IInv, TooManyResults
  PROVE  IInv'
<1> DEFINE q == Resumed(th[L], Deepest)
           r == IF q.status = "ok" THEN [q EXCEPT !.filled = TRUE, !.entry = "result"] ELSE q
<1>1. /\ Returned("resume") /\ th' = [th EXCEPT ![L] = r]
      /\ cstack' = Pop /\ mode' = "error"
  BY DEF TooManyResults, Becomes, Put, Outcome
<1>2. r = q \/ r = [q EXCEPT !.filled = TRUE, !.entry = "result"]
  OBVIOUS
<1> HIDE DEF q, r
<1>3. q = Resumed(th[L], Deepest)
  BY DEF q
<1> QED
  BY <1>1, <1>2, <1>3, ResumeEnds
-----------------------------------------------------------------------------
(* Coroutines: what is not running or normal is not on the C stack.        *)
LEMMA NotOn ==
  ASSUME IInv, Running({"cfn"}), NEW co \in Coros, CoStatus(L, co) \in {"dead", "suspended"}
  PROVE  /\ ~ On(cstack, co) /\ co # L /\ co \in Threads /\ co # Main /\ th[co] \in States
         /\ Fine(cstack, co, th[co]) /\ Idle(th[co]) /\ SizeFine(th[co])
<1>1. co \in Threads /\ co # Main
  BY Limits
<1>2. co # L
  BY DEF CoStatus
<1>3. /\ Steady(cstack, th) /\ cstack \in Seq(Activations) /\ WellFormed(cstack)
      /\ cstack[Len(cstack)].th = L /\ Fine(cstack, co, th[co]) /\ th[co] \in States
  BY <1>1, Present DEF Running
<1>4. ~ On(cstack, co)
  <2> SUFFICES ASSUME On(cstack, co) PROVE FALSE
    OBVIOUS
  <2>1. RunUpTo(cstack, co)[Len(cstack)] # <<>>
    BY <1>2, <1>3, ResumesFromC
  <2>2. th[co].status # "yield"
    BY <1>1, <1>3 DEF Steady
  <2>3. th[co].status # "error"
    BY <1>1, <1>3 DEF Fine, StatusFine
  <2>4. th[co].status = "ok"
    BY <1>3, <2>2, <2>3 DEF States
  <2>5. th[co].ci # <<>>
    BY <1>3, <2>1, <2>2 DEF Fine, FramesFine
  <2>6. CoStatus(L, co) = "normal"
    BY <1>2, <2>4, <2>5 DEF CoStatus
  <2> QED
    BY <2>6
<1>5. Idle(th[co]) /\ SizeFine(th[co])
  BY <1>3, <1>4, Off
<1> QED
  BY <1>1, <1>2, <1>3, <1>4, <1>5

LEMMA OffKeeps ==
  ASSUME IInv, Running({"cfn"}), NEW co \in Coros, CoStatus(L, co) \in {"dead", "suspended"},
         NEW r \in States, ~ On(cstack, co) => Fine(cstack, co, r),
         th' = [th EXCEPT ![co] = r], UNCHANGED <<cstack, mode>>
  PROVE  IInv'
<1>1. Steady(cstack, th) /\ ModeFits(cstack, mode)
  BY Present DEF Running, IInv
<1>2. Steady(cstack, [th EXCEPT ![co] = r])
  BY <1>1, NotOn, OffChange
<1>3. cstack' = cstack /\ mode' = mode
  OBVIOUS
<1> QED
  BY <1>1, <1>2, <1>3, Kept

LEMMA CreateKeeps ==
  ASSUME IInv, NEW co \in Coros, Create(co)
  PROVE  IInv'
<1>1. /\ Running({"cfn"}) /\ CoStatus(L, co) \in {"dead", "suspended"}
      /\ th' = [th EXCEPT ![co] = NewThread] /\ UNCHANGED <<cstack, mode>>
  BY DEF Create, Put
<1>2. ~ On(cstack, co) => Fine(cstack, co, NewThread)
  <2> DEFINE r == NewThread
  <2>1. r.status = "ok" /\ Idle(r) /\ SizeFine(r) /\ co # Main
    BY NewThreadIs, Limits
  <2> HIDE DEF r
  <2>2. ~ On(cstack, co) => Fine(cstack, co, r)
    BY <2>1, Off
  <2> QED
    BY <2>2 DEF r
<1> QED
  BY <1>1, <1>2, NewThreadIs, OffKeeps

LEMMA ResumeTooDeepKeeps ==
  ASSUME IInv, NEW co \in Coros, ResumeTooDeep(co)
  PROVE  IInv'
<1> DEFINE o == th[co]
           r == [o EXCEPT !.nC = th[L].nC, !.filled = FALSE]
<1>1. /\ Running({"cfn"}) /\ CoStatus(L, co) \in {"dead", "suspended"}
      /\ th' = [th EXCEPT ![co] = r] /\ UNCHANGED <<cstack, mode>>
  BY DEF ResumeTooDeep, Resumable, Put
<1>2. ~ On(cstack, co) /\ o \in States /\ Fine(cstack, co, o) /\ co # Main
  BY <1>1, NotOn
<1>3. th[L].nC \in Nat
  <2>1. th[L] \in States
    BY Present
  <2> QED
    BY <2>1 DEF States
<1> HIDE DEF o
<1>4. /\ r \in States /\ r.status = o.status /\ r.ci = o.ci /\ r.size = o.size
      /\ r.errorJmp = o.errorJmp /\ r.errfunc = o.errfunc /\ r.allowhook = o.allowhook
      /\ r.entry = o.entry
  BY <1>2, <1>3 DEF States
<1> HIDE DEF r
<1>5. SizeFine(o) => SizeFine(r)
  BY <1>4 DEF SizeFine
<1>6. (Idle(o) => Idle(r)) /\ (Left(o) => Left(r))
  BY <1>4 DEF Idle, Left
<1>7. Fine(cstack, co, r)
  BY <1>2, <1>4, <1>5, <1>6, Off
<1> QED
  BY <1>1, <1>4, <1>7, OffKeeps

(* lua_resume enters: its activation is the first of the coroutine.         *)
ResumedAs(r, d, jump) ==
  /\ r.ci = <<>> /\ r.nC = d + 1 /\ r.baseC = d + 1 /\ r.status = "ok" /\ ~ r.filled
  /\ r.errorJmp = jump /\ r.errfunc = "none" /\ r.allowhook = TRUE /\ SizeFine(r)

LEMMA ResumePush ==
  ASSUME NEW s, NEW all, Steady(s, all), s[Len(s)].kind = "cfn",
         DepthUpTo(s)[Len(s)] < MaxCCalls,
         NEW t \in Coros, ~ On(s, t), NEW f, f = [kind |-> "resume", th |-> t, previous |-> 0],
         NEW r \in States, ResumedAs(r, DepthUpTo(s)[Len(s)], Len(s) + 1)
  PROVE  /\ Steady(Append(s, f), [all EXCEPT ![t] = r])
         /\ DepthUpTo(Append(s, f))[Len(s) + 1] = DepthUpTo(s)[Len(s)] + 1
<1> DEFINE n == Len(s)
           u == Append(s, f)
           d == DepthUpTo(s)[n]
<1>1. /\ s \in Seq(Activations) /\ s # <<>> /\ all \in [Threads -> States] /\ WellFormed(s)
      /\ Fits(s, all)
  BY DEF Fits, Steady
<1>2. t \in Threads /\ t # Main
  BY Limits
<1>3. /\ f \in Activations /\ f.kind = "resume" /\ f.th = t /\ f.previous = 0
      /\ Adds(f) = 1 /\ Shown(f, t) = <<>>
  BY <1>2 DEF Activations, Adds, Shown
<1>4. /\ n \in Nat \ {0} /\ u \in Seq(Activations) /\ Len(u) = n + 1 /\ u[n + 1] = f
      /\ \A i \in 1 .. n : u[i] = s[i]
  BY <1>1, <1>3
<1>5. d \in Nat
  <2>1. n \in 0 .. Len(s)
    BY <1>1
  <2> QED
    BY <1>1, <2>1, DepthRec
<1>6. \A j \in 1 .. n : s[j].th # t
  BY DEF On
<1>7. d < MaxCCalls /\ s[n].kind = "cfn" /\ ResumedAs(r, d, n + 1)
  OBVIOUS
<1>n. n = Len(s)
  OBVIOUS
<1> HIDE DEF n, u, d
<1>8. Same(s, u, n) /\ n \in 0 .. n /\ n + 1 \in 1 .. Len(u) /\ (n + 1) - 1 = n /\ n \in Nat
  BY <1>4, <1>n DEF Same
<1>9. Lies(f, u, n)
  <2>1. Lies(f, s, n)
    <3>1. d < MaxCCalls + ErrRoom
      BY <1>5, <1>7, Limits
    <3> QED
      BY <1>3, <1>4, <1>6, <1>7, <3>1 DEF Lies, d
  <2> QED
    BY <1>1, <1>4, <1>8, <2>1, LiesAgree
<1>10. DepthUpTo(u)[n + 1] = d + 1
  <2>1. DepthUpTo(u)[n + 1] = DepthUpTo(u)[(n + 1) - 1] + Adds(u[n + 1])
    BY <1>4, <1>8, DepthRec
  <2>2. DepthUpTo(u)[n] = DepthUpTo(s)[n]
    BY <1>1, <1>4, <1>8, Agree
  <2> QED
    BY <1>3, <1>4, <1>8, <2>1, <2>2 DEF d
<1>11. FramesFine(u, t, r)
  <2>1. 0 \in 0 .. Len(u) /\ Len(u) \in 0 .. Len(u)
    BY <1>4
  <2>2. \A k \in 0 + 1 .. Len(u) : u[k].th = t => u[k].kind \notin Code
    BY <1>3, <1>4, <1>6 DEF Code
  <2>3. RunUpTo(u, t)[Len(u)] = RunUpTo(u, t)[0]
    BY <1>4, <2>1, <2>2, RunSkips
  <2>4. RunUpTo(u, t)[0] = <<>>
    BY <1>4, RunRec
  <2> QED
    BY <1>7, <2>3, <2>4 DEF FramesFine, ResumedAs
<1>12. SavedFine(u, t, r)
  <2>1. Own(u, n + 1, t, {"pcall"}) = {} /\ Own(u, n + 1, t, {"hook", "gctm"}) = {}
    BY <1>3, <1>4, <1>6 DEF Own
  <2>2. HandlerIs(u, n + 1, t, "none") /\ HooksAre(u, n + 1, t, TRUE)
    BY <2>1 DEF HandlerIs, HooksAre
  <2>3. JumpIs(u, n + 1, t, n + 1)
    <3> DEFINE i == n + 1
    <3>1. i \in 1 .. Len(u) /\ u[i].th = t /\ u[i].kind \in {"pcall", "resume"}
      BY <1>3, <1>4, <1>8
    <3> HIDE DEF i
    <3>2. JumpIs(u, i, t, i)
      BY <1>4, <3>1, SavedStep
    <3> QED
      BY <3>2 DEF i
  <2> QED
    BY <1>4, <1>7, <2>2, <2>3 DEF SavedFine, ResumedAs
<1>13. \A i \in 1 .. Len(u) : DepthFine(u, i, t, r)
  <2> SUFFICES ASSUME NEW i \in 1 .. Len(u), u[i].th = t PROVE DepthFine(u, i, t, r)
    BY DEF DepthFine
  <2>1. i = n + 1 /\ u[i] = f
    BY <1>4, <1>6
  <2> QED
    BY <1>3, <1>7, <1>10, <2>1 DEF DepthFine, ResumedAs, EntryFits
<1>14. Fine(u, t, r)
  BY <1>2, <1>7, <1>11, <1>12, <1>13 DEF Fine, StatusFine, ResumedAs
<1>15. Fits(u, [all EXCEPT ![t] = r])
  <2>1. \A i \in n + 1 .. Len(s) : s[i].th = t
    BY <1>4, <1>n
  <2>2. \A i \in n + 1 .. Len(u) : u[i].th = t /\ Lies(u[i], u, i - 1)
    <3> SUFFICES ASSUME NEW i \in n + 1 .. Len(u) PROVE u[i].th = t /\ Lies(u[i], u, i - 1)
      OBVIOUS
    <3>1. i = n + 1 /\ u[i] = f /\ i - 1 = n
      BY <1>4
    <3> QED
      BY <1>3, <1>9, <3>1
  <2> QED
    BY ONLY <1>1, <1>2, <1>4, <1>8, <1>14, <2>1, <2>2, r \in States, Change
<1>16. \A x \in Threads : On(u, x) => [all EXCEPT ![t] = r][x].status # "yield"
  <2> SUFFICES ASSUME NEW x \in Threads, On(u, x) PROVE [all EXCEPT ![t] = r][x].status # "yield"
    OBVIOUS
  <2>1. CASE x = t
    BY <1>1, <1>2, <1>7, <2>1 DEF ResumedAs
  <2>2. CASE x # t
    <3>1. On(s, x)
      BY <1>3, <1>4, <1>n, <2>2 DEF On
    <3> QED
      BY <1>1, <2>2, <3>1 DEF Steady
  <2> QED
    BY <2>1, <2>2
<1> QED
  BY <1>10, <1>15, <1>16, <1>n DEF Steady, u, d

(* What auxresume and lua_resume find                                      *)
LEMMA ResumeFinds ==
  ASSUME IInv, NEW co \in Coros, Resumable(co), th[L].nC < MaxCCalls
  PROVE  LET r == [Entered(co) EXCEPT !.ci = <<>>]
             f == [kind |-> "resume", th |-> co, previous |-> 0]
             u == Append(cstack, f)
         IN  /\ UnderResume(co) = u /\ Steady(u, [th EXCEPT ![co] = r])
             /\ r \in States /\ r.nC \in Nat /\ r.nC < MaxCCalls + ErrRoom
             /\ DepthUpTo(u)[Len(u)] = r.nC /\ r.entry = th[co].entry
             /\ u \in Seq(Activations) /\ u[Len(u)] = f /\ Len(u) > 0 /\ Len(u) \in Nat
<1> DEFINE n == Len(cstack)
           o == th[co]
           d == DepthUpTo(cstack)[n]
           e == [o EXCEPT !.nC = d + 1, !.baseC = d + 1, !.errorJmp = n + 1,
                          !.filled = FALSE, !.status = "ok"]
           r == [e EXCEPT !.ci = <<>>]
           f == [kind |-> "resume", th |-> co, previous |-> 0]
           u == Append(cstack, f)
<1>1. Running({"cfn"}) /\ CoStatus(L, co) \in {"dead", "suspended"}
  BY DEF Resumable
<1>2. /\ ~ On(cstack, co) /\ o \in States /\ Idle(o) /\ SizeFine(o) /\ co \in Threads
  BY <1>1, NotOn
<1>3. /\ Steady(cstack, th) /\ cstack[n].kind = "cfn" /\ th[L].nC = d /\ d \in Nat
      /\ cstack \in Seq(Activations) /\ n \in Nat
  BY <1>1, Present DEF Running
<1>4. UnderResume(co) = u
  BY <1>2 DEF UnderResume, Idle
<1>5. Entered(co) = e
  BY <1>3 DEF Entered
<1>6. d < MaxCCalls
  BY <1>3
<1>7. n + 1 \in Nat /\ d + 1 \in Nat /\ <<>> \in Seq({"L", "C"}) /\ Len(<<>>) = 0
  BY <1>3
<1> HIDE DEF n, o, d
<1>8. /\ e \in States /\ e.nC = d + 1 /\ e.baseC = d + 1 /\ e.status = "ok" /\ ~ e.filled
      /\ e.errorJmp = n + 1 /\ e.errfunc = o.errfunc /\ e.allowhook = o.allowhook
      /\ e.size = o.size /\ e.ci = o.ci /\ e.entry = o.entry
  BY <1>2, <1>7 DEF States
<1> HIDE DEF e
<1>9. /\ r \in States /\ r.nC = d + 1 /\ r.baseC = d + 1 /\ r.status = "ok" /\ ~ r.filled
      /\ r.errorJmp = n + 1 /\ r.errfunc = e.errfunc /\ r.allowhook = e.allowhook
      /\ r.size = e.size /\ r.ci = <<>> /\ r.entry = e.entry
  BY <1>7, <1>8 DEF States
<1>r. r = [Entered(co) EXCEPT !.ci = <<>>]
  BY <1>5
<1> HIDE DEF r
<1>10. ResumedAs(r, d, n + 1)
  <2>1. Len(o.ci) \in Nat /\ o.size \in Nat /\ Len(o.ci) + 1 <= o.size /\ o.size <= 2 * MaxCalls
    BY <1>2 DEF SizeFine, States
  <2>2. Len(r.ci) = 0
    BY <1>7, <1>9
  <2>3. SizeFine(r)
    BY <1>8, <1>9, <2>1, <2>2 DEF SizeFine
  <2> QED
    BY <1>2, <1>8, <1>9, <2>3 DEF ResumedAs, Idle
<1>f. f = [kind |-> "resume", th |-> co, previous |-> 0]
  OBVIOUS
<1>11. f \in Activations
  BY <1>2 DEF Activations
<1> HIDE DEF f
<1>12. u \in Seq(Activations) /\ Len(u) = n + 1 /\ u[n + 1] = f /\ Len(u) > 0 /\ Len(u) \in Nat
  BY <1>3, <1>11 DEF n
<1>13. /\ Steady(Append(cstack, f), [th EXCEPT ![co] = r])
       /\ DepthUpTo(Append(cstack, f))[Len(cstack) + 1] = DepthUpTo(cstack)[Len(cstack)] + 1
  BY <1>2, <1>3, <1>6, <1>9, <1>10, <1>f, ResumePush DEF n, d
<1>14. r.nC < MaxCCalls + ErrRoom
  BY <1>3, <1>6, <1>9, Limits
<1>15. DepthUpTo(u)[Len(u)] = r.nC
  BY <1>9, <1>12, <1>13 DEF n, d
<1> HIDE DEF u
<1>16. /\ UnderResume(co) = u /\ Steady(u, [th EXCEPT ![co] = r])
       /\ r \in States /\ r.nC \in Nat /\ r.nC < MaxCCalls + ErrRoom
       /\ DepthUpTo(u)[Len(u)] = r.nC /\ r.entry = o.entry
       /\ u \in Seq(Activations) /\ u[Len(u)] = f /\ Len(u) > 0 /\ Len(u) \in Nat
  BY <1>4, <1>8, <1>7, <1>9, <1>12, <1>13, <1>14, <1>15 DEF u
<1> QED
  BY <1>16, <1>r DEF u, f, o

(* A coroutine that has not yielded has no CallInfos.                      *)
LEMMA EnteredIs ==
  ASSUME IInv, NEW co \in Coros, Resumable(co), th[co].status = "ok"
  PROVE  [Entered(co) EXCEPT !.ci = <<>>] = Entered(co)
<1> DEFINE e == Entered(co)
           r == [e EXCEPT !.ci = <<>>]
<1>1. Running({"cfn"}) /\ CoStatus(L, co) = "suspended"
  BY DEF Resumable
<1>2. co # L /\ th[co] \in States
  BY <1>1, NotOn
<1>3. th[co].ci = <<>>
  BY <1>1, <1>2 DEF CoStatus
<1>4. th[L].nC + 1 \in Nat /\ Len(cstack) + 1 \in Nat
  <2>1. th[L] \in States /\ Len(cstack) \in Nat
    BY Present
  <2> QED
    BY <2>1 DEF States
<1>5. e \in States /\ e.ci = <<>>
  BY <1>2, <1>3, <1>4 DEF Entered, States
<1> HIDE DEF e
<1>6. r = e
  BY <1>5 DEF States
<1> QED
  BY <1>6 DEF e

LEMMA StartedKeeps ==
  ASSUME IInv, NEW co \in Coros, Resumable(co), th[L].nC < MaxCCalls, th[co].status = "ok",
         NEW a \in {"L", "C"}, a = "C" => th[co].entry = "result",
         Becomes(co, Precall(Entered(co), UnderResume(co), a,
                             Append(UnderResume(co), Activation(co, a))))
  PROVE  IInv'
<1> DEFINE e == Entered(co)
           r == [e EXCEPT !.ci = <<>>]
           f == [kind |-> "resume", th |-> co, previous |-> 0]
           u == Append(cstack, f)
           g == Activation(co, a)
           all == [th EXCEPT ![co] = r]
           o == Precall(e, u, a, Append(u, g))
<1>1. Resumable(co) /\ th[L].nC < MaxCCalls /\ th[co].status = "ok"
  OBVIOUS
<1>2. /\ UnderResume(co) = u /\ Steady(u, all)
      /\ r \in States /\ r.nC \in Nat /\ r.nC < MaxCCalls + ErrRoom
      /\ DepthUpTo(u)[Len(u)] = r.nC /\ r.entry = th[co].entry
      /\ u \in Seq(Activations) /\ u[Len(u)] = f /\ Len(u) > 0 /\ Len(u) \in Nat
  BY <1>1, ResumeFinds
<1>3. th' = [th EXCEPT ![co] = o.r] /\ cstack' = o.stack /\ mode' = o.m
  BY <1>2 DEF Becomes, Put
<1>4. r = e
  BY <1>1, EnteredIs
<1>5. co \in Threads /\ th \in [Threads -> States]
  BY Limits, Present
<1>6. /\ g.th = co /\ f.kind = "resume" /\ f.th = co
      /\ a = "L" => g.kind = "exec" /\ g.n = 1
      /\ a = "C" => g.kind = "cfn"
  BY DEF Activation, Counted, Frame
<1>o. o = Precall(e, u, a, Append(u, g))
  OBVIOUS
<1> HIDE DEF e, r, f, u, all, o
<1>7. all[co] = e /\ \A x : [all EXCEPT ![co] = x] = [th EXCEPT ![co] = x]
  BY <1>4, <1>5 DEF all
<1>g. g = Activation(co, a)
  OBVIOUS
<1> HIDE DEF g
<1>8. Lies(g, u, Len(u)) /\ EntryFits(g, u[Len(u)], all[co])
  <2>1. CASE a = "L"
    BY <1>2, <1>6, <2>1 DEF Lies, EntryFits
  <2>2. CASE a = "C"
    BY <1>2, <1>4, <1>6, <1>7, <2>2 DEF Lies, EntryFits
  <2> QED
    BY <2>1, <2>2
<1>9. o = Precall(all[co], u, a, Append(u, g))
  BY <1>7, <1>o
<1>10. Steady(o.stack, [all EXCEPT ![co] = o.r]) /\ ModeFits(o.stack, o.m)
  <2>1. DepthUpTo(u)[Len(u)] < MaxCCalls + ErrRoom
    BY <1>2
  <2> QED
    BY <1>2, <1>5, <1>8, <1>9, <1>g, <2>1, PrecallPushes
<1> QED
  BY <1>3, <1>7, <1>10, Kept

LEMMA StartKeeps ==
  ASSUME IInv, NEW co \in Coros, Start(co)
  PROVE  IInv'
<1>1. /\ Resumable(co) /\ th[L].nC < MaxCCalls /\ th[co].status = "ok"
      /\ \E f \in IF th[co].entry = "body" THEN {"L"} ELSE {"L", "C"} :
           Becomes(co, Precall(Entered(co), UnderResume(co), f,
                               Append(UnderResume(co), Activation(co, f))))
  BY DEF Start
<1>2. PICK a \in {"L", "C"} :
        /\ a = "C" => th[co].entry # "body"
        /\ Becomes(co, Precall(Entered(co), UnderResume(co), a,
                               Append(UnderResume(co), Activation(co, a))))
  BY <1>1
<1>3. th[co].entry \in {"body", "result"}
  BY Limits, Present DEF States
<1> QED
  BY <1>1, <1>2, <1>3, StartedKeeps

LEMMA NotCallableKeeps ==
  ASSUME IInv, NEW co \in Coros, NotCallable(co)
  PROVE  IInv'
<1> DEFINE e == Entered(co)
           r == [e EXCEPT !.ci = <<>>]
           f == [kind |-> "resume", th |-> co, previous |-> 0]
           u == Append(cstack, f)
<1>1. Resumable(co) /\ th[L].nC < MaxCCalls /\ th[co].status = "ok"
  BY DEF NotCallable
<1>2. /\ UnderResume(co) = u /\ Steady(u, [th EXCEPT ![co] = r])
      /\ r.nC \in Nat /\ r.nC < MaxCCalls + ErrRoom
      /\ DepthUpTo(u)[Len(u)] = r.nC
  BY <1>1, ResumeFinds
<1>3. th' = [th EXCEPT ![co] = e] /\ cstack' = u /\ mode' = "error"
  BY <1>2 DEF NotCallable, Becomes, Put, Outcome
<1>4. r = e
  BY <1>1, EnteredIs
<1> HIDE DEF u, r, e
<1>5. ModeFits(u, "error")
  BY <1>2, Limits DEF ModeFits
<1> QED
  BY <1>2, <1>3, <1>4, <1>5, Kept

(* A suspended coroutine is Lua functions up to the C function that yielded. *)
LEMMA LuasOf ==
  ASSUME NEW x \in Seq({"L", "C"}), Len(x) > 1, \A i \in 1 .. Len(x) - 1 : x[i] = "L"
  PROVE  /\ Front(x) \in Seq({"L", "C"}) /\ Front(x) = Luas(Len(Front(x)))
         /\ Len(Front(x)) = Len(x) - 1 /\ Len(Front(x)) \in Nat /\ Len(Front(x)) > 0
<1> DEFINE y == SubSeq(x, 1, Len(x) - 1)
<1>1. y \in Seq({"L", "C"}) /\ Len(y) = Len(x) - 1 /\ \A i \in 1 .. Len(y) : y[i] = x[i]
  OBVIOUS
<1>2. Front(x) = y
  BY DEF Front
<1> HIDE DEF y
<1>3. Len(y) \in Nat /\ Len(y) > 0
  BY <1>1
<1>4. y = Luas(Len(y))
  <2> DEFINE z == Luas(Len(y))
  <2>1. z \in Seq({"L", "C"}) /\ Len(z) = Len(y) /\ \A i \in 1 .. Len(y) : z[i] = "L"
    BY <1>3 DEF Luas
  <2>2. \A i \in 1 .. Len(y) : y[i] = z[i]
    BY <1>1, <2>1
  <2> HIDE DEF z
  <2>3. y = z
    BY <1>1, <2>1, <2>2
  <2> QED
    BY <2>3 DEF z
<1> QED
  BY <1>1, <1>2, <1>3, <1>4

LEMMA ContinueKeeps ==
  ASSUME IInv, NEW co \in Coros, Continue(co)
  PROVE  IInv'
<1> DEFINE e == Entered(co)
           r0 == [e EXCEPT !.ci = <<>>]
           r == [e EXCEPT !.ci = Front(e.ci)]
           f == [kind |-> "resume", th |-> co, previous |-> 0]
           u == Append(cstack, f)
           g == Counted("exec", co, Len(r.ci))
           all == [th EXCEPT ![co] = r0]
           c == th[co].ci
<1>1. Resumable(co) /\ th[L].nC < MaxCCalls /\ th[co].status = "yield" /\ Len(th[co].ci) > 1
  BY DEF Continue
<1>2. /\ UnderResume(co) = u /\ Steady(u, all)
      /\ r0 \in States /\ r0.nC \in Nat /\ r0.nC < MaxCCalls + ErrRoom
      /\ DepthUpTo(u)[Len(u)] = r0.nC
      /\ u \in Seq(Activations) /\ u[Len(u)] = f /\ Len(u) > 0 /\ Len(u) \in Nat
  BY <1>1, ResumeFinds
<1>3. th' = [th EXCEPT ![co] = r] /\ cstack' = Append(u, g) /\ mode' = "run"
  BY <1>2 DEF Continue, Becomes, Put, Outcome
<1>4. co \in Threads /\ th \in [Threads -> States]
  BY Limits, Present
<1>5. /\ th[co] \in States /\ c \in Seq({"L", "C"}) /\ Len(c) > 1
      /\ \A i \in 1 .. Len(c) - 1 : c[i] = "L"
      /\ Len(c) + 1 <= th[co].size /\ th[co].size <= 2 * MaxCalls /\ th[co].size \in Nat
  <2>1. Running({"cfn"}) /\ CoStatus(L, co) \in {"dead", "suspended"}
    BY <1>1 DEF Resumable
  <2>2. th[co] \in States /\ Fine(cstack, co, th[co]) /\ SizeFine(th[co])
    BY <2>1, NotOn
  <2> QED
    BY <1>1, <2>2 DEF Fine, FramesFine, SizeFine, States
<1>6. /\ Front(c) \in Seq({"L", "C"}) /\ Front(c) = Luas(Len(Front(c)))
      /\ Len(Front(c)) = Len(c) - 1 /\ Len(Front(c)) \in Nat /\ Len(Front(c)) > 0
  <2> HIDE DEF c
  <2> QED
    BY <1>5, LuasOf
<1>7. /\ e \in States /\ e.ci = c /\ e.size = th[co].size
  <2>1. th[L].nC + 1 \in Nat /\ Len(cstack) + 1 \in Nat
    <3>1. th[L] \in States /\ Len(cstack) \in Nat
      BY Present
    <3> QED
      BY <3>1 DEF States
  <2> QED
    BY <1>5, <2>1 DEF Entered, States
<1>f. f.kind = "resume" /\ f.th = co
  OBVIOUS
<1> HIDE DEF e, c, f, u
<1>8. /\ r0.ci = <<>> /\ r0.nC = e.nC /\ r0.baseC = e.baseC /\ r0.status = e.status
      /\ r0.filled = e.filled /\ r0.entry = e.entry /\ r0.errorJmp = e.errorJmp /\ r0.errfunc = e.errfunc
      /\ r0.allowhook = e.allowhook /\ r0.size = e.size
  BY <1>7 DEF States
<1>9. /\ r \in States /\ r.ci = Front(c) /\ r.nC = e.nC /\ r.baseC = e.baseC /\ r.status = e.status
      /\ r.filled = e.filled /\ r.entry = e.entry /\ r.errorJmp = e.errorJmp /\ r.errfunc = e.errfunc
      /\ r.allowhook = e.allowhook /\ r.size = e.size
  <2>1. r = [e EXCEPT !.ci = Front(c)]
    BY <1>7
  <2> HIDE DEF r
  <2> QED
    BY <1>6, <1>7, <2>1 DEF States
<1> HIDE DEF r0, r
<1>10. /\ g \in Activations /\ g.th = co /\ g.kind = "exec" /\ g.n = Len(Front(c)) /\ g.n > 0
       /\ Adds(g) = 0
  BY <1>4, <1>6, <1>9 DEF Counted, Activations, Adds
<1>g. Append(u, g)[Len(u) + 1] = g /\ Len(Append(u, g)) = Len(u) + 1
  BY <1>2, <1>10
<1> HIDE DEF g
<1>11. Shown(g, co) = Front(c)
  <2>1. Shown(g, co) = Luas(g.n)
    BY <1>10 DEF Shown, Luas
  <2> QED
    BY <1>6, <1>10, <2>1
<1>12. all[co] = r0 /\ \A x : [all EXCEPT ![co] = x] = [th EXCEPT ![co] = x]
  BY <1>4
<1> HIDE DEF all
<1>13. Lies(g, u, Len(u))
  BY <1>2, <1>10, <1>f DEF Lies
<1>14. SizeFine(r)
  <2>1. Len(r.ci) = Len(c) - 1 /\ r.size = th[co].size /\ Len(c) \in Nat
    BY <1>5, <1>6, <1>7, <1>9
  <2> QED
    BY <1>5, <2>1 DEF SizeFine
<1>15. Pushed(g, r0, r, Len(u) + 1)
  <2>1. <<>> \o Front(c) = Front(c)
    BY <1>6
  <2>2. r0.nC + 0 = r0.nC
    BY <1>2
  <2>3. r.ci = r0.ci \o Shown(g, g.th) /\ r.nC = r0.nC + Adds(g)
    BY <1>8, <1>9, <1>10, <1>11, <2>1, <2>2
  <2>4. g.kind # "pcall" /\ ~ (g.kind \in {"hook", "gctm"})
    BY <1>10
  <2> QED
    BY <1>8, <1>9, <1>14, <2>3, <2>4 DEF Pushed
<1>16. /\ Steady(Append(u, g), [all EXCEPT ![co] = r])
       /\ DepthUpTo(Append(u, g))[Len(u) + 1] = DepthUpTo(u)[Len(u)] + Adds(g)
  <2>1. /\ g.kind \notin {"host", "resume"} /\ Pushed(g, all[co], r, Len(u) + 1)
        /\ EntryFits(g, u[Len(u)], r)
    BY <1>10, <1>12, <1>15 DEF EntryFits
  <2> QED
    BY <1>2, <1>4, <1>9, <1>10, <1>13, <2>1, Push
<1>17. ModeFits(Append(u, g), "run")
  <2>1. DepthUpTo(Append(u, g))[Len(u) + 1] = r0.nC
    BY <1>2, <1>10, <1>16
  <2> QED
    BY <1>2, <1>10, <1>g, <2>1, Limits DEF ModeFits, Calling
<1> QED
  BY <1>3, <1>12, <1>16, <1>17, Kept

-----------------------------------------------------------------------------
(* lua_yield                                                               *)

(* The calls of a thread are at least as deep as the one that resumed it.   *)
LEMMA BaseBelow ==
  ASSUME NEW s \in Seq(Activations), WellFormed(s), NEW t \in Threads, NEW o, Fine(s, t, o),
         NEW i \in 1 .. Len(s), s[i].th = t
  PROVE  o.baseC <= DepthUpTo(s)[i] /\ DepthUpTo(s)[i] \in Nat
<1>1. DepthUpTo(s)[i] \in Nat
  BY DepthRec
<1>2. CASE t = Main
  BY <1>1, <1>2 DEF Fine, StatusFine
<1>3. CASE t # Main
  <2>1. On(s, t)
    BY DEF On
  <2>2. PICK k \in 1 .. Len(s) : /\ s[k].th = t /\ s[k].kind = "resume"
                                 /\ \A l \in 1 .. Len(s) : s[l].th = t => k <= l
    BY <1>3, <2>1, HasResume
  <2>3. k \in 0 .. Len(s) /\ i \in k .. Len(s)
    BY <2>2
  <2>4. o.baseC = DepthUpTo(s)[k]
    BY <2>2 DEF Fine, DepthFine
  <2>5. DepthUpTo(s)[k] <= DepthUpTo(s)[i]
    BY <2>3, DepthGrows
  <2> QED
    BY <1>1, <2>4, <2>5
<1> QED
  BY <1>2, <1>3

(* Where nCcalls is at most baseCcalls there is no luaD_call.              *)
LEMMA NoCall ==
  ASSUME NEW s \in Seq(Activations), WellFormed(s), NEW t \in Threads, NEW o \in States, Fine(s, t, o),
         NEW i \in 1 .. Len(s), s[i].th = t, DepthUpTo(s)[Len(s)] <= o.baseC
  PROVE  s[i].kind # "call"
<1> SUFFICES ASSUME s[i].kind = "call" PROVE FALSE
  OBVIOUS
<1> DEFINE j == i - 1
           D == DepthUpTo(s)
<1>1. Lies(s[i], s, j)
  BY DEF WellFormed
<1>2. j # 0
  BY <1>1 DEF Lies
<1>3. j \in 1 .. Len(s) /\ j > 0 /\ i \in 0 .. Len(s) /\ Len(s) \in i .. Len(s) /\ j = i - 1
  BY <1>2
<1> HIDE DEF j
<1>4. s[j].th = t
  BY <1>1, <1>3 DEF Lies
<1>5. o.baseC <= D[j] /\ D[j] \in Nat
  BY <1>3, <1>4, BaseBelow
<1>6. D[i] = D[j] + Adds(s[i]) /\ Adds(s[i]) = 1
  BY <1>3, DepthRec DEF Adds
<1>7. D[i] <= D[Len(s)]
  BY <1>3, DepthGrows
<1>8. D[i] \in Nat /\ D[Len(s)] \in Nat
  <2>1. D \in [0 .. Len(s) -> Nat] /\ Len(s) \in 0 .. Len(s)
    BY DepthRec
  <2> HIDE DEF D
  <2> QED
    BY <1>3, <2>1
<1>9. D[Len(s)] <= o.baseC /\ o.baseC \in Nat
  BY DEF States
<1> HIDE DEF D
<1> QED
  BY <1>5, <1>6, <1>7, <1>8, <1>9
(* What lua_yield finds on the C stack                                     *)
LEMMA YieldTop ==
  ASSUME IInv, Running({"cfn"}), MayYield(L)
  PROVE  LET n == Len(cstack)
         IN  /\ n - 1 \in 1 .. n /\ cstack[n].kind = "cfn" /\ cstack[n].th = L
             /\ cstack[n - 1].kind \in {"exec", "resume"} /\ cstack[n - 1].th = L
             /\ Last(Pop) = cstack[n - 1]
<1> DEFINE n == Len(cstack)
           p == n - 1
<1>1. /\ cstack \in Seq(Activations) /\ WellFormed(cstack) /\ L \in Threads /\ th[L] \in States
      /\ Fine(cstack, L, th[L]) /\ cstack[n].th = L /\ cstack[n].kind = "cfn" /\ n \in 1 .. n /\ n \in Nat
      /\ th[L].nC = DepthUpTo(cstack)[n] /\ Lies(cstack[n], cstack, p)
  BY Present DEF Running
<1>2. DepthUpTo(cstack)[Len(cstack)] <= th[L].baseC
  BY <1>1 DEF MayYield
<1>3. \A i \in 1 .. Len(cstack) : cstack[i].th = L => cstack[i].kind # "call"
  BY <1>1, <1>2, NoCall
<1>4. p # 0
  BY <1>1 DEF Lies
<1>n. n = Len(cstack) /\ p = n - 1
  OBVIOUS
<1> HIDE DEF p, n
<1>5. p \in 1 .. n /\ p > 0 /\ n > 1
  BY <1>1, <1>4, <1>n
<1>6. cstack[p].th = L /\ cstack[p].kind \in {"call", "exec", "resume"}
  BY <1>1, <1>5 DEF Lies
<1>7. cstack[p].kind # "call"
  BY <1>3, <1>5, <1>6, <1>n
<1>8. Last(Pop) = cstack[Len(cstack) - 1]
  <2>1. Deepest.kind # "host"
    BY <1>1, <1>n DEF Deepest
  <2> QED
    BY <2>1, BelowIs
<1> QED
  BY <1>1, <1>5, <1>6, <1>7, <1>8, <1>n

(* Most often it has been called by a Lua function.                        *)
LEMMA YieldFinds ==
  ASSUME IInv, Running({"cfn"}), MayYield(L), cstack[Len(cstack) - 1].kind = "exec"
  PROVE  LET n == Len(cstack)
         IN  /\ n - 1 \in 1 .. n /\ n - 2 \in 1 .. n
             /\ cstack[n].kind = "cfn" /\ cstack[n - 1].kind = "exec" /\ cstack[n - 2].kind = "resume"
             /\ cstack[n].th = L /\ cstack[n - 1].th = L /\ cstack[n - 2].th = L
             /\ cstack[n - 1].n \in Nat /\ cstack[n - 1].n > 0 /\ L # Main
             /\ RunUpTo(cstack, L)[n - 2] = <<>>
             /\ th[L].ci = Luas(cstack[n - 1].n) \o <<"C">>
<1> DEFINE n == Len(cstack)
           p == n - 1
           q == n - 2
           R == RunUpTo(cstack, L)
<1>1. /\ cstack \in Seq(Activations) /\ WellFormed(cstack) /\ L \in Threads /\ th[L] \in States
      /\ Fine(cstack, L, th[L]) /\ cstack[n].th = L /\ cstack[n].kind = "cfn" /\ n \in 1 .. n /\ n \in Nat
      /\ th[L].nC = DepthUpTo(cstack)[n] /\ Lies(cstack[n], cstack, p) /\ Steady(cstack, th)
  BY Present DEF Running
<1>2. DepthUpTo(cstack)[Len(cstack)] <= th[L].baseC
  BY <1>1 DEF MayYield
<1>3. \A i \in 1 .. Len(cstack) : cstack[i].th = L => cstack[i].kind # "call"
  BY <1>1, <1>2, NoCall
<1>4. p # 0
  BY <1>1 DEF Lies
<1>n. n = Len(cstack) /\ p = n - 1 /\ q = n - 2
  OBVIOUS
<1> HIDE DEF p, q, n, R
<1>5. p \in 1 .. n /\ p > 0 /\ p - 1 = q
  BY <1>1, <1>4, <1>n
<1>6. cstack[p].th = L /\ cstack[p].kind = "exec"
  BY <1>n, YieldTop
<1>7. Lies(cstack[p], cstack, q) /\ cstack[p] \in Activations
  BY <1>1, <1>5, <1>n DEF WellFormed
<1>8. q # 0
  BY <1>6, <1>7 DEF Lies
<1>9. q \in 1 .. n /\ q > 0
  BY <1>1, <1>5, <1>8, <1>n
<1>10. /\ cstack[q].th = L /\ cstack[q].kind = "resume" /\ cstack[p].n > 0 /\ cstack[p].n \in Nat
  <2>1. cstack[q].th = L /\ cstack[q].kind \in {"call", "resume"} /\ cstack[p].n > 0
    BY <1>6, <1>7, <1>9 DEF Lies
  <2>2. cstack[p].n \in Nat
    BY <1>6, <1>7 DEF Activations
  <2> QED
    BY <1>3, <1>9, <1>n, <2>1, <2>2
<1>11. Lies(cstack[q], cstack, q - 1)
  BY <1>1, <1>9, <1>n DEF WellFormed
<1>12. L # Main /\ \A j \in 1 .. q - 1 : cstack[j].th # L
  BY <1>10, <1>11, Limits DEF Lies
<1>13. R[q] = <<>>
  <2>1. R[q] = R[0]
    <3>1. 0 \in 0 .. Len(cstack) /\ q \in 0 .. Len(cstack)
      BY <1>1, <1>9, <1>n
    <3>2. \A k \in 0 + 1 .. q : cstack[k].th = L => cstack[k].kind \notin Code
      BY <1>9, <1>10, <1>12 DEF Code
    <3> QED
      BY <1>1, <3>1, <3>2, RunSkips DEF R
  <2>2. R[0] = <<>>
    BY <1>1, RunRec DEF R
  <2> QED
    BY <2>1, <2>2
<1>14. R[p] = Luas(cstack[p].n)
  <2>1. R[p] = R[p - 1] \o Shown(cstack[p], L)
    BY <1>1, <1>5, <1>n, RunRec DEF R
  <2>2. Shown(cstack[p], L) = Luas(cstack[p].n)
    BY <1>6 DEF Shown, Luas
  <2>3. <<>> \o Luas(cstack[p].n) = Luas(cstack[p].n)
    <3>1. Luas(cstack[p].n) \in Seq({"L", "C"})
      BY <1>10 DEF Luas
    <3> QED
      BY <3>1
  <2> QED
    BY <1>5, <1>13, <2>1, <2>2, <2>3
<1>15. R[n] = R[n - 1] \o <<"C">>
  <2>1. R[n] = R[n - 1] \o Shown(cstack[n], L)
    BY <1>1, <1>n, RunRec DEF R
  <2>2. Shown(cstack[n], L) = <<"C">>
    BY <1>1 DEF Shown
  <2> QED
    BY <2>1, <2>2
<1>16. th[L].ci = R[n]
  BY <1>1, <1>n, TopRuns DEF R
<1>17. th[L].ci = Luas(cstack[p].n) \o <<"C">>
  BY <1>14, <1>15, <1>16, <1>n
<1>18. n - 1 = p /\ n - 2 = q
  BY <1>n
<1> QED
  BY <1>1, <1>5, <1>6, <1>9, <1>10, <1>12, <1>13, <1>17, <1>18 DEF n, R

(* What is left of a coroutine that has yielded, besides its CallInfos      *)
Suspended(o, r) ==
  /\ r.nC = o.nC /\ r.baseC = o.baseC /\ r.filled = o.filled /\ r.entry = o.entry /\ r.errorJmp = o.errorJmp
  /\ r.errfunc = o.errfunc /\ r.allowhook = o.allowhook
  /\ r.status = "yield" /\ SizeFine(r) /\ Left(r)

LEMMA Suspend ==
  ASSUME NEW s, NEW all, Steady(s, all), NEW t \in Threads, t # Main,
         s[Len(s)].th = t, s[Len(s)].kind = "resume",
         NEW r \in States, Suspended(all[t], r),
         DepthUpTo(s)[Len(s)] < MaxCCalls + ErrRoom
  PROVE  LET new == [all EXCEPT ![t] = r]
         IN  Fits(s, new) /\ ModeFits(s, "return") /\ YieldFits(s, "return", new)
<1> DEFINE o == all[t]
           n == Len(s)
<1>1. /\ s \in Seq(Activations) /\ s # <<>> /\ all \in [Threads -> States] /\ WellFormed(s)
      /\ Fits(s, all) /\ Fine(s, t, o) /\ n \in 1 .. n /\ n \in Nat \ {0} /\ n = Len(s)
  BY DEF Fits, Steady
<1>2. Suspended(o, r)
  OBVIOUS
<1> HIDE DEF o
<1>3. FramesFine(s, t, r)
  <2>1. Lies(s[n], s, n - 1)
    BY <1>1 DEF WellFormed
  <2>2. n - 1 # 0
    BY <2>1 DEF Lies
  <2>3. \A j \in 1 .. n - 1 : s[j].th # t
    <3> HIDE DEF n
    <3> QED
      BY <1>1, <2>1 DEF Lies
  <2>4. Own(s, Len(s), t, Code) = {}
    BY <1>1, <2>3 DEF Own, Code
  <2> QED
    BY <1>2, <2>4 DEF FramesFine, Suspended, Left
<1>4. SavedFine(s, t, r)
  BY <1>1, <1>2 DEF Fine, SavedFine, Suspended
<1>5. \A i \in 1 .. Len(s) : DepthFine(s, i, t, r)
  BY <1>1, <1>2 DEF Fine, DepthFine, Suspended, EntryFits
<1>6. StatusFine(s, t, r) /\ SizeFine(r)
  BY <1>1, <1>2 DEF Fine, StatusFine, Suspended
<1>7. Fine(s, t, r)
  BY <1>3, <1>4, <1>5, <1>6 DEF Fine
<1>8. /\ n \in Nat \ {0} /\ Same(s, s, n)
      /\ \A i \in n + 1 .. Len(s) : s[i].th = t /\ Lies(s[i], s, i - 1)
  BY <1>1 DEF Same
<1>9. Fits(s, [all EXCEPT ![t] = r])
  BY <1>1, <1>7, <1>8, Change
<1>10. ModeFits(s, "return")
  <2>1. DepthUpTo(s)[Len(s)] \in Nat
    <3>1. Len(s) \in 0 .. Len(s)
      BY <1>1
    <3> QED
      BY <1>1, <3>1, DepthRec
  <2> QED
    BY <2>1, Limits DEF ModeFits
<1>11. YieldFits(s, "return", [all EXCEPT ![t] = r])
  BY <1>1 DEF YieldFits, Steady
<1> QED
  BY <1>9, <1>10, <1>11
LEMMA WithCI ==
  ASSUME NEW r \in States, NEW x \in Seq({"L", "C"}), SizeFine(r), Len(x) <= Len(r.ci)
  PROVE  LET q == [r EXCEPT !.ci = x]
         IN  /\ q \in States /\ q.ci = x /\ SizeFine(q)
             /\ q.nC = r.nC /\ q.size = r.size /\ q.baseC = r.baseC /\ q.status = r.status
             /\ q.filled = r.filled /\ q.entry = r.entry /\ q.errorJmp = r.errorJmp /\ q.errfunc = r.errfunc
             /\ q.allowhook = r.allowhook
<1> DEFINE q == [r EXCEPT !.ci = x]
<1>1. /\ q \in States /\ q.ci = x
      /\ q.nC = r.nC /\ q.size = r.size /\ q.baseC = r.baseC /\ q.status = r.status
      /\ q.filled = r.filled /\ q.entry = r.entry /\ q.errorJmp = r.errorJmp /\ q.errfunc = r.errfunc
      /\ q.allowhook = r.allowhook
  BY DEF States
<1>2. Len(x) \in Nat /\ Len(r.ci) \in Nat /\ r.size \in Nat
  BY DEF States
<1> HIDE DEF q
<1>3. SizeFine(q)
  BY <1>1, <1>2 DEF SizeFine
<1> QED
  BY <1>1, <1>3 DEF q

LEMMA LuasAre ==
  ASSUME NEW k \in Nat, k > 0
  PROVE  LET x == Luas(k) \o <<"C">>
         IN  /\ Luas(k) \in Seq({"L", "C"}) /\ x \in Seq({"L", "C"})
             /\ Len(Luas(k)) = k /\ Len(x) = k + 1 /\ Len(x) > 1 /\ Last(x) = "C"
             /\ \A i \in 1 .. Len(x) - 1 : x[i] = "L"
             /\ <<>> \o Luas(k) = Luas(k)
<1> DEFINE y == Luas(k)
<1>1. y \in Seq({"L", "C"}) /\ Len(y) = k /\ \A i \in 1 .. k : y[i] = "L"
  BY DEF Luas
<1> HIDE DEF y
<1>2. /\ y \o <<"C">> \in Seq({"L", "C"}) /\ Len(y \o <<"C">>) = k + 1
      /\ (y \o <<"C">>)[k + 1] = "C" /\ \A i \in 1 .. k : (y \o <<"C">>)[i] = y[i]
      /\ <<>> \o y = y
  BY <1>1
<1> QED
  BY <1>1, <1>2 DEF Last, y

LEMMA YieldFromLua ==
  ASSUME IInv, Yield, cstack[Len(cstack) - 1].kind = "exec"
  PROVE  IInv'
<1> DEFINE n == Len(cstack)
           f == cstack[n]
           e == cstack[n - 1]
           o == th[L]
           x == Luas(e.n)
           r1 == [o EXCEPT !.ci = x]
           r2 == [r1 EXCEPT !.ci = <<>>]
           r == [o EXCEPT !.status = "yield"]
           s1 == Front(cstack)
           s2 == Front(s1)
           all1 == [th EXCEPT ![L] = r1]
           all2 == [all1 EXCEPT ![L] = r2]
<1>1. /\ Running({"cfn"}) /\ MayYield(L) /\ th' = [th EXCEPT ![L] = r] /\ mode' = "return"
      /\ cstack' = IF Last(Pop).kind = "exec" THEN Front(Pop) ELSE Pop
  BY DEF Yield, Becomes, Put, Outcome
<1>2. /\ n - 1 \in 1 .. n /\ n - 2 \in 1 .. n
      /\ f.kind = "cfn" /\ e.kind = "exec" /\ cstack[n - 2].kind = "resume"
      /\ f.th = L /\ e.th = L /\ cstack[n - 2].th = L
      /\ e.n \in Nat /\ e.n > 0 /\ L # Main
      /\ o.ci = x \o <<"C">>
  BY <1>1, YieldFinds
<1>3. /\ Steady(cstack, th) /\ L \in Threads /\ o \in States /\ SizeFine(o)
      /\ Deepest = f /\ th \in [Threads -> States]
      /\ n \in Nat
      /\ DepthUpTo(cstack)[n] < MaxCCalls + ErrRoom
  BY <1>1, Present DEF Running, Fine
<1>4. cstack' = s2
  <2>1. Last(Pop) = e
    BY <1>2, <1>3, BelowIs
  <2> QED
    BY <1>1, <1>2, <2>1 DEF Pop
<1>5. /\ x \in Seq({"L", "C"}) /\ o.ci \in Seq({"L", "C"}) /\ Len(o.ci) = Len(x) + 1
      /\ Len(x) \in Nat /\ Len(o.ci) > 1 /\ Last(o.ci) = "C"
      /\ \A i \in 1 .. Len(o.ci) - 1 : o.ci[i] = "L"
      /\ <<>> \o x = x
  BY <1>2, LuasAre
<1>6. all1[L] = r1 /\ all2[L] = r2 /\ \A y : [all2 EXCEPT ![L] = y] = [th EXCEPT ![L] = y]
  BY <1>3
<1>s. Shown(f, L) = <<"C">> /\ Shown(e, L) = x /\ Adds(f) = 0 /\ Adds(e) = 0
  BY <1>2 DEF Shown, Adds, Luas
<1> HIDE DEF o, x, f, e
<1>7. /\ r1 \in States /\ r1.ci = x /\ SizeFine(r1)
      /\ r1.nC = o.nC /\ r1.size = o.size /\ r1.baseC = o.baseC /\ r1.status = o.status
      /\ r1.filled = o.filled /\ r1.entry = o.entry /\ r1.errorJmp = o.errorJmp /\ r1.errfunc = o.errfunc
      /\ r1.allowhook = o.allowhook
  <2>1. Len(x) <= Len(o.ci)
    BY <1>5
  <2> QED
    BY <1>3, <1>5, <2>1, WithCI
<1> HIDE DEF r1
<1>8. /\ r2 \in States /\ r2.ci = <<>> /\ SizeFine(r2)
      /\ r2.nC = r1.nC /\ r2.size = r1.size /\ r2.baseC = r1.baseC /\ r2.status = r1.status
      /\ r2.filled = r1.filled /\ r2.entry = r1.entry /\ r2.errorJmp = r1.errorJmp /\ r2.errfunc = r1.errfunc
      /\ r2.allowhook = r1.allowhook
  <2>1. <<>> \in Seq({"L", "C"}) /\ Len(<<>>) <= Len(r1.ci)
    BY <1>5, <1>7
  <2> QED
    BY <1>7, <2>1, WithCI
<1> HIDE DEF r2
<1>9. /\ r \in States /\ r.ci = o.ci /\ r.status = "yield"
      /\ r.nC = o.nC /\ r.size = o.size /\ r.baseC = o.baseC
      /\ r.filled = o.filled /\ r.entry = o.entry /\ r.errorJmp = o.errorJmp /\ r.errfunc = o.errfunc
      /\ r.allowhook = o.allowhook
  BY <1>3 DEF States
<1> HIDE DEF r
<1>10. o.nC \in Nat /\ o.nC + 0 = o.nC
  BY <1>3 DEF States
<1> HIDE DEF s1, s2, all1, all2
<1>11. /\ Steady(s1, all1) /\ Len(s1) = n - 1 /\ s1 \in Seq(Activations) /\ n > 1
       /\ \A i \in 1 .. n - 1 : s1[i] = cstack[i]
       /\ DepthUpTo(cstack)[n] = DepthUpTo(s1)[n - 1] + Adds(f) /\ DepthUpTo(s1)[n - 1] \in Nat
  <2>1. Popped(f, o, r1)
    BY <1>2, <1>5, <1>7, <1>10, <1>s DEF Popped
  <2>2. /\ f.kind \notin {"host", "resume"} /\ f = cstack[Len(cstack)] /\ f.th = L
        /\ Popped(f, th[L], r1) /\ r1 \in States /\ Steady(cstack, th) /\ L \in Threads
    BY <1>2, <1>3, <1>7, <2>1 DEF f, o
  <2>3. /\ Steady(Front(cstack), [th EXCEPT ![L] = r1])
        /\ Len(cstack) > 1
        /\ Len(Front(cstack)) = Len(cstack) - 1
        /\ Front(cstack) \in Seq(Activations)
        /\ \A i \in 1 .. Len(cstack) - 1 : Front(cstack)[i] = cstack[i]
        /\ DepthUpTo(cstack)[Len(cstack)] = DepthUpTo(Front(cstack))[Len(cstack) - 1] + Adds(f)
        /\ DepthUpTo(Front(cstack))[Len(cstack) - 1] \in Nat
    BY ONLY <2>2, PopTop
  <2> QED
    BY <2>3 DEF s1, all1
<1>12. s1[Len(s1)] = e /\ Len(s1) = n - 1
  BY <1>2, <1>11 DEF e
<1>13. /\ Steady(s2, all2) /\ Len(s2) = n - 2 /\ \A i \in 1 .. n - 2 : s2[i] = s1[i]
       /\ DepthUpTo(s1)[n - 1] = DepthUpTo(s2)[n - 2] + Adds(e) /\ DepthUpTo(s2)[n - 2] \in Nat
  <2>1. Popped(e, all1[L], r2)
    BY <1>2, <1>5, <1>6, <1>7, <1>8, <1>10, <1>s DEF Popped
  <2>2. e.kind \notin {"host", "resume"} /\ e = s1[Len(s1)]
    BY <1>2, <1>12
  <2>3. /\ Steady(Front(s1), [all1 EXCEPT ![L] = r2])
        /\ Len(Front(s1)) = Len(s1) - 1
        /\ \A i \in 1 .. Len(s1) - 1 : Front(s1)[i] = s1[i]
        /\ DepthUpTo(s1)[Len(s1)] = DepthUpTo(Front(s1))[Len(s1) - 1] + Adds(e)
        /\ DepthUpTo(Front(s1))[Len(s1) - 1] \in Nat
    <3>1. /\ Steady(s1, all1) /\ e.kind \notin {"host", "resume"} /\ e = s1[Len(s1)] /\ e.th = L
          /\ Popped(e, all1[L], r2) /\ r2 \in States /\ L \in Threads
      BY <1>2, <1>3, <1>8, <1>11, <2>1, <2>2
    <3> QED
      BY ONLY <3>1, PopTop
  <2>4. Len(s1) = n - 1 /\ (n - 1) - 1 = n - 2
    BY <1>3, <1>12
  <2> QED
    BY <2>3, <2>4 DEF s2, all2
<1>14. s2[Len(s2)].kind = "resume" /\ s2[Len(s2)].th = L
  <2>1. n - 2 \in 1 .. n - 2 /\ n - 2 \in 1 .. n - 1
    BY <1>2, <1>3
  <2> QED
    BY <1>2, <1>11, <1>13, <2>1
<1>15. DepthUpTo(s2)[Len(s2)] < MaxCCalls + ErrRoom
  <2> DEFINE d == DepthUpTo(s2)[n - 2]
             d1 == DepthUpTo(s1)[n - 1]
             d0 == DepthUpTo(cstack)[n]
  <2>1. d0 = d1 + 0 /\ d1 = d + 0 /\ d0 < MaxCCalls + ErrRoom /\ d \in Nat
    BY <1>3, <1>11, <1>13, <1>s
  <2> HIDE DEF d, d1, d0
  <2>2. d < MaxCCalls + ErrRoom
    BY <2>1
  <2> QED
    BY <1>13, <2>2 DEF d
<1>16. Suspended(all2[L], r)
  <2>1. SizeFine(r)
    BY <1>3, <1>9 DEF SizeFine
  <2> QED
    BY <1>5, <1>6, <1>7, <1>8, <1>9, <2>1 DEF Suspended, Left
<1>17. LET new == [all2 EXCEPT ![L] = r]
       IN  Fits(s2, new) /\ ModeFits(s2, "return") /\ YieldFits(s2, "return", new)
  BY <1>2, <1>3, <1>9, <1>13, <1>14, <1>15, <1>16, Suspend
<1>18. cstack' = s2 /\ th' = [all2 EXCEPT ![L] = r] /\ mode' = "return"
  BY <1>1, <1>4, <1>6
<1> QED
  BY <1>17, <1>18 DEF IInv

(* Or lua_resume itself has entered it, in a result that was left.         *)
LEMMA YieldAlone ==
  ASSUME IInv, Yield, cstack[Len(cstack) - 1].kind = "resume"
  PROVE  IInv'
<1> DEFINE n == Len(cstack)
           f == cstack[n]
           o == th[L]
           r1 == [o EXCEPT !.ci = <<>>]
           r == [o EXCEPT !.status = "yield"]
           u == Front(cstack)
           all == [th EXCEPT ![L] = r1]
<1>1. /\ Running({"cfn"}) /\ MayYield(L) /\ th' = [th EXCEPT ![L] = r] /\ mode' = "return"
      /\ cstack' = IF Last(Pop).kind = "exec" THEN Front(Pop) ELSE Pop
  BY DEF Yield, Becomes, Put, Outcome
<1>2. /\ n - 1 \in 1 .. n /\ f.kind = "cfn" /\ f.th = L
      /\ cstack[n - 1].kind = "resume" /\ cstack[n - 1].th = L /\ Last(Pop) = cstack[n - 1]
  BY <1>1, YieldTop
<1>3. /\ Steady(cstack, th) /\ L \in Threads /\ o \in States /\ SizeFine(o)
      /\ th \in [Threads -> States] /\ n \in Nat /\ n \in 1 .. n /\ cstack \in Seq(Activations)
      /\ DepthUpTo(cstack)[n] < MaxCCalls + ErrRoom /\ WellFormed(cstack) /\ Fine(cstack, L, o)
  BY <1>1, Present DEF Running, Fine
<1>4. cstack' = u
  BY <1>1, <1>2 DEF Pop
<1>5. Lies(cstack[n - 1], cstack, (n - 1) - 1)
  BY <1>2, <1>3 DEF WellFormed
<1>6. L # Main /\ \A j \in 1 .. (n - 1) - 1 : cstack[j].th # L
  <2> DEFINE m == (n - 1) - 1
  <2>1. Lies(cstack[n - 1], cstack, m)
    BY <1>5
  <2> HIDE DEF m, n
  <2>2. L \in Coros /\ \A j \in 1 .. m : cstack[j].th # L
    BY <1>2, <2>1 DEF Lies
  <2> QED
    BY <2>2, Limits DEF m
<1>7. o.entry = "result"
  <2>1. DepthFine(cstack, n, L, o)
    BY <1>3 DEF Fine
  <2>2. n > 1
    BY <1>2, <1>3
  <2> QED
    BY <1>2, <2>1, <2>2 DEF DepthFine, EntryFits
<1>8. o.ci = <<"C">>
  <2> DEFINE R == RunUpTo(cstack, L)
             m == n - 1
  <2>1. o.ci = R[n]
    BY <1>2, <1>3, TopRuns
  <2>2. R[n] = R[m] \o Shown(f, L)
    BY <1>3, RunRec
  <2>3. R[m] = R[0]
    <3>1. 0 \in 0 .. Len(cstack) /\ m \in 0 .. Len(cstack)
      BY <1>2, <1>3
    <3>2. \A k \in 0 + 1 .. m : cstack[k].th = L => cstack[k].kind \notin Code
      <4> SUFFICES ASSUME NEW k \in 0 + 1 .. m, cstack[k].th = L PROVE cstack[k].kind \notin Code
        OBVIOUS
      <4>1. k = m
        BY <1>3, <1>6
      <4> QED
        BY <1>2, <4>1 DEF Code
    <3> HIDE DEF m
    <3> QED
      BY <1>3, <3>1, <3>2, RunSkips
  <2>4. R[0] = <<>>
    BY <1>3, RunRec
  <2>5. Shown(f, L) = <<"C">>
    BY <1>2 DEF Shown
  <2> HIDE DEF R, m
  <2>6. <<>> \o <<"C">> = <<"C">>
    OBVIOUS
  <2> QED
    BY <2>1, <2>2, <2>3, <2>4, <2>5, <2>6
<1>9. all[L] = r1 /\ \A y : [all EXCEPT ![L] = y] = [th EXCEPT ![L] = y]
  BY <1>3
<1>s. Shown(f, L) = <<"C">> /\ Adds(f) = 0
  BY <1>2 DEF Shown, Adds
<1> HIDE DEF o, f
<1>10. /\ r1 \in States /\ r1.ci = <<>> /\ SizeFine(r1)
       /\ r1.nC = o.nC /\ r1.size = o.size /\ r1.baseC = o.baseC /\ r1.status = o.status
       /\ r1.filled = o.filled /\ r1.entry = o.entry /\ r1.errorJmp = o.errorJmp
       /\ r1.errfunc = o.errfunc /\ r1.allowhook = o.allowhook
  <2>1. <<>> \in Seq({"L", "C"}) /\ Len(<<>>) <= Len(o.ci)
    BY <1>8
  <2> QED
    BY <1>3, <2>1, WithCI
<1> HIDE DEF r1
<1>11. /\ r \in States /\ r.ci = o.ci /\ r.status = "yield"
       /\ r.nC = o.nC /\ r.size = o.size /\ r.baseC = o.baseC
       /\ r.filled = o.filled /\ r.entry = o.entry /\ r.errorJmp = o.errorJmp
       /\ r.errfunc = o.errfunc /\ r.allowhook = o.allowhook
  BY <1>3 DEF States
<1> HIDE DEF r
<1>12. o.nC \in Nat /\ o.nC + 0 = o.nC /\ <<>> \o <<"C">> = <<"C">>
  BY <1>3 DEF States
<1> HIDE DEF u, all
<1>13. /\ Steady(u, all) /\ Len(u) = n - 1 /\ \A i \in 1 .. n - 1 : u[i] = cstack[i]
       /\ DepthUpTo(cstack)[n] = DepthUpTo(u)[n - 1] + Adds(f) /\ DepthUpTo(u)[n - 1] \in Nat
  <2>1. Popped(f, o, r1)
    BY <1>2, <1>8, <1>10, <1>12, <1>s DEF Popped
  <2>2. /\ f.kind \notin {"host", "resume"} /\ f = cstack[Len(cstack)] /\ f.th = L
        /\ Popped(f, th[L], r1) /\ r1 \in States /\ Steady(cstack, th) /\ L \in Threads
    BY <1>2, <1>3, <1>10, <2>1 DEF f, o
  <2>3. /\ Steady(Front(cstack), [th EXCEPT ![L] = r1])
        /\ Len(Front(cstack)) = Len(cstack) - 1
        /\ \A i \in 1 .. Len(cstack) - 1 : Front(cstack)[i] = cstack[i]
        /\ DepthUpTo(cstack)[Len(cstack)] = DepthUpTo(Front(cstack))[Len(cstack) - 1] + Adds(f)
        /\ DepthUpTo(Front(cstack))[Len(cstack) - 1] \in Nat
    BY ONLY <2>2, PopTop
  <2> QED
    BY <2>3 DEF u, all
<1>14. u[Len(u)].kind = "resume" /\ u[Len(u)].th = L
  <2>1. n - 1 \in 1 .. n - 1
    BY <1>2, <1>3
  <2> QED
    BY <1>2, <1>13, <2>1
<1>15. DepthUpTo(u)[Len(u)] < MaxCCalls + ErrRoom
  <2> DEFINE d == DepthUpTo(u)[n - 1]
             d0 == DepthUpTo(cstack)[n]
  <2>1. d0 = d + 0 /\ d0 < MaxCCalls + ErrRoom /\ d \in Nat
    BY <1>3, <1>13, <1>s
  <2> HIDE DEF d, d0
  <2>2. d < MaxCCalls + ErrRoom
    BY <2>1
  <2> QED
    BY <1>13, <2>2 DEF d
<1>16. Suspended(all[L], r)
  <2>1. SizeFine(r)
    BY <1>3, <1>11 DEF SizeFine
  <2>2. Left(r)
    <3>1. Len(<<"C">>) = 1 /\ Last(<<"C">>) = "C" /\ <<"C">> # <<>>
      BY DEF Last
    <3> QED
      BY <1>7, <1>8, <1>11, <3>1 DEF Left, o
  <2> QED
    BY <1>9, <1>10, <1>11, <2>1, <2>2 DEF Suspended
<1>17. LET new == [all EXCEPT ![L] = r]
       IN  Fits(u, new) /\ ModeFits(u, "return") /\ YieldFits(u, "return", new)
  BY <1>3, <1>6, <1>11, <1>13, <1>14, <1>15, <1>16, Suspend
<1>18. cstack' = u /\ th' = [all EXCEPT ![L] = r] /\ mode' = "return"
  BY <1>1, <1>4, <1>9
<1> QED
  BY <1>17, <1>18 DEF IInv

LEMMA YieldKeeps ==
  ASSUME IInv, Yield
  PROVE  IInv'
<1>1. Running({"cfn"}) /\ MayYield(L)
  BY DEF Yield
<1>2. cstack[Len(cstack) - 1].kind \in {"exec", "resume"}
  BY <1>1, YieldTop
<1> QED
  BY <1>2, YieldFromLua, YieldAlone

-----------------------------------------------------------------------------
(* The invariant                                                           *)
LEMMA InitHolds ==
  ASSUME Init
  PROVE  IInv
<1> DEFINE h == Frame("host", Main)
           s == <<h>>
<1>1. cstack = s /\ mode = "run" /\ th = [t \in Threads |-> NewThread]
  BY DEF Init
<1>2. /\ h \in Activations /\ h.kind = "host" /\ h.th = Main /\ Adds(h) = 0
      /\ \A t : Shown(h, t) = <<>>
  BY Limits DEF Frame, Activations, Adds, Shown
<1>3. s \in Seq(Activations) /\ Len(s) = 1 /\ s[1] = h /\ s # <<>>
  BY <1>2
<1> HIDE DEF h, s
<1>4. DepthUpTo(s)[1] = 0
  <2>1. DepthUpTo(s)[1] = DepthUpTo(s)[1 - 1] + Adds(s[1]) /\ DepthUpTo(s)[0] = 0
    BY <1>3, DepthRec
  <2> QED
    BY <1>2, <1>3, <2>1
<1>5. RunUpTo(s, Main)[1] = <<>>
  <2>1. RunUpTo(s, Main)[1] = RunUpTo(s, Main)[1 - 1] \o Shown(s[1], Main) /\ RunUpTo(s, Main)[0] = <<>>
    <3>1. 1 \in 1 .. Len(s)
      BY <1>3
    <3>2. /\ RunUpTo(s, Main)[0] = <<>>
          /\ \A i \in 1 .. Len(s) : RunUpTo(s, Main)[i] = RunUpTo(s, Main)[i - 1] \o Shown(s[i], Main)
      BY <1>3, RunRec
    <3> QED
      BY <3>1, <3>2
  <2>2. <<>> \o <<>> = <<>> /\ 1 - 1 = 0
    OBVIOUS
  <2> QED
    BY <1>2, <1>3, <2>1, <2>2
<1>6. WellFormed(s)
  <2>1. Lies(h, s, 0)
    BY <1>2 DEF Lies
  <2> QED
    BY <1>3, <2>1 DEF WellFormed
<1> DEFINE r == NewThread
<1>7. /\ r \in States /\ Idle(r) /\ SizeFine(r) /\ r.status = "ok" /\ r.ci = <<>>
      /\ r.nC = 0 /\ r.baseC = 0
  BY NewThreadIs DEF NewThread
<1>8. \A t \in Threads : th[t] = r
  BY <1>1
<1>9. th \in [Threads -> States]
  BY <1>1, <1>7
<1> HIDE DEF r
<1>10. ASSUME NEW t \in Threads PROVE Fine(s, t, r)
  <2>1. CASE t = Main
    <3>1. \A kinds : "host" \notin kinds => Own(s, 1, Main, kinds) = {}
      BY <1>2, <1>3 DEF Own
    <3>2. /\ Own(s, 1, Main, {"pcall", "resume"}) = {} /\ Own(s, 1, Main, {"pcall"}) = {}
          /\ Own(s, 1, Main, {"hook", "gctm"}) = {}
      BY <3>1
    <3>3. SavedFine(s, Main, r)
      BY <1>3, <1>7, <3>2 DEF SavedFine, Idle, JumpIs, HandlerIs, HooksAre
    <3>4. FramesFine(s, Main, r)
      BY <1>3, <1>5, <1>7 DEF FramesFine
    <3>5. \A i \in 1 .. Len(s) : DepthFine(s, i, Main, r)
      BY <1>3, <1>4, <1>7 DEF DepthFine
    <3>6. StatusFine(s, Main, r)
      BY <1>7 DEF StatusFine
    <3> QED
      BY <1>7, <2>1, <3>3, <3>4, <3>5, <3>6 DEF Fine
  <2>2. CASE t # Main
    <3>1. ~ On(s, t)
      BY <1>2, <1>3, <2>2 DEF On
    <3> QED
      BY <1>7, <2>2, <3>1, Off
  <2> QED
    BY <2>1, <2>2
<1>11. Fits(s, th)
  BY <1>3, <1>6, <1>8, <1>9, <1>10 DEF Fits
<1>12. ModeFits(s, "run")
  BY <1>2, <1>3, <1>4, Limits DEF ModeFits, Calling
<1>13. YieldFits(s, "run", th)
  BY <1>7, <1>8 DEF YieldFits
<1> QED
  BY <1>1, <1>11, <1>12, <1>13 DEF IInv

LEMMA StepKeeps ==
  ASSUME IInv, Next
  PROVE  IInv'
<1>1. ASSUME NEW f \in {"L", "C"}, Entry(f) PROVE IInv'
  BY <1>1, CallByOpKeeps, CallKeeps, PCallKeeps DEF Entry
<1>2. CASE Hook \/ Finalizer \/ Load \/ EnterLevel \/ LeaveLevel \/ Parsed
  BY <1>2, HookKeeps, FinalizerKeeps, LoadKeeps, EnterLevelKeeps, LeaveLevelKeeps, ParsedKeeps
<1>3. CASE Return
  BY <1>3, ReturnLuaKeeps, ReturnCKeeps, CallReturnsKeeps, PCallReturnsKeeps,
     HookReturnsKeeps, FinalizerReturnsKeeps, HandlerReturnsKeeps DEF Return
<1>4. CASE Error
  BY <1>4, RaiseKeeps, ErrorMsgKeeps, CatchKeeps, CoroutineFailsKeeps, PanicKeeps DEF Error
<1>5. ASSUME NEW co \in Coros, Coroutine(co) PROVE IInv'
  BY <1>5, CreateKeeps, ResumeTooDeepKeeps, StartKeeps, NotCallableKeeps, ContinueKeeps
     DEF Coroutine
<1>6. CASE YieldRefused \/ Yield \/ ResumeReturns \/ TooManyResults
  BY <1>6, RaiseKeeps, YieldKeeps, ResumeReturnsKeeps, TooManyResultsKeeps
<1> QED
  BY <1>1, <1>2, <1>3, <1>4, <1>5, <1>6 DEF Next

LEMMA StutterKeeps ==
  ASSUME IInv, UNCHANGED vars
  PROVE  IInv'
<1>1. cstack' = cstack /\ mode' = mode /\ th' = th
  BY DEF vars
<1>2. Fits(cstack, th) /\ ModeFits(cstack, mode) /\ YieldFits(cstack, mode, th)
  BY DEF IInv
<1> QED
  BY <1>1, <1>2 DEF IInv

LEMMA Invariance == Spec => []IInv
<1>1. Init => IInv
  BY InitHolds
<1>2. IInv /\ [Next]_vars => IInv'
  BY StepKeeps, StutterKeeps
<1> QED
  BY <1>1, <1>2, PTL DEF Spec

-----------------------------------------------------------------------------
(* The C stack, the mode and the threads keep the types of the fields of    *)
(* lua_State and of what luaD_pcall and the others save.                   *)
THEOREM TypeCorrect == Spec => []TypeOK
<1>1. IInv => TypeOK
  BY DEF IInv, Fits, ModeFits, TypeOK
<1> QED
  BY <1>1, Invariance, PTL

(* Whatever functions, errors and yields have done, the CallInfos of every  *)
(* thread are the functions that the C stack runs for it, and a suspended   *)
(* coroutine has left nothing on the C stack (luaD_poscall, resume).        *)
THEOREM FramesAlwaysMatch == Spec => []FramesMatch
<1>1. IInv => FramesMatch
  <2> SUFFICES ASSUME IInv, NEW t \in Threads
               PROVE  IF th[t].status = "yield"
                      THEN /\ Own(cstack, Len(cstack), t, Code) = {}
                           /\ th[t].ci # <<>> /\ Last(th[t].ci) = "C"
                           /\ Len(th[t].ci) > 1 \/ th[t].entry = "result"
                           /\ \A i \in 1 .. Len(th[t].ci) - 1 : th[t].ci[i] = "L"
                      ELSE t \in OnStack => th[t].ci = RunUpTo(cstack, t)[Len(cstack)]
    BY DEF FramesMatch
  <2>1. FramesFine(cstack, t, th[t])
    BY DEF IInv, Fits, Fine
  <2>2. t \in OnStack => On(cstack, t)
    BY DEF OnStack, On
  <2> QED
    BY <2>1, <2>2 DEF FramesFine
<1> QED
  BY <1>1, Invariance, PTL

(* Every thread has the call depth, the jump, the error handler and the     *)
(* permission to call hooks that belong to where it is (luaD_pcall,         *)
(* lua_resume, lua_setlevel, luaD_callhook, GCTM, resetstack).              *)
THEOREM AlwaysRestored == Spec => []Restored
<1>1. IInv => Restored
  <2> SUFFICES ASSUME IInv PROVE Restored
    OBVIOUS
  <2>1. /\ cstack \in Seq(Activations) /\ th \in [Threads -> States]
        /\ \A t \in Threads : Fine(cstack, t, th[t])
    BY DEF IInv, Fits
  <2>2. DepthKept
    <3> DEFINE D == DepthUpTo(cstack)
    <3> SUFFICES ASSUME NEW i \in 1 .. Len(cstack),
                        i = Len(cstack) \/ cstack[i + 1].kind = "resume"
                 PROVE  th[cstack[i].th].nC = D[i]
      BY DEF DepthKept
    <3>1. cstack[i] \in Activations
      BY <2>1
    <3>2. cstack[i].th \in Threads
      BY <3>1 DEF Activations
    <3> QED
      BY <2>1, <3>2 DEF Fine, DepthFine
  <2>3. \A t \in Threads : SavedFine(cstack, t, th[t])
    BY <2>1 DEF Fine
  <2> QED
    BY <2>2, <2>3 DEF Restored, SavedFine
<1> QED
  BY <1>1, Invariance, PTL

(* The depth of the C stack and the CallInfos are bounded, however          *)
(* coroutines resume one another and handlers fail in handlers (luaD_call,  *)
(* growCI, lua_setlevel).                                                   *)
THEOREM AlwaysBounded == Spec => []Bounded
<1>1. IInv => Bounded
  BY DEF IInv, Fits, Fine, SizeFine, ModeFits, Bounded
<1> QED
  BY <1>1, Invariance, PTL
-----------------------------------------------------------------------------
(* The implementation of Coroutines.  The chain of threads is read off the  *)
(* C stack by a recursive function; its steps are these.                    *)
Chained(c, f) == IF f.kind = "resume" THEN Append(c, f.th) ELSE c

ChainOf(s) == ChainUpTo(s)[Len(s)]

LEMMA ActivationTypes ==
  ASSUME NEW f \in Activations
  PROVE  f.th \in Threads
BY DEF Activations

LEMMA ChainRec ==
  ASSUME NEW s \in Seq(Activations)
  PROVE  /\ ChainUpTo(s) \in [0 .. Len(s) -> Seq(Threads)]
         /\ ChainUpTo(s)[0] = <<Main>>
         /\ \A i \in 1 .. Len(s) : ChainUpTo(s)[i] = Chained(ChainUpTo(s)[i - 1], s[i])
<1> DEFINE n == Len(s)
           D == ChainUpTo(s)
           Chains == Seq(Threads)
           g == [p \in (1 .. n) \X Chains |-> Chained(p[2], s[p[1]])]
<1>1. n \in Nat /\ \A i \in 1 .. n : s[i].th \in Threads
  BY ActivationTypes
<1>j. <<Main>> \in Chains /\ \A c \in Chains, t \in Threads : Append(c, t) \in Chains
  BY Limits
<1> HIDE DEF Chains
<1>k. \A c \in Chains, i \in 1 .. n : Chained(c, s[i]) \in Chains
  BY <1>1, <1>j DEF Chained
<1>2. g \in [(1 .. n) \X Chains -> Chains]
  BY <1>k
<1>3. \A i \in 1 .. n, x \in Chains : g[<<i, x>>] = Chained(x, s[i])
  OBVIOUS
<1> HIDE DEF n, g
<1>4. PICK d \in [0 .. n -> Chains] : Steps(d, <<Main>>, g, n)
  BY <1>1, <1>2, <1>j, Iterated, Zenon
<1>5. ASSUME NEW i \in 1 .. n PROVE d[i] = Chained(d[i - 1], s[i])
  <2>1. d[i - 1] \in Chains
    BY <1>1
  <2> QED
    BY <1>3, <1>4, <2>1 DEF Steps
<1>6. d = [i \in 0 .. n |-> IF i = 0 THEN <<Main>>
                            ELSE IF s[i].kind = "resume" THEN Append(d[i - 1], s[i].th) ELSE d[i - 1]]
  <2>1. \A i \in 0 .. n : d[i] = IF i = 0 THEN <<Main>>
                                 ELSE IF s[i].kind = "resume" THEN Append(d[i - 1], s[i].th) ELSE d[i - 1]
    BY <1>1, <1>4, <1>5 DEF Steps, Chained
  <2>2. d = [i \in 0 .. n |-> d[i]]
    OBVIOUS
  <2> QED
    BY <2>1, <2>2
<1>7. D = [i \in 0 .. n |-> IF i = 0 THEN <<Main>>
                            ELSE IF s[i].kind = "resume" THEN Append(D[i - 1], s[i].th) ELSE D[i - 1]]
  BY <1>6 DEF ChainUpTo, n
<1> HIDE DEF D
<1>8. D[0] = <<Main>> /\ \A i \in 1 .. n : D[i] = Chained(D[i - 1], s[i])
  <2>1. \A i \in 0 .. n : D[i] = IF i = 0 THEN <<Main>>
                                 ELSE IF s[i].kind = "resume" THEN Append(D[i - 1], s[i].th) ELSE D[i - 1]
    BY <1>7
  <2>2. 0 \in 0 .. n /\ \A i \in 1 .. n : i \in 0 .. n /\ i # 0
    BY <1>1
  <2>3. D[0] = <<Main>>
    BY <2>1, <2>2
  <2>4. ASSUME NEW i \in 1 .. n PROVE D[i] = Chained(D[i - 1], s[i])
    BY <2>1, <2>2 DEF Chained
  <2> QED
    BY <2>3, <2>4
<1>9. StepsIn(Chains, D, <<Main>>, g, n)
  BY <1>3, <1>8 DEF StepsIn
<1>10. \A i \in 0 .. n : D[i] \in Chains
  BY <1>1, <1>2, <1>9, <1>j, IteratedType
<1>11. D \in [0 .. n -> Chains]
  <2>1. D = [i \in 0 .. n |-> D[i]]
    BY <1>7
  <2> QED
    BY <1>10, <2>1
<1> QED
  BY <1>8, <1>11 DEF D, n, Chains

LEMMA ChainAgree ==
  ASSUME NEW s \in Seq(Activations), NEW u \in Seq(Activations), NEW k \in Nat, Same(s, u, k)
  PROVE  ChainUpTo(s)[k] = ChainUpTo(u)[k]
<1> DEFINE A == ChainUpTo(s)
           B == ChainUpTo(u)
           P == {m \in 0 .. k : A[m] = B[m]}
<1>1. /\ A[0] = <<Main>> /\ \A m \in 1 .. Len(s) : A[m] = Chained(A[m - 1], s[m])
      /\ B[0] = <<Main>> /\ \A m \in 1 .. Len(u) : B[m] = Chained(B[m - 1], u[m])
  BY ChainRec
<1> HIDE DEF A, B
<1>2. 0 \in P
  <2>1. 0 \in 0 .. k /\ A[0] = B[0]
    BY <1>1
  <2> QED
    BY <2>1
<1>3. ASSUME NEW m \in 0 + 1 .. k, m - 1 \in P PROVE m \in P
  <2>1. m \in 1 .. Len(s) /\ m \in 1 .. Len(u) /\ m \in 1 .. k /\ s[m] = u[m]
    BY DEF Same
  <2>2. A[m] = B[m]
    BY <1>1, <1>3, <2>1
  <2> QED
    BY <2>1, <2>2
<1>4. \A m \in 0 .. k : m \in P
  <2> HIDE DEF P
  <2> QED
    BY <1>2, <1>3, Upwards
<1> QED
  BY <1>4 DEF A, B

(* What a push and a pop do to the chain                                   *)
LEMMA ChainPushed ==
  ASSUME NEW s \in Seq(Activations), NEW f \in Activations
  PROVE  ChainOf(Append(s, f)) = Chained(ChainOf(s), f)
<1> DEFINE u == Append(s, f)
           n == Len(s)
<1>1. u \in Seq(Activations) /\ Len(u) = n + 1 /\ u[n + 1] = f /\ n \in Nat /\ n + 1 \in 1 .. Len(u)
      /\ (n + 1) - 1 = n
  OBVIOUS
<1>2. Same(s, u, n)
  BY DEF Same
<1> HIDE DEF u
<1>3. ChainUpTo(s)[n] = ChainUpTo(u)[n]
  BY <1>1, <1>2, ChainAgree
<1>4. ChainUpTo(u)[n + 1] = Chained(ChainUpTo(u)[n], f)
  BY <1>1, ChainRec
<1> QED
  BY <1>1, <1>3, <1>4 DEF ChainOf, u

LEMMA ChainPopped ==
  ASSUME NEW s \in Seq(Activations), Len(s) > 1
  PROVE  /\ ChainOf(s) = Chained(ChainOf(Front(s)), s[Len(s)])
         /\ Front(s) \in Seq(Activations)
         /\ Len(Front(s)) = Len(s) - 1 /\ \A i \in 1 .. Len(s) - 1 : Front(s)[i] = s[i]
<1> DEFINE u == Front(s)
           n == Len(s)
           m == n - 1
<1>1. n \in 1 .. Len(s) /\ m \in Nat /\ m \in 1 .. Len(s) /\ n - 1 = m
  OBVIOUS
<1>2. u = SubSeq(s, 1, m)
  BY DEF Front
<1> HIDE DEF u, n, m
<1>3. u \in Seq(Activations) /\ Len(u) = m /\ Same(s, u, m) /\ \A i \in 1 .. m : u[i] = s[i]
  BY <1>1, <1>2, CutIs
<1>4. ChainUpTo(s)[m] = ChainUpTo(u)[m]
  BY <1>1, <1>3, ChainAgree
<1>5. ChainUpTo(s)[n] = Chained(ChainUpTo(s)[m], s[n])
  BY <1>1, ChainRec
<1> QED
  BY <1>1, <1>3, <1>4, <1>5 DEF ChainOf, u, n

LEMMA ChainCut ==
  ASSUME NEW s \in Seq(Activations), NEW m \in 1 .. Len(s),
         \A i \in m + 1 .. Len(s) : s[i].kind # "resume"
  PROVE  ChainOf(SubSeq(s, 1, m)) = ChainOf(s)
<1> DEFINE A == ChainUpTo(s)
           P == {i \in m .. Len(s) : A[i] = A[m]}
           u == SubSeq(s, 1, m)
<1>1. /\ m \in Nat /\ Len(s) \in Nat /\ \A i \in 1 .. Len(s) : A[i] = Chained(A[i - 1], s[i])
  BY ChainRec
<1> HIDE DEF A
<1>2. m \in P
  BY <1>1
<1>3. ASSUME NEW i \in m + 1 .. Len(s), i - 1 \in P PROVE i \in P
  <2>1. A[i] = A[i - 1]
    BY <1>1 DEF Chained
  <2> QED
    BY <1>1, <1>3, <2>1
<1>4. \A i \in m .. Len(s) : i \in P
  <2> HIDE DEF P
  <2> QED
    BY <1>1, <1>2, <1>3, Upwards
<1>5. A[Len(s)] = A[m]
  BY <1>1, <1>4
<1>6. u \in Seq(Activations) /\ Len(u) = m /\ Same(s, u, m)
  BY CutIs
<1> HIDE DEF u
<1>7. ChainUpTo(s)[m] = ChainUpTo(u)[m]
  BY <1>1, <1>6, ChainAgree
<1> QED
  BY <1>5, <1>6, <1>7 DEF ChainOf, A, u

(* The thread that runs is the last of the chain.                          *)
LEMMA ChainTop ==
  ASSUME NEW s \in Seq(Activations), s # <<>>, WellFormed(s)
  PROVE  /\ ChainOf(s) \in Seq(Threads) /\ ChainOf(s) # <<>>
         /\ Last(ChainOf(s)) = s[Len(s)].th
<1> DEFINE A == ChainUpTo(s)
           P == {i \in 1 .. Len(s) : A[i] # <<>> /\ Last(A[i]) = s[i].th}
<1>1. /\ A[0] = <<Main>> /\ \A i \in 0 .. Len(s) : A[i] \in Seq(Threads)
      /\ \A i \in 1 .. Len(s) : A[i] = Chained(A[i - 1], s[i])
      /\ Len(s) \in Nat \ {0} /\ s[1] = Frame("host", Main)
  BY ChainRec, HostFirst
<1> HIDE DEF A
<1>2. 1 \in P
  <2>1. 1 \in 1 .. Len(s) /\ 1 - 1 = 0
    BY <1>1
  <2>2. A[1] = <<Main>>
    BY <1>1, <2>1 DEF Chained, Frame
  <2>3. A[1] # <<>> /\ Last(A[1]) = Main
    BY <2>2 DEF Last
  <2> QED
    BY <1>1, <2>1, <2>3 DEF Frame
<1>3. ASSUME NEW i \in 1 + 1 .. Len(s), i - 1 \in P PROVE i \in P
  <2>1. i \in 1 .. Len(s) /\ i - 1 # 0 /\ i - 1 > 0 /\ A[i - 1] \in Seq(Threads) /\ Lies(s[i], s, i - 1)
    BY <1>1 DEF WellFormed
  <2>2. CASE s[i].kind = "resume"
    <3>1. A[i] = Append(A[i - 1], s[i].th)
      BY <1>1, <2>1, <2>2 DEF Chained
    <3>2. s[i].th \in Threads
      BY <2>1, ActivationTypes
    <3> QED
      BY <2>1, <3>1, <3>2 DEF Last
  <2>3. CASE s[i].kind # "resume"
    <3>1. A[i] = A[i - 1]
      BY <1>1, <2>1, <2>3 DEF Chained
    <3>2. s[i - 1].th = s[i].th
      BY <2>1, <2>3 DEF Lies
    <3> QED
      BY <1>3, <2>1, <3>1, <3>2
  <2> QED
    BY <2>2, <2>3
<1>4. \A i \in 1 .. Len(s) : i \in P
  <2> HIDE DEF P
  <2> QED
    BY <1>1, <1>2, <1>3, Upwards
<1> QED
  BY <1>1, <1>4 DEF A, ChainOf

-----------------------------------------------------------------------------
(* What costatus answers of a thread that does not run                     *)
StatusOf(r) ==
  IF r.status = "yield" THEN "suspended"
  ELSE IF r.status # "ok" THEN "dead"
  ELSE IF r.ci # <<>> THEN "normal" ELSE IF r.filled THEN "suspended" ELSE "dead"

StatesOf == [co \in Coros |-> CoStatus(L, co)]

LEMMA StatesAre ==
  ASSUME IInv
  PROVE  \A co \in Coros : StatesOf[co] = IF co = L THEN "running" ELSE StatusOf(th[co])
<1> SUFFICES ASSUME NEW co \in Coros
             PROVE  StatesOf[co] = IF co = L THEN "running" ELSE StatusOf(th[co])
  OBVIOUS
<1>1. th[co].status \in {"ok", "yield", "error"}
  BY Limits DEF IInv, Fits, States
<1>2. CoStatus(L, co) = IF co = L THEN "running" ELSE StatusOf(th[co])
  BY <1>1 DEF CoStatus, StatusOf
<1> QED
  BY <1>2 DEF StatesOf

LEMMA StatesBecome ==
  ASSUME IInv'
  PROVE  \A co \in Coros : StatesOf'[co] = IF co = L' THEN "running" ELSE StatusOf(th'[co])
<1> SUFFICES ASSUME NEW co \in Coros
             PROVE  StatesOf'[co] = IF co = L' THEN "running" ELSE StatusOf(th'[co])
  OBVIOUS
<1>1. th'[co].status \in {"ok", "yield", "error"}
  BY Limits DEF IInv, Fits, States
<1>2. CoStatus(L, co)' = IF co = L' THEN "running" ELSE StatusOf(th'[co])
  BY <1>1 DEF CoStatus, StatusOf
<1> QED
  BY <1>2 DEF StatesOf

LEMMA LastRuns ==
  ASSUME IInv, IInv'
  PROVE  /\ L = Last(ChainOf(cstack)) /\ L' = Last(ChainOf(cstack'))
         /\ ChainOf(cstack) \in Seq(Threads) /\ ChainOf(cstack) # <<>>
<1>1. /\ cstack \in Seq(Activations) /\ cstack # <<>> /\ WellFormed(cstack)
      /\ cstack' \in Seq(Activations) /\ cstack' # <<>> /\ WellFormed(cstack')
  BY DEF IInv, Fits
<1> QED
  BY <1>1, ChainTop DEF L, Deepest

(* Most steps leave the chain alone and change only the thread that runs:  *)
(* for Coroutines they are no steps.                                       *)
Still == ChainOf(cstack') = ChainOf(cstack) /\ \A co \in Coros : co # L => th'[co] = th[co]

LEMMA StillMaps ==
  ASSUME IInv, IInv', Still
  PROVE  ChainOf(cstack') = ChainOf(cstack) /\ StatesOf' = StatesOf
<1>1. ChainOf(cstack') = ChainOf(cstack) /\ L' = L
  BY LastRuns DEF Still
<1>2. \A co \in Coros : StatesOf'[co] = StatesOf[co]
  BY <1>1, StatesAre, StatesBecome DEF Still
<1> QED
  BY <1>1, <1>2 DEF StatesOf

LEMMA StillBecomes ==
  ASSUME IInv, NEW o, Becomes(L, o), ChainOf(o.stack) = ChainOf(cstack)
  PROVE  Still
<1>1. th \in [Threads -> States] /\ Coros \subseteq Threads /\ th' = [th EXCEPT ![L] = o.r] /\ cstack' = o.stack
  BY Present, Limits DEF Becomes, Put
<1> QED
  BY <1>1 DEF Still

LEMMA FramesAre ==
  ASSUME NEW t \in Threads
  PROVE  /\ \A k \in {"host", "cfn", "call", "handler", "hook"} :
              Frame(k, t) \in Activations /\ Frame(k, t).kind = k
         /\ \A n \in Nat : Counted("parser", t, n) \in Activations /\ Counted("parser", t, n).kind = "parser"
         /\ \A f \in {"L", "C"} : Activation(t, f) \in Activations /\ Activation(t, f).kind \in {"exec", "cfn"}
         /\ \A b \in BOOLEAN : [kind |-> "gctm", th |-> t, allowhook |-> b] \in Activations
BY DEF Frame, Counted, Activation, Activations

LEMMA PrecallStack ==
  ASSUME NEW r, NEW stack, NEW f, NEW entered
  PROVE  Precall(r, stack, f, entered).stack \in {stack, entered}
BY DEF Precall, Outcome

LEMMA ChainPushes ==
  ASSUME NEW s \in Seq(Activations), NEW f \in Activations, f.kind # "resume"
  PROVE  ChainOf(Append(s, f)) = ChainOf(s) /\ Append(s, f) \in Seq(Activations)
BY ChainPushed DEF Chained

LEMMA CallOverChain ==
  ASSUME NEW t \in Threads, NEW r, NEW under \in Seq(Activations), NEW f \in {"L", "C"}
  PROVE  ChainOf(CallOver(t, r, under, f).stack) = ChainOf(under)
<1> DEFINE s == Append(under, Frame("call", t))
           e == Append(s, Activation(t, f))
           d == [r EXCEPT !.nC = @ + 1]
<1>1. CallOver(t, r, under, f).stack \in {s, e}
  <2>1. Precall(d, s, f, e).stack \in {s, e}
    BY PrecallStack
  <2> QED
    BY <2>1 DEF CallOver, Outcome
<1>2. s \in Seq(Activations) /\ ChainOf(s) = ChainOf(under)
  BY FramesAre, ChainPushes
<1> HIDE DEF s
<1>3. ChainOf(e) = ChainOf(s)
  <2>1. Activation(t, f) \in Activations /\ Activation(t, f).kind # "resume"
    BY FramesAre
  <2> QED
    BY <1>2, <2>1, ChainPushes
<1> QED
  BY <1>1, <1>2, <1>3

LEMMA CallStill ==
  ASSUME IInv, NEW r, NEW under \in Seq(Activations), ChainOf(under) = ChainOf(cstack),
         NEW f \in {"L", "C"}, Becomes(L, CallOver(L, r, under, f))
  PROVE  Still
<1>1. L \in Threads
  BY Present
<1>2. ChainOf(CallOver(L, r, under, f).stack) = ChainOf(cstack)
  BY <1>1, CallOverChain
<1> QED
  BY <1>2, StillBecomes

LEMMA PushesStill ==
  ASSUME IInv, \/ \E f \in {"L", "C"} : Call(f) \/ \E ef \in Handlers : PCall(f, ef)
               \/ Load \/ Hook \/ Finalizer
  PROVE  Still
<1>1. cstack \in Seq(Activations) /\ L \in Threads /\ th[L] \in States
  BY Present
<1>2. ASSUME NEW g \in Activations, g.kind # "resume"
      PROVE  Append(cstack, g) \in Seq(Activations) /\ ChainOf(Append(cstack, g)) = ChainOf(cstack)
  BY <1>1, <1>2, ChainPushes
<1>3. ASSUME NEW f \in {"L", "C"}, Call(f) PROVE Still
  BY <1>1, <1>3, CallStill DEF Call
<1>4. ASSUME NEW f \in {"L", "C"}, NEW ef \in Handlers, PCall(f, ef) PROVE Still
  <2> DEFINE p == Protect(L, ef)
  <2>1. Running({"host", "cfn"}) /\ Becomes(L, CallOver(L, p.r, Append(cstack, p.frame), f)) /\ ef \in Result
    BY <1>4, Limits DEF PCall
  <2>2. p.frame \in Activations /\ p.frame.kind = "pcall"
    BY <2>1, ProtectIs
  <2> HIDE DEF p
  <2>3. Append(cstack, p.frame) \in Seq(Activations) /\ ChainOf(Append(cstack, p.frame)) = ChainOf(cstack)
    BY <1>2, <2>2
  <2> QED
    BY <2>1, <2>3, CallStill
<1>5. CASE Load
  <2> DEFINE p == Protect(L, th[L].errfunc)
             g == Counted("parser", L, 0)
  <2>1. Running({"host", "cfn"}) /\ th[L].errfunc \in Result
        /\ Becomes(L, Outcome(p.r, cstack \o <<p.frame, g>>, "run"))
    BY <1>1, <1>5 DEF Load, States
  <2>2. p.frame \in Activations /\ p.frame.kind = "pcall" /\ g \in Activations /\ g.kind = "parser"
    BY <1>1, <2>1, ProtectIs, FramesAre
  <2> HIDE DEF p, g
  <2>3. cstack \o <<p.frame, g>> = Append(Append(cstack, p.frame), g)
    BY <1>1, <2>2
  <2>4. Append(cstack, p.frame) \in Seq(Activations) /\ ChainOf(Append(cstack, p.frame)) = ChainOf(cstack)
    BY <1>2, <2>2
  <2>5. ChainOf(Append(Append(cstack, p.frame), g)) = ChainOf(cstack)
    BY <2>2, <2>4, ChainPushes
  <2> QED
    BY <2>1, <2>3, <2>5, StillBecomes DEF Outcome
<1>6. CASE Hook
  <2>1. Frame("hook", L) \in Activations /\ Frame("hook", L).kind = "hook"
    BY <1>1, FramesAre
  <2>2. Becomes(L, CallOver(L, [th[L] EXCEPT !.allowhook = FALSE], Append(cstack, Frame("hook", L)), "L"))
    BY <1>6 DEF Hook
  <2> QED
    BY <1>2, <2>1, <2>2, CallStill
<1>7. CASE Finalizer
  <2> DEFINE g == [kind |-> "gctm", th |-> L, allowhook |-> th[L].allowhook]
  <2>1. g \in Activations /\ g.kind = "gctm"
    BY <1>1, FramesAre DEF States
  <2>2. Becomes(L, CallOver(L, [th[L] EXCEPT !.allowhook = FALSE], Append(cstack, g), "C"))
    BY <1>7 DEF Finalizer
  <2> HIDE DEF g
  <2> QED
    BY <1>2, <2>1, <2>2, CallStill
<1> QED
  BY <1>3, <1>4, <1>5, <1>6, <1>7

LEMMA PopChain ==
  ASSUME IInv, Deepest.kind \notin {"host", "resume"}
  PROVE  Pop \in Seq(Activations) /\ ChainOf(Pop) = ChainOf(cstack)
<1>1. cstack \in Seq(Activations) /\ Deepest = cstack[Len(cstack)] /\ Len(cstack) > 1
  BY Present, NotHost
<1>2. ChainOf(cstack) = Chained(ChainOf(Pop), Deepest) /\ Pop \in Seq(Activations)
  BY <1>1, ChainPopped DEF Pop
<1> QED
  BY <1>2 DEF Chained

LEMMA RecountChain ==
  ASSUME IInv, Deepest.kind \in {"exec", "parser"}, NEW k \in Nat
  PROVE  ChainOf(Append(Pop, [Deepest EXCEPT !.n = k])) = ChainOf(cstack)
<1> DEFINE g == [Deepest EXCEPT !.n = k]
<1>1. g \in Activations /\ g.kind = Deepest.kind
  BY Present DEF Activations
<1>2. Pop \in Seq(Activations) /\ ChainOf(Pop) = ChainOf(cstack)
  BY PopChain
<1> HIDE DEF g
<1>3. ChainOf(Append(Pop, g)) = ChainOf(Pop)
  BY <1>1, <1>2, ChainPushes
<1> QED
  BY <1>2, <1>3 DEF g

LEMMA CountIs ==
  ASSUME IInv, Deepest.kind \in {"exec", "parser"}
  PROVE  Deepest.n \in Nat
BY Present DEF Activations

LEMMA CallByOpStill ==
  ASSUME IInv, NEW f \in {"L", "C"}, CallByOp(f)
  PROVE  Still
<1>1. cstack \in Seq(Activations) /\ L \in Threads /\ Deepest.kind = "exec" /\ Deepest.n \in Nat
  BY Present, CountIs DEF CallByOp, Running
<1> DEFINE e == IF f = "L" THEN Append(Pop, [Deepest EXCEPT !.n = Deepest.n + 1])
                ELSE Append(cstack, Activation(L, f))
           o == Precall(th[L], cstack, f, e)
<1>2. Becomes(L, o)
  BY DEF CallByOp
<1>3. ChainOf(e) = ChainOf(cstack)
  <2>1. CASE f = "L"
    <3>1. Deepest.n + 1 \in Nat
      BY <1>1
    <3> QED
      BY <1>1, <2>1, <3>1, RecountChain
  <2>2. CASE f # "L"
    BY <1>1, <2>2, FramesAre, ChainPushes
  <2> QED
    BY <2>1, <2>2
<1> HIDE DEF e
<1>4. o.stack \in {cstack, e}
  BY PrecallStack
<1> HIDE DEF o
<1> QED
  BY <1>2, <1>3, <1>4, StillBecomes

LEMMA CountsStill ==
  ASSUME IInv, EnterLevel \/ LeaveLevel \/ ReturnLua
  PROVE  Still
<1>1. Deepest.kind \in {"exec", "parser"} /\ Deepest.n \in Nat
  BY CountIs DEF EnterLevel, LeaveLevel, ReturnLua, Running
<1>2. CASE EnterLevel
  <2>1. Deepest.n + 1 \in Nat
    BY <1>1
  <2>2. ChainOf(Append(Pop, [Deepest EXCEPT !.n = Deepest.n + 1])) = ChainOf(cstack)
    BY <1>1, <2>1, RecountChain
  <2>3. \E r, m : Becomes(L, Outcome(r, Append(Pop, [Deepest EXCEPT !.n = Deepest.n + 1]), m))
    BY <1>2 DEF EnterLevel
  <2> QED
    BY <2>2, <2>3, StillBecomes DEF Outcome
<1>3. ASSUME Deepest.n - 1 \in Nat, NEW r, NEW m,
             Becomes(L, Outcome(r, Append(Pop, [Deepest EXCEPT !.n = Deepest.n - 1]), m))
      PROVE  Still
  <2>1. ChainOf(Append(Pop, [Deepest EXCEPT !.n = Deepest.n - 1])) = ChainOf(cstack)
    BY <1>1, <1>3, RecountChain
  <2> QED
    BY <1>3, <2>1, StillBecomes DEF Outcome
<1>4. CASE LeaveLevel
  <2>1. Deepest.n - 1 \in Nat
    BY <1>1, <1>4 DEF LeaveLevel
  <2> QED
    BY <1>3, <1>4, <2>1 DEF LeaveLevel
<1>5. CASE ReturnLua
  <2>1. Deepest.kind = "exec"
    BY <1>5 DEF ReturnLua, Running
  <2>2. CASE Deepest.n = 1
    <3>1. \E r : Becomes(L, Outcome(r, Pop, "return"))
      BY <1>5, <2>2 DEF ReturnLua
    <3> QED
      BY <2>1, <3>1, PopChain, StillBecomes DEF Outcome
  <2>3. CASE Deepest.n # 1
    <3>1. Deepest.n > 0
      BY <2>1, Present DEF Lies
    <3>2. Deepest.n - 1 \in Nat
      BY <1>1, <3>1
    <3> QED
      BY <1>3, <1>5, <2>3, <3>2 DEF ReturnLua
  <2> QED
    BY <2>2, <2>3
<1> QED
  BY <1>2, <1>4, <1>5

LEMMA PopsStill ==
  ASSUME IInv, \/ Parsed \/ ReturnC \/ CallReturns \/ PCallReturns \/ HookReturns
               \/ FinalizerReturns \/ HandlerReturns
  PROVE  Still
<1>1. Deepest.kind \notin {"host", "resume"}
  BY DEF Parsed, ReturnC, CallReturns, PCallReturns, HookReturns, FinalizerReturns, HandlerReturns,
         Running, Returned
<1>2. ChainOf(Pop) = ChainOf(cstack)
  BY <1>1, PopChain
<1>3. ASSUME NEW r, NEW m, Becomes(L, Outcome(r, Pop, m)) PROVE Still
  BY <1>2, <1>3, StillBecomes DEF Outcome
<1>4. CASE HandlerReturns
  BY <1>2, <1>4 DEF HandlerReturns, Still
<1> QED
  BY <1>3, <1>4 DEF Parsed, ReturnC, CallReturns, PCallReturns, HookReturns, FinalizerReturns

LEMMA SameStill ==
  ASSUME UNCHANGED <<cstack, th>>
  PROVE  Still
BY DEF Still

LEMMA ErrorMsgStill ==
  ASSUME IInv, ErrorMsg
  PROVE  Still
<1>1. cstack \in Seq(Activations) /\ L \in Threads
  BY Present
<1>2. CASE th[L].errfunc = "function"
  <2>1. Frame("handler", L) \in Activations /\ Frame("handler", L).kind = "handler"
    BY <1>1, FramesAre
  <2>2. /\ Append(cstack, Frame("handler", L)) \in Seq(Activations)
        /\ ChainOf(Append(cstack, Frame("handler", L))) = ChainOf(cstack)
    BY <1>1, <2>1, ChainPushes
  <2>3. Becomes(L, CallOver(L, th[L], Append(cstack, Frame("handler", L)), "C"))
    BY <1>2 DEF ErrorMsg
  <2> QED
    BY <2>2, <2>3, CallStill
<1>3. CASE th[L].errfunc # "function"
  BY <1>3, SameStill DEF ErrorMsg
<1> QED
  BY <1>2, <1>3

(* A jump stays in the thread, or goes to its own lua_resume.              *)
LEMMA NoneSince ==
  ASSUME IInv, Jump # 0
  PROVE  \A i \in Jump + 1 .. Len(cstack) : cstack[i].kind # "resume"
<1> DEFINE k == Jump
           n == Len(cstack)
<1>1. /\ cstack \in Seq(Activations) /\ WellFormed(cstack) /\ n \in Nat \ {0} /\ n \in 1 .. n
      /\ cstack[n].th = L
  BY Present
<1>2. k \in 1 .. n /\ cstack[k].th = L
  BY JumpTarget
<1> HIDE DEF k, n
<1>3. ASSUME NEW i \in k + 1 .. n PROVE cstack[i].kind # "resume"
  <2>1. i - 1 \in k .. n /\ n \in k .. n /\ i - 1 \in 1 .. n - 1 /\ i - 1 + 1 = i
    BY <1>1, <1>2
  <2>2. cstack[i - 1].th = L
    BY <1>1, <1>2, <2>1, Together DEF n
  <2> QED
    BY <1>1, <2>1, <2>2, NotResumed DEF n
<1> QED
  BY <1>3 DEF k, n

LEMMA CatchStill ==
  ASSUME IInv, Catch
  PROVE  Still
<1> DEFINE k == Jump
           u == SubSeq(cstack, 1, k - 1)
           n == Len(cstack)
<1>1. cstack \in Seq(Activations) /\ n \in Nat
  BY Present
<1>2. /\ k \in 1 .. n /\ k - 1 \in 1 .. n /\ cstack[k].kind = "pcall"
      /\ \A i \in k + 1 .. n : cstack[i].kind # "resume"
  BY JumpTarget, NoneSince DEF Catch
<1>3. \E r : Becomes(L, Outcome(r, u, "run"))
  BY DEF Catch
<1> HIDE DEF k, u, n
<1>4. u = SubSeq(cstack, 1, k - 1)
  BY DEF u
<1>5. ASSUME NEW i \in (k - 1) + 1 .. n PROVE cstack[i].kind # "resume"
  <2>1. i = k \/ i \in k + 1 .. n
    BY <1>1, <1>2
  <2> QED
    BY <1>2, <2>1
<1>6. ChainOf(u) = ChainOf(cstack)
  BY <1>1, <1>2, <1>4, <1>5, ChainCut DEF n
<1> QED
  BY <1>3, <1>6, StillBecomes DEF Outcome

(* Nowhere to jump to is met by the main thread, which nobody has resumed. *)
LEMMA PanicStill ==
  ASSUME IInv, Panic
  PROVE  Still
<1> DEFINE n == Len(cstack)
           u == <<Frame("host", Main)>>
<1>1. /\ cstack \in Seq(Activations) /\ WellFormed(cstack) /\ n \in Nat \ {0}
      /\ cstack[n].th = L /\ cstack # <<>> /\ L \in Threads /\ JumpIs(cstack, n, L, Jump)
  BY Present DEF Fine, SavedFine, Jump
<1>2. Jump = 0 /\ \E r : Becomes(L, Outcome(r, u, "run"))
  BY DEF Panic
<1>3. L = Main
  <2> SUFFICES ASSUME L # Main PROVE FALSE
    OBVIOUS
  <2>1. On(cstack, L)
    BY <1>1 DEF On
  <2>2. PICK m \in 1 .. n : cstack[m].th = L /\ cstack[m].kind = "resume"
    BY <1>1, <2>1, HasResume
  <2>3. m \in Own(cstack, n, L, {"pcall", "resume"})
    BY <2>2 DEF Own
  <2>4. Jump \in Own(cstack, n, L, {"pcall", "resume"})
    BY <1>1, <2>3 DEF JumpIs
  <2> QED
    BY <1>2, <2>4 DEF Own
<1>4. cstack[1] = Frame("host", Main) /\ 1 \in 1 .. n
  BY <1>1, HostFirst
<1>5. ASSUME NEW i \in 1 + 1 .. n PROVE cstack[i].kind # "resume"
  <2>1. i - 1 \in 1 .. n - 1 /\ i - 1 \in 1 .. n /\ n \in 1 .. n /\ i - 1 + 1 = i
    BY <1>1
  <2>2. cstack[1].th = cstack[n].th
    BY <1>1, <1>3, <1>4 DEF Frame
  <2>3. cstack[i - 1].th = L
    BY <1>1, <1>4, <2>1, <2>2, Together
  <2> QED
    BY <1>1, <2>1, <2>3, NotResumed
<1>6. ChainOf(SubSeq(cstack, 1, 1)) = ChainOf(cstack)
  BY <1>1, <1>4, <1>5, ChainCut
<1>7. SubSeq(cstack, 1, 1) = u
  <2>1. SubSeq(cstack, 1, 1) = <<cstack[1]>>
    <3>1. /\ SubSeq(cstack, 1, 1) \in Seq(Activations) /\ Len(SubSeq(cstack, 1, 1)) = 1
          /\ SubSeq(cstack, 1, 1)[1] = cstack[1]
      BY <1>1, <1>4, CutIs
    <3>2. \A q \in Seq(Activations) : Len(q) = 1 => q = <<q[1]>>
      OBVIOUS
    <3> QED
      BY <3>1, <3>2
  <2> QED
    BY <1>4, <2>1
<1> QED
  BY <1>2, <1>6, <1>7, StillBecomes DEF Outcome

(* A coroutine that yields runs until lua_resume returns.                  *)
LEMMA YieldStill ==
  ASSUME IInv, Yield
  PROVE  Still
<1> DEFINE n == Len(cstack)
<1>1. /\ cstack \in Seq(Activations) /\ Deepest = cstack[n] /\ Running({"cfn"}) /\ MayYield(L)
      /\ n \in Nat
  BY Present DEF Yield
<1>2. /\ n - 1 \in 1 .. n /\ cstack[n].kind = "cfn" /\ Last(Pop) = cstack[n - 1]
  BY <1>1, YieldTop
<1>3. Pop \in Seq(Activations) /\ ChainOf(Pop) = ChainOf(cstack)
  BY <1>1, <1>2, PopChain
<1>4. CASE cstack[n - 1].kind # "exec"
  <2>1. \E r : Becomes(L, Outcome(r, Pop, "return"))
    BY <1>2, <1>4 DEF Yield
  <2> QED
    BY <1>3, <2>1, StillBecomes DEF Outcome
<1>5. CASE cstack[n - 1].kind = "exec"
  <2>1. n - 2 \in 1 .. n
    BY <1>1, <1>5, YieldFinds
  <2>2. Len(Pop) = n - 1 /\ Pop[n - 1] = cstack[n - 1]
    <3>1. Len(cstack) > 1 /\ n - 1 \in 1 .. Len(cstack) - 1
      BY <1>1, <1>2
    <3> QED
      BY <1>1, <3>1, ChainPopped DEF Pop
  <2>3. Len(Pop) > 1
    BY <1>1, <2>1, <2>2
  <2> HIDE DEF n
  <2>4. ChainOf(Front(Pop)) = ChainOf(Pop)
    <3>1. ChainOf(Pop) = Chained(ChainOf(Front(Pop)), Pop[Len(Pop)])
      BY <1>3, <2>3, ChainPopped
    <3> QED
      BY <1>5, <2>2, <3>1 DEF Chained
  <2>5. \E r : Becomes(L, Outcome(r, Front(Pop), "return"))
    BY <1>2, <1>5 DEF Yield
  <2> QED
    BY <1>3, <2>4, <2>5, StillBecomes DEF Outcome
<1> QED
  BY <1>4, <1>5

-----------------------------------------------------------------------------
(* The steps of the coroutines                                             *)
LEMMA Appended ==
  ASSUME NEW c \in Seq(Threads), NEW t \in Threads
  PROVE  /\ Append(c, t) \in Seq(Threads) /\ Front(Append(c, t)) = c /\ Last(Append(c, t)) = t
         /\ c # <<>> => Len(Append(c, t)) > 1
<1> DEFINE d == Append(c, t)
<1>1. d \in Seq(Threads) /\ Len(d) = Len(c) + 1 /\ d[Len(c) + 1] = t /\ Len(c) \in Nat
  OBVIOUS
<1>2. Last(d) = t
  BY <1>1 DEF Last
<1>3. Front(d) = c
  <2>1. SubSeq(Append(c, t), 1, Len(c)) = c
    OBVIOUS
  <2>2. Front(d) = SubSeq(d, 1, Len(c))
    BY <1>1 DEF Front
  <2> QED
    BY <2>1, <2>2
<1>4. c # <<>> => Len(d) > 1
  BY <1>1
<1> QED
  BY <1>1, <1>2, <1>3, <1>4

LEMMA ResumeMaps ==
  ASSUME IInv, IInv', NEW co \in Coros, CoStatus(L, co) = "suspended",
         ChainOf(cstack') = Append(ChainOf(cstack), co),
         \A c \in Coros : c # co => th'[c] = th[c],
         L \in Coros => StatusOf(th[L]) = "normal"
  PROVE  Abstract!Resume(co)
<1>1. /\ L = Last(ChainOf(cstack)) /\ L' = Last(ChainOf(cstack'))
      /\ ChainOf(cstack) \in Seq(Threads) /\ co \in Threads
  BY LastRuns, Limits
<1>2. L' = co /\ L # co
  <2>1. L # co
    BY DEF CoStatus
  <2> QED
    BY <1>1, <2>1, Appended
<1>3. StatesOf[co] = "suspended"
  BY DEF StatesOf
<1>4. ASSUME NEW c \in Coros
      PROVE  StatesOf'[c] = IF c = co THEN "running" ELSE IF c = Last(ChainOf(cstack)) THEN "normal" ELSE StatesOf[c]
  <2>1. StatesOf'[c] = IF c = co THEN "running" ELSE StatusOf(th'[c])
    BY <1>2, StatesBecome
  <2>2. StatesOf[c] = IF c = L THEN "running" ELSE StatusOf(th[c])
    BY StatesAre
  <2> QED
    BY <1>1, <2>1, <2>2
<1>5. StatesOf' = [c \in Coros |-> IF c = co THEN "running"
                                   ELSE IF c = Last(ChainOf(cstack)) THEN "normal" ELSE StatesOf[c]]
  <2>1. StatesOf' = [c \in Coros |-> StatesOf'[c]]
    BY DEF StatesOf
  <2> QED
    BY <1>4, <2>1
<1> QED
  BY <1>3, <1>5 DEF Abstract!Resume, Abstract!Last, Last, ChainOf, StatesOf

LEMMA LeaveMaps ==
  ASSUME IInv, IInv', L \in Coros, ChainOf(cstack) = Append(ChainOf(cstack'), L),
         \A c \in Coros : c # L => th'[c] = th[c], L' # L
  PROVE  Abstract!Leave(StatusOf(th'[L]))
<1> DEFINE a == StatusOf(th'[L])
<1>1. /\ L = Last(ChainOf(cstack)) /\ L' = Last(ChainOf(cstack')) /\ L \in Threads
      /\ ChainOf(cstack') \in Seq(Threads) /\ ChainOf(cstack') # <<>>
  <2>1. cstack' \in Seq(Activations) /\ cstack' # <<>> /\ WellFormed(cstack')
    BY DEF IInv, Fits
  <2> QED
    BY <2>1, LastRuns, ChainTop, Limits
<1>2. ChainOf(cstack') = Front(ChainOf(cstack)) /\ Len(ChainOf(cstack)) > 1
  BY <1>1, Appended
<1>3. ASSUME NEW c \in Coros
      PROVE  StatesOf'[c] = IF c = Last(ChainOf(cstack)) THEN a
                            ELSE IF c = Last(Front(ChainOf(cstack))) THEN "running" ELSE StatesOf[c]
  <2>1. StatesOf'[c] = IF c = L' THEN "running" ELSE StatusOf(th'[c])
    BY StatesBecome
  <2>2. StatesOf[c] = IF c = L THEN "running" ELSE StatusOf(th[c])
    BY StatesAre
  <2>3. L' = Last(Front(ChainOf(cstack)))
    BY <1>1, <1>2
  <2> QED
    BY <1>1, <2>1, <2>2, <2>3
<1> HIDE DEF a
<1>4. StatesOf' = [c \in Coros |-> IF c = Last(ChainOf(cstack)) THEN a
                                   ELSE IF c = Last(Front(ChainOf(cstack))) THEN "running" ELSE StatesOf[c]]
  <2>1. StatesOf' = [c \in Coros |-> StatesOf'[c]]
    BY DEF StatesOf
  <2> QED
    BY <1>3, <2>1
<1>5. Abstract!Leave(a)
  BY <1>2, <1>4 DEF Abstract!Leave, Abstract!Last, Abstract!Front, Last, Front, ChainOf, StatesOf
<1> QED
  BY <1>5 DEF a

(* Coroutines that do not run are created anew or die at once.             *)
LEMMA OffMaps ==
  ASSUME IInv, IInv', NEW co \in Coros, co # L, UNCHANGED cstack,
         \A c \in Coros : c # co => th'[c] = th[c]
  PROVE  /\ ChainOf(cstack') = ChainOf(cstack)
         /\ StatesOf' = [StatesOf EXCEPT ![co] = StatusOf(th'[co])]
<1>1. ChainOf(cstack') = ChainOf(cstack) /\ L' = L
  BY LastRuns
<1>2. ASSUME NEW c \in Coros
      PROVE  StatesOf'[c] = IF c = co THEN StatusOf(th'[co]) ELSE StatesOf[c]
  <2>1. StatesOf'[c] = IF c = L THEN "running" ELSE StatusOf(th'[c])
    BY <1>1, StatesBecome
  <2>2. StatesOf[c] = IF c = L THEN "running" ELSE StatusOf(th[c])
    BY StatesAre
  <2> QED
    BY <2>1, <2>2
<1>3. StatesOf' = [c \in Coros |-> StatesOf'[c]] /\ DOMAIN StatesOf = Coros
  BY DEF StatesOf
<1>4. StatesOf' = [c \in Coros |-> IF c = co THEN StatusOf(th'[co]) ELSE StatesOf[c]]
  BY <1>2, <1>3
<1> QED
  BY <1>1, <1>3, <1>4

(* A thread that calls auxresume is normal from then on.                   *)
LEMMA CallerIs ==
  ASSUME IInv, Running({"cfn"})
  PROVE  L \in Coros => StatusOf(th[L]) = "normal"
<1> SUFFICES ASSUME L \in Coros PROVE StatusOf(th[L]) = "normal"
  OBVIOUS
<1> DEFINE x == RunUpTo(cstack, L)[Len(cstack) - 1]
<1>1. /\ cstack \in Seq(Activations) /\ Len(cstack) \in 1 .. Len(cstack) /\ Steady(cstack, th)
      /\ Deepest = cstack[Len(cstack)] /\ Deepest.th = L /\ Deepest.kind = "cfn"
      /\ L \in Threads /\ L # Main /\ th[L] \in States /\ Fine(cstack, L, th[L])
  BY Present, Limits DEF Running
<1>2. x \in Seq({"L", "C"}) /\ th[L].ci = x \o Shown(Deepest, L)
  BY <1>1, TopIs
<1>3. On(cstack, L)
  BY <1>1 DEF On
<1>4. th[L].status = "ok"
  BY <1>1, <1>3 DEF Steady, Fine, StatusFine, States
<1>5. Shown(Deepest, L) = <<"C">>
  BY <1>1 DEF Shown
<1> HIDE DEF x
<1>6. th[L].ci # <<>>
  BY <1>2, <1>5
<1> QED
  BY <1>4, <1>6 DEF StatusOf

LEMMA CreateMaps ==
  ASSUME IInv, IInv', NEW co \in Coros, Create(co)
  PROVE  Abstract!Create(co)
<1>1. /\ Running({"cfn"}) /\ CoStatus(L, co) = "dead" /\ cstack' = cstack
      /\ th' = [th EXCEPT ![co] = NewThread]
  BY DEF Create, Put
<1>2. co # L /\ co \in Threads /\ th \in [Threads -> States]
  BY <1>1, NotOn, Present
<1>3. th'[co] = NewThread /\ \A c \in Coros : c # co => th'[c] = th[c]
  BY <1>1, <1>2, Limits
<1>4. /\ ChainOf(cstack') = ChainOf(cstack)
      /\ StatesOf' = [StatesOf EXCEPT ![co] = StatusOf(th'[co])]
  BY <1>1, <1>2, <1>3, OffMaps
<1>5. StatusOf(th'[co]) = "suspended"
  BY <1>3 DEF StatusOf, NewThread
<1>6. StatesOf[co] = "dead"
  BY <1>1 DEF StatesOf
<1> QED
  BY <1>4, <1>5, <1>6 DEF Abstract!Create, ChainOf, StatesOf

LEMMA TooDeepMaps ==
  ASSUME IInv, IInv', NEW co \in Coros, ResumeTooDeep(co)
  PROVE  Abstract!Refuse(co) \/ UNCHANGED Abstract!vars
<1> DEFINE r == [th[co] EXCEPT !.nC = th[L].nC, !.filled = FALSE]
<1>1. /\ Running({"cfn"}) /\ CoStatus(L, co) = "suspended" /\ cstack' = cstack
      /\ th' = [th EXCEPT ![co] = r]
  BY DEF ResumeTooDeep, Resumable, Put
<1>2. co # L /\ co \in Threads /\ th \in [Threads -> States] /\ th[co] \in States
  BY <1>1, NotOn, Present
<1>3. th'[co] = r /\ \A c \in Coros : c # co => th'[c] = th[c]
  BY <1>1, <1>2, Limits
<1>4. /\ ChainOf(cstack') = ChainOf(cstack)
      /\ StatesOf' = [StatesOf EXCEPT ![co] = StatusOf(th'[co])]
  BY <1>1, <1>2, <1>3, OffMaps
<1>5. r.status = th[co].status /\ r.ci = th[co].ci /\ ~ r.filled
  BY <1>2 DEF States
<1> HIDE DEF r
<1>6. StatesOf[co] = "suspended" /\ StatesOf[co] = StatusOf(th[co]) /\ DOMAIN StatesOf = Coros
  BY <1>1, <1>2, StatesAre DEF StatesOf
<1>7. StatusOf(r) \in {"suspended", "dead"}
  BY <1>5, <1>6 DEF StatusOf
<1>8. CASE StatusOf(r) = "dead"
  <2>1. StatesOf' = [StatesOf EXCEPT ![co] = "dead"]
    BY <1>3, <1>4, <1>8
  <2> QED
    BY <1>4, <1>6, <2>1 DEF Abstract!Refuse, ChainOf, StatesOf
<1>9. CASE StatusOf(r) = "suspended"
  <2>1. StatesOf' = [c \in Coros |-> StatesOf'[c]] /\ StatesOf = [c \in Coros |-> StatesOf[c]]
    BY DEF StatesOf
  <2>2. \A c \in Coros : StatesOf'[c] = StatesOf[c]
    BY <1>3, <1>4, <1>6, <1>9
  <2>3. StatesOf' = StatesOf
    BY <2>1, <2>2
  <2> QED
    BY <1>4, <2>3 DEF Abstract!vars, ChainOf, StatesOf
<1> QED
  BY <1>7, <1>8, <1>9

LEMMA UnderChain ==
  ASSUME IInv, NEW co \in Coros, Resumable(co), th[L].nC < MaxCCalls
  PROVE  /\ UnderResume(co) \in Seq(Activations)
         /\ ChainOf(UnderResume(co)) = Append(ChainOf(cstack), co)
<1> DEFINE f == [kind |-> "resume", th |-> co, previous |-> 0]
<1>1. UnderResume(co) = Append(cstack, f) /\ cstack \in Seq(Activations) /\ co \in Threads
  BY ResumeFinds, Present, Limits
<1>2. f \in Activations /\ f.kind = "resume" /\ f.th = co
  BY <1>1 DEF Activations
<1> HIDE DEF f
<1>3. Append(cstack, f) \in Seq(Activations)
  BY <1>1, <1>2
<1>4. ChainOf(Append(cstack, f)) = Append(ChainOf(cstack), co)
  BY <1>1, <1>2, ChainPushed DEF Chained
<1> QED
  BY <1>1, <1>3, <1>4

LEMMA StartMaps ==
  ASSUME IInv, IInv', NEW co \in Coros, Start(co)
  PROVE  Abstract!Resume(co)
<1>1. /\ Running({"cfn"}) /\ CoStatus(L, co) = "suspended" /\ Resumable(co) /\ th[L].nC < MaxCCalls
  BY DEF Start, Resumable
<1>2. /\ UnderResume(co) \in Seq(Activations)
      /\ ChainOf(UnderResume(co)) = Append(ChainOf(cstack), co)
  BY <1>1, UnderChain
<1>3. PICK a \in {"L", "C"} :
        Becomes(co, Precall(Entered(co), UnderResume(co), a,
                            Append(UnderResume(co), Activation(co, a))))
  BY DEF Start
<1> DEFINE e == Append(UnderResume(co), Activation(co, a))
           o == Precall(Entered(co), UnderResume(co), a, e)
<1>4. ChainOf(e) = ChainOf(UnderResume(co))
  <2>1. Activation(co, a) \in Activations /\ Activation(co, a).kind # "resume"
    BY FramesAre, Limits
  <2> QED
    BY <1>2, <2>1, ChainPushes
<1>5. th' = [th EXCEPT ![co] = o.r] /\ cstack' = o.stack
  BY <1>3 DEF Becomes, Put
<1> HIDE DEF e
<1>6. o.stack \in {UnderResume(co), e}
  BY PrecallStack
<1> HIDE DEF o
<1>7. ChainOf(cstack') = Append(ChainOf(cstack), co)
  BY <1>2, <1>4, <1>5, <1>6
<1>8. \A c \in Coros : c # co => th'[c] = th[c]
  BY <1>5, Present, Limits
<1> QED
  BY <1>1, <1>7, <1>8, CallerIs, ResumeMaps

LEMMA NotCallableMaps ==
  ASSUME IInv, IInv', NEW co \in Coros, NotCallable(co)
  PROVE  Abstract!Resume(co)
<1>1. /\ Running({"cfn"}) /\ CoStatus(L, co) = "suspended" /\ Resumable(co) /\ th[L].nC < MaxCCalls
      /\ th' = [th EXCEPT ![co] = Entered(co)] /\ cstack' = UnderResume(co)
  BY DEF NotCallable, Resumable, Becomes, Put, Outcome
<1>2. ChainOf(cstack') = Append(ChainOf(cstack), co)
  BY <1>1, UnderChain
<1>3. \A c \in Coros : c # co => th'[c] = th[c]
  BY <1>1, Present, Limits
<1> QED
  BY <1>1, <1>2, <1>3, CallerIs, ResumeMaps

LEMMA ContinueMaps ==
  ASSUME IInv, IInv', NEW co \in Coros, Continue(co)
  PROVE  Abstract!Resume(co)
<1> DEFINE r == [Entered(co) EXCEPT !.ci = Front(@)]
           g == Counted("exec", co, Len(r.ci))
<1>1. /\ Running({"cfn"}) /\ CoStatus(L, co) = "suspended" /\ Resumable(co) /\ th[L].nC < MaxCCalls
      /\ th' = [th EXCEPT ![co] = r] /\ cstack' = Append(UnderResume(co), g)
  BY DEF Continue, Resumable, Becomes, Put, Outcome
<1>2. /\ UnderResume(co) \in Seq(Activations)
      /\ ChainOf(UnderResume(co)) = Append(ChainOf(cstack), co)
  BY <1>1, UnderChain
<1>3. g.kind = "exec"
  BY DEF Counted
<1> HIDE DEF g, r
<1>4. g \in Activations
  <2>1. cstack' \in Seq(Activations)
    BY DEF IInv, Fits
  <2> DEFINE n == Len(UnderResume(co)) + 1
  <2>2. Len(cstack') = n /\ cstack'[n] = g /\ n \in 1 .. n
    BY <1>1, <1>2
  <2> QED
    BY <2>1, <2>2
<1>5. ChainOf(cstack') = Append(ChainOf(cstack), co)
  BY <1>1, <1>2, <1>3, <1>4, ChainPushes
<1>6. \A c \in Coros : c # co => th'[c] = th[c]
  BY <1>1, Present, Limits
<1> QED
  BY <1>1, <1>5, <1>6, CallerIs, ResumeMaps

(* The C stack is cut below a lua_resume.                                  *)
LEMMA BelowResume ==
  ASSUME NEW s \in Seq(Activations), WellFormed(s), NEW k \in 1 .. Len(s), s[k].kind = "resume",
         s[k].th = s[Len(s)].th, \A i \in k + 1 .. Len(s) : s[i].kind # "resume"
  PROVE  LET u == SubSeq(s, 1, k - 1)
         IN  /\ ChainOf(s) = Append(ChainOf(u), s[k].th)
             /\ u # <<>> /\ u[Len(u)].th # s[k].th /\ s[k].th \in Coros
<1> DEFINE m == k - 1
           u == SubSeq(s, 1, m)
           v == SubSeq(s, 1, k)
<1>1. Lies(s[k], s, m) /\ k \in Nat /\ Len(s) \in Nat
  BY DEF WellFormed
<1>2. m # 0
  BY <1>1 DEF Lies
<1>3. m \in 1 .. Len(s) /\ m \in 1 .. m /\ k \in 1 .. k /\ m \in 1 .. k
  <2> HIDE DEF u, v
  <2> QED
    BY <1>1, <1>2
<1>4. u \in Seq(Activations) /\ Len(u) = m /\ u # <<>> /\ u[m] = s[m] /\ Same(s, u, m)
  <2> HIDE DEF m
  <2> QED
    BY <1>3, CutIs
<1>5. s[m].th # s[k].th /\ s[k].th \in Coros
  <2> HIDE DEF m, u, v
  <2> QED
    BY <1>1, <1>3 DEF Lies
<1>6. ChainOf(v) = ChainOf(s)
  BY ChainCut
<1>7. v \in Seq(Activations) /\ Len(v) = k /\ Same(s, v, k)
  BY CutIs
<1>8. ChainUpTo(s)[k] = Append(ChainUpTo(s)[m], s[k].th)
  BY ChainRec DEF Chained
<1> HIDE DEF u, v
<1>9. ChainUpTo(s)[k] = ChainUpTo(v)[k]
  BY <1>1, <1>7, ChainAgree
<1>10. ChainUpTo(s)[m] = ChainUpTo(u)[m]
  BY <1>1, <1>3, <1>4, ChainAgree
<1>11. ChainOf(s) = Append(ChainOf(u), s[k].th)
  BY <1>4, <1>6, <1>7, <1>8, <1>9, <1>10 DEF ChainOf
<1> QED
  BY <1>4, <1>5, <1>11 DEF u

LEMMA EndMaps ==
  ASSUME IInv, IInv', Returned("resume"), NEW q, q = Resumed(th[L], Deepest),
         NEW r, r = q \/ (q.status = "ok" /\ r = [q EXCEPT !.filled = TRUE, !.entry = "result"]),
         th' = [th EXCEPT ![L] = r], cstack' = Pop
  PROVE  Abstract!Leave("suspended") \/ Abstract!Leave("dead")
<1> DEFINE n == Len(cstack)
           o == th[L]
           u == SubSeq(cstack, 1, n - 1)
<1>1. /\ mode = "return" /\ Deepest.kind = "resume"
      /\ q = [o EXCEPT !.errorJmp = Deepest.previous, !.nC = @ - 1] /\ cstack' = u
  BY DEF Returned, Resumed, Pop, Front
<1>2. /\ cstack \in Seq(Activations) /\ WellFormed(cstack) /\ n \in 1 .. n /\ n \in Nat /\ cstack # <<>>
      /\ Deepest = cstack[n] /\ cstack[n].th = L /\ o \in States /\ Fine(cstack, L, o)
      /\ th \in [Threads -> States] /\ L \in Threads /\ Lies(Deepest, cstack, n - 1)
  BY Present
<1>3. /\ r.status = o.status /\ r.ci = o.ci
      /\ r.filled = o.filled \/ (o.status = "ok" /\ r.filled = TRUE)
  <2>1. q.status = o.status /\ q.ci = o.ci /\ q.filled = o.filled
    BY <1>1, <1>2 DEF States
  <2>2. CASE r = q
    BY <2>1, <2>2
  <2>3. CASE q.status = "ok" /\ r = [q EXCEPT !.filled = TRUE, !.entry = "result"]
    <3>1. DOMAIN q = DOMAIN o
      BY <1>1
    <3>2. r.status = q.status /\ r.ci = q.ci /\ r.filled = TRUE
      BY <1>2, <2>3, <3>1 DEF States
    <3> QED
      BY <2>1, <2>3, <3>2
  <2> QED
    BY <2>2, <2>3
<1> HIDE DEF o
<1>4. /\ ChainOf(cstack) = Append(ChainOf(u), L) /\ u # <<>> /\ u[Len(u)].th # L /\ L \in Coros
  <2>1. \A i \in n + 1 .. n : cstack[i].kind # "resume"
    BY <1>2
  <2> HIDE DEF n
  <2>2. n = Len(cstack)
    BY DEF n
  <2> QED
    BY <1>1, <1>2, <2>1, <2>2, BelowResume
<1>5. L' # L
  BY <1>1, <1>4 DEF L, Deepest
<1>6. th'[L] = r /\ \A c \in Coros : c # L => th'[c] = th[c]
  BY <1>1, <1>2, Limits
<1>7. Abstract!Leave(StatusOf(th'[L]))
  BY <1>1, <1>4, <1>5, <1>6, LeaveMaps
<1>8. StatusOf(r) \in {"suspended", "dead"}
  <2>1. On(cstack, L) /\ L # Main
    BY <1>2, <1>4, Limits DEF On
  <2>3. CASE o.status = "ok"
    <3>1. o.ci = RunUpTo(cstack, L)[n]
      BY <1>2, <2>1, <2>3 DEF Fine, FramesFine
    <3>2. \A j \in 1 .. n - 1 : cstack[j].th # L
      BY <1>1, <1>2 DEF Lies
    <3>3. \A j \in 0 + 1 .. n : cstack[j].th = L => cstack[j].kind \notin Code
      BY <1>1, <1>2, <3>2 DEF Code
    <3>4. RunUpTo(cstack, L)[n] = RunUpTo(cstack, L)[0]
      <4>1. 0 \in 0 .. Len(cstack) /\ n \in 0 .. Len(cstack)
        BY <1>2
      <4> QED
        BY <1>2, <3>3, <4>1, RunSkips
    <3>5. o.ci = <<>>
      BY <1>2, <3>1, <3>4, RunRec
    <3> QED
      BY <1>3, <2>3, <3>5 DEF StatusOf
  <2>4. CASE o.status # "ok"
    BY <1>3, <2>4 DEF StatusOf
  <2> QED
    BY <2>3, <2>4
<1> QED
  BY <1>6, <1>7, <1>8

LEMMA ReturnMaps ==
  ASSUME IInv, IInv', ResumeReturns \/ TooManyResults
  PROVE  Abstract!Leave("suspended") \/ Abstract!Leave("dead")
<1> DEFINE q == Resumed(th[L], Deepest)
           full == [q EXCEPT !.filled = TRUE, !.entry = "result"]
<1>1. CASE ResumeReturns
  <2>1. Returned("resume") /\ th' = [th EXCEPT ![L] = q] /\ cstack' = Pop
    BY <1>1 DEF ResumeReturns, Becomes, Put, Outcome
  <2> QED
    BY <2>1, EndMaps
<1>2. CASE TooManyResults
  <2> DEFINE r == IF q.status = "ok" THEN full ELSE q
  <2>1. Returned("resume") /\ th' = [th EXCEPT ![L] = r] /\ cstack' = Pop
    BY <1>2 DEF TooManyResults, Becomes, Put, Outcome
  <2>2. r = q \/ (q.status = "ok" /\ r = [q EXCEPT !.filled = TRUE, !.entry = "result"])
    OBVIOUS
  <2> HIDE DEF r, q
  <2>3. q = Resumed(th[L], Deepest)
    BY DEF q
  <2> QED
    BY <2>1, <2>2, <2>3, EndMaps
<1> QED
  BY <1>1, <1>2

LEMMA FailMaps ==
  ASSUME IInv, IInv', CoroutineFails
  PROVE  Abstract!Leave("dead")
<1> DEFINE k == Jump
           r == [NewThread EXCEPT !.status = "error", !.errorJmp = Target.previous]
           u == SubSeq(cstack, 1, k - 1)
<1>1. /\ k # 0 /\ Target.kind = "resume" /\ th' = [th EXCEPT ![L] = r] /\ cstack' = u
  BY DEF CoroutineFails, Becomes, Put, Outcome
<1>2. /\ cstack \in Seq(Activations) /\ WellFormed(cstack) /\ cstack[Len(cstack)].th = L
      /\ th \in [Threads -> States] /\ L \in Threads
  BY Present
<1>3. /\ k \in 1 .. Len(cstack) /\ cstack[k].kind = "resume" /\ cstack[k].th = L
      /\ \A i \in k + 1 .. Len(cstack) : cstack[i].kind # "resume"
  BY <1>1, JumpTarget, NoneSince
<1>4. StatusOf(r) = "dead"
  BY DEF StatusOf, NewThread
<1> HIDE DEF k, r
<1>5. /\ ChainOf(cstack) = Append(ChainOf(u), L) /\ u # <<>> /\ u[Len(u)].th # L /\ L \in Coros
  BY <1>2, <1>3, BelowResume
<1>6. L' # L
  BY <1>1, <1>5 DEF L, Deepest
<1>7. th'[L] = r /\ \A c \in Coros : c # L => th'[c] = th[c]
  BY <1>1, <1>2, Limits
<1>8. Abstract!Leave(StatusOf(th'[L]))
  BY <1>1, <1>5, <1>6, <1>7, LeaveMaps
<1> QED
  BY <1>4, <1>7, <1>8

LEMMA InitMaps ==
  ASSUME Init
  PROVE  Abstract!Init
<1> DEFINE s == <<Frame("host", Main)>>
<1>1. IInv /\ cstack = s /\ th = [t \in Threads |-> NewThread]
  BY InitHolds DEF Init
<1>2. cstack \in Seq(Activations) /\ Len(cstack) = 1 /\ cstack[1] = Frame("host", Main)
  BY <1>1, Present
<1>3. L = Main /\ Main \notin Coros /\ Coros \subseteq Threads
  BY <1>2, Limits DEF L, Deepest, Frame
<1>4. ChainOf(cstack) = <<Main>>
  <2>1. ChainUpTo(cstack)[1] = Chained(ChainUpTo(cstack)[1 - 1], cstack[1]) /\ ChainUpTo(cstack)[0] = <<Main>>
    BY <1>2, ChainRec
  <2> QED
    BY <1>2, <2>1 DEF Chained, Frame, ChainOf
<1>5. \A c \in Coros : StatesOf[c] = "suspended"
  BY <1>1, <1>3, StatesAre DEF StatusOf, NewThread
<1>6. StatesOf = [c \in Coros |-> "suspended"]
  <2>1. StatesOf = [c \in Coros |-> StatesOf[c]]
    BY DEF StatesOf
  <2> QED
    BY <1>5, <2>1
<1> QED
  BY <1>4, <1>6 DEF Abstract!Init, ChainOf, StatesOf

LEMMA StepMaps ==
  ASSUME IInv, IInv', [Next]_vars
  PROVE  [Abstract!Next]_(Abstract!vars)
<1>1. ASSUME Still PROVE UNCHANGED Abstract!vars
  <2>1. ChainOf(cstack') = ChainOf(cstack) /\ StatesOf' = StatesOf
    BY <1>1, StillMaps
  <2> QED
    BY <2>1 DEF Abstract!vars, ChainOf, StatesOf
<1>2. ASSUME NEW f \in {"L", "C"}, Entry(f) PROVE UNCHANGED Abstract!vars
  BY <1>1, <1>2, CallByOpStill, PushesStill DEF Entry
<1>3. CASE Hook \/ Finalizer \/ Load \/ EnterLevel \/ LeaveLevel \/ Parsed
  BY <1>1, <1>3, PushesStill, CountsStill, PopsStill
<1>4. CASE Return
  BY <1>1, <1>4, CountsStill, PopsStill DEF Return
<1>5. CASE Error
  <2>1. CASE CoroutineFails
    BY <2>1, FailMaps DEF Abstract!Next
  <2>2. CASE Raise \/ ThrowAtOnce
    BY <1>1, <2>2, SameStill DEF Raise, ThrowAtOnce
  <2>3. CASE ErrorMsg \/ Catch \/ Panic
    BY <1>1, <2>3, ErrorMsgStill, CatchStill, PanicStill
  <2> QED
    BY <1>5, <2>1, <2>2, <2>3 DEF Error
<1>6. ASSUME NEW co \in Coros, Coroutine(co) PROVE [Abstract!Next]_(Abstract!vars)
  BY <1>6, CreateMaps, TooDeepMaps, StartMaps, NotCallableMaps, ContinueMaps
     DEF Coroutine, Abstract!Next
<1>7. CASE YieldRefused
  BY <1>1, <1>7, SameStill DEF YieldRefused
<1>8. CASE Yield
  BY <1>1, <1>8, YieldStill
<1>9. CASE ResumeReturns \/ TooManyResults
  BY <1>9, ReturnMaps DEF Abstract!Next
<1>10. CASE UNCHANGED vars
  BY <1>1, <1>10, SameStill DEF vars
<1> QED
  BY <1>2, <1>3, <1>4, <1>5, <1>6, <1>7, <1>8, <1>9, <1>10 DEF Next

(* Whatever coroutines do - resume one another, yield across calls, fail,   *)
(* are refused for lack of C stack - the threads on the C stack are a chain *)
(* of resumes, and costatus answers what the coroutine library promises     *)
(* (lua_resume, lua_yield, auxresume, costatus).                            *)
THEOREM AlwaysCoroutines == Spec => IsCoroutines
<1>1. IInv /\ IInv' /\ [Next]_vars => [Abstract!Next]_(Abstract!vars)
  BY StepMaps
<1>2. Init => Abstract!Init
  BY InitMaps
<1> QED
  BY <1>1, <1>2, Invariance, PTL DEF Spec, IsCoroutines, Abstract!Spec
=============================================================================

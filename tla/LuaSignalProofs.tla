--------------------------- MODULE LuaSignalProofs ---------------------------
(***************************************************************************)
(* The safety invariants of LuaSignal for any threads, signals, arguments, *)
(* call graph and depth of nesting.                                        *)
(***************************************************************************)
EXTENDS LuaSignal, FiniteSetTheorems, SequenceTheorems, TLAPS

\* Lref counts the scripts that run on a thread: all but perhaps the call at
\* the top, since a script that raised a signal waits for the call to return.
\* mink_stdd holds the arguments of these scripts, and nothing above.
Levels ==
  \A t \in Threads :
    /\ Len(stack[t]) - 1 <= Lref[t] /\ Lref[t] <= Len(stack[t])
    /\ \A k \in 1..Len(stack[t]) : stack[t][k].pc = "run" <=> k <= Lref[t]
    /\ \A k \in 1..MaxDepth :
         mink_stdd[t][k] = IF k <= Lref[t] THEN stack[t][k].arg ELSE NoArg

\* Only the owner of its mutex runs a script, and a script that cannot be
\* loaded, with conserve_mem, never runs.
OwnerRuns ==
  \A s \in Signals :
    /\ Leaked(s) => ~running[s] /\ \A t \in Threads : Runs(t, s) = {}
    /\ \A t \in Threads : t # owner[s] => Runs(t, s) = {}
    /\ running[s] => ~Free(s)

\* LocksMatchCalls, thread by thread.
LockCounts ==
  \A s \in Signals : ~Leaked(s) =>
    /\ Free(s) => count[s] = 0
    /\ \A t \in Threads : owner[s] = t => count[s] = Active(t, s) /\ count[s] > 0

IInv == TypeOK /\ Levels /\ OwnerRuns /\ LockCounts

-----------------------------------------------------------------------------
(* The stack of a thread.                                                  *)

LEMMA TopFrame ==
  ASSUME TypeOK, NEW t \in Threads
  PROVE  /\ stack[t] \in Seq(Frame) /\ Len(stack[t]) \in 0..MaxDepth
         /\ DOMAIN stack[t] = 1..Len(stack[t])
         /\ stack[t] # <<>> => Len(stack[t]) \in 1..MaxDepth /\ Top(t) \in Frame
<1>1. stack[t] \in Seq(Frame) /\ Len(stack[t]) <= MaxDepth
  BY DEF TypeOK
<1>2. Len(stack[t]) \in Nat /\ DOMAIN stack[t] = 1..Len(stack[t])
  BY <1>1
<1>3. stack[t] # <<>> => Len(stack[t]) # 0
  BY <1>1, EmptySeq
<1> QED BY <1>1, <1>2, <1>3, LuaSignalAssumption DEF Top

LEMMA CallFrame ==
  ASSUME NEW s \in Signals, NEW a \in Args, NEW f \in Flags
  PROVE  /\ Call(s, a, f) \in Frame /\ Call(s, a, f).pc = "enter"
BY LuaSignalAssumption DEF Call, Frame

\* A call is popped.
LEMMA PopStack ==
  ASSUME TypeOK, NEW t \in Threads, stack[t] # <<>>, Return(t)
  PROVE  /\ stack' \in [Threads -> Seq(Frame)]
         /\ Len(stack'[t]) = Len(stack[t]) - 1
         /\ \A k \in 1..(Len(stack[t]) - 1) : stack'[t][k] = stack[t][k]
         /\ \A u \in Threads : u # t => stack'[u] = stack[u]
<1> DEFINE q == stack[t]
           m == Len(q) - 1
<1>1. q \in Seq(Frame) /\ m \in Nat /\ Len(q) = m + 1 /\ Len(q) \in Nat
  BY TopFrame
<1>2. \A k \in 1..m : q[k] \in Frame
  BY <1>1
<1>3. Pop(t) = SubSeq(q, 1, m)
  BY DEF Pop
<1>4. Pop(t) \in Seq(Frame) /\ Len(Pop(t)) = m /\ \A k \in 1..m : Pop(t)[k] = q[k]
  <2> HIDE DEF q, m
  <2> QED BY <1>1, <1>2, <1>3, SubSeqProperties
<1>5. stack' = [stack EXCEPT ![t] = Pop(t)]
  BY DEF Return
<1> QED BY <1>4, <1>5 DEF TypeOK

\* The top call goes to another step.
LEMMA StepStack ==
  ASSUME TypeOK, NEW t \in Threads, stack[t] # <<>>, NEW pc \in {"lock", "run"}, GoTo(t, pc)
  PROVE  /\ stack' \in [Threads -> Seq(Frame)]
         /\ Len(stack'[t]) = Len(stack[t])
         /\ \A k \in 1..(Len(stack[t]) - 1) : stack'[t][k] = stack[t][k]
         /\ Top(t)'.pc = pc /\ Top(t)'.sig = Top(t).sig /\ Top(t)'.arg = Top(t).arg
         /\ \A u \in Threads : u # t => stack'[u] = stack[u]
<1> DEFINE q == stack[t]
           m == Len(q)
           fr == [q[m] EXCEPT !.pc = pc]
           p == [q EXCEPT ![m] = fr]
<1>1. q \in Seq(Frame) /\ m \in Nat /\ m \in 1..m /\ q[m] \in Frame
  BY TopFrame DEF Top
<1>2. fr \in Frame /\ fr.pc = pc /\ fr.sig = q[m].sig /\ fr.arg = q[m].arg
  BY <1>1 DEF Frame
<1>3. p \in Seq(Frame) /\ Len(p) = m /\ p[m] = fr /\ \A k \in 1..(m - 1) : p[k] = q[k]
  <2> HIDE DEF fr
  <2> QED BY <1>1, <1>2, ExceptSeq
<1>4. stack' = [stack EXCEPT ![t] = p]
  BY DEF GoTo
<1>5. stack'[t] = p /\ stack' \in [Threads -> Seq(Frame)] /\ \A u \in Threads : u # t => stack'[u] = stack[u]
  <2> HIDE DEF p
  <2> QED BY <1>3, <1>4 DEF TypeOK
<1> HIDE DEF p, fr
<1> QED BY <1>1, <1>2, <1>3, <1>5 DEF Top

\* A call is made by the script at the top.
LEMMA PushStack ==
  ASSUME TypeOK, NEW t \in Threads, NEW s \in Signals, NEW a \in Args, NEW f \in Flags,
         Signal(t, s, a, f)
  PROVE  /\ stack' \in [Threads -> Seq(Frame)]
         /\ Len(stack'[t]) = Len(stack[t]) + 1
         /\ \A k \in 1..Len(stack[t]) :
              /\ stack'[t][k].pc = stack[t][k].pc /\ stack'[t][k].sig = stack[t][k].sig
              /\ stack'[t][k].arg = stack[t][k].arg
         /\ Top(t)'.pc = "enter"
         /\ \A u \in Threads : u # t => stack'[u] = stack[u]
<1> DEFINE q == stack[t]
           m == Len(q)
           d == q[m].left - 1
           fr == [q[m] EXCEPT !.left = d]
           p == SubSeq(q, 1, m - 1)
           p1 == p \o <<fr>>
           p2 == Append(p1, Call(s, a, f))
<1>1. q # <<>> /\ Top(t).left > 0
  BY DEF Signal, At
<1>2. q \in Seq(Frame) /\ m \in Nat /\ m \in 1..m /\ q[m] \in Frame
  BY <1>1, TopFrame DEF Top
<1>3. fr \in Frame /\ fr.pc = q[m].pc /\ fr.sig = q[m].sig /\ fr.arg = q[m].arg
  <2>1. d \in 0..MaxCalls
    BY <1>1, <1>2, LuaSignalAssumption DEF Frame, Top
  <2> HIDE DEF d
  <2> QED BY <1>2, <2>1 DEF Frame
<1>4. p \in Seq(Frame) /\ Len(p) = m - 1 /\ \A k \in 1..(m - 1) : p[k] = q[k]
  <2>1. \A k \in 1..(m - 1) : q[k] \in Frame
    BY <1>2
  <2> HIDE DEF q, m
  <2> QED BY <1>2, <2>1, SubSeqProperties
<1>5. p1 \in Seq(Frame) /\ Len(p1) = m /\ p1[m] = fr /\ \A k \in 1..(m - 1) : p1[k] = q[k]
  <2> HIDE DEF fr, p, q, m
  <2>1. <<fr>> \in Seq(Frame) /\ Len(<<fr>>) = 1 /\ <<fr>>[1] = fr
    BY <1>3
  <2>2. p1 \in Seq(Frame) /\ Len(p1) = m
    BY <1>2, <1>4, <2>1, ConcatProperties
  <2>3. \A k \in 1..m : p1[k] = IF k <= m - 1 THEN p[k] ELSE <<fr>>[k - (m - 1)]
    BY <1>2, <1>4, <2>1, ConcatProperties
  <2>4. p1[m] = <<fr>>[1]
    <3>1. m - (m - 1) = 1 /\ ~(m <= m - 1) /\ m \in 1..m
      BY <1>2
    <3> HIDE DEF p1
    <3> QED BY <2>3, <3>1
  <2>5. \A k \in 1..(m - 1) : p1[k] = q[k]
    BY <1>2, <1>4, <2>3
  <2> HIDE DEF p1
  <2> QED BY <2>1, <2>2, <2>4, <2>5
<1>6. /\ p2 \in Seq(Frame) /\ Len(p2) = m + 1 /\ p2[m + 1] = Call(s, a, f)
      /\ \A k \in 1..m : p2[k] = p1[k]
  <2> HIDE DEF p1, q, m
  <2> QED BY <1>2, <1>5, CallFrame, AppendProperties
<1>7. stack' = [stack EXCEPT ![t] = p2]
  BY DEF Signal, Top, Pop
<1>8. stack'[t] = p2 /\ stack' \in [Threads -> Seq(Frame)] /\ \A u \in Threads : u # t => stack'[u] = stack[u]
  <2> HIDE DEF p2
  <2> QED BY <1>6, <1>7 DEF TypeOK
<1> HIDE DEF p2, p1, fr
<1>9. Top(t)'.pc = "enter"
  BY <1>6, <1>8, CallFrame DEF Top
<1>10. \A k \in 1..m : p1[k].pc = q[k].pc /\ p1[k].sig = q[k].sig /\ p1[k].arg = q[k].arg
  BY <1>2, <1>3, <1>5
<1> QED BY <1>6, <1>8, <1>9, <1>10

-----------------------------------------------------------------------------
(* Steps that start and end no script.                                     *)

LEMMA QuietStack ==
  ASSUME IInv, NEW t \in Threads,
         stack' \in [Threads -> Seq(Frame)], \A u \in Threads : u # t => stack'[u] = stack[u],
         UNCHANGED <<Lref, mink_stdd>>,
         Len(stack'[t]) - 1 <= Lref[t], Lref[t] <= Len(stack'[t]),
         \A k \in 1..Lref[t] : /\ stack'[t][k].pc = stack[t][k].pc
                               /\ stack'[t][k].sig = stack[t][k].sig
                               /\ stack'[t][k].arg = stack[t][k].arg,
         \A k \in 1..Len(stack'[t]) : k > Lref[t] => stack'[t][k].pc # "run"
  PROVE  Levels' /\ \A u \in Threads, s \in Signals : Runs(u, s)' = Runs(u, s)
<1>1. TypeOK /\ Levels /\ Lref[t] \in 0..MaxDepth
  BY DEF IInv, TypeOK
<1>2. /\ Len(stack[t]) \in Nat /\ DOMAIN stack[t] = 1..Len(stack[t])
      /\ Len(stack'[t]) \in Nat /\ DOMAIN stack'[t] = 1..Len(stack'[t])
  BY <1>1, TopFrame
<1>3. /\ Lref[t] <= Len(stack[t])
      /\ \A k \in 1..Len(stack[t]) : stack[t][k].pc = "run" <=> k <= Lref[t]
      /\ \A k \in 1..MaxDepth :
           mink_stdd[t][k] = IF k <= Lref[t] THEN stack[t][k].arg ELSE NoArg
  BY <1>1 DEF Levels
<1>4. \A k \in 1..Len(stack'[t]) : stack'[t][k].pc = "run" <=> k <= Lref[t]
  <2> SUFFICES ASSUME NEW k \in 1..Len(stack'[t]) PROVE stack'[t][k].pc = "run" <=> k <= Lref[t]
    OBVIOUS
  <2>1. CASE k <= Lref[t]
    <3>1. k \in 1..Lref[t] /\ k \in 1..Len(stack[t])
      BY <1>1, <1>2, <1>3, <2>1
    <3> QED BY <1>3, <2>1, <3>1
  <2>2. CASE ~(k <= Lref[t])
    <3>1. k > Lref[t]
      BY <1>1, <1>2, <2>2
    <3> QED BY <2>2, <3>1
  <2> QED BY <2>1, <2>2
<1>5. \A k \in 1..MaxDepth :
        mink_stdd[t][k] = IF k <= Lref[t] THEN stack'[t][k].arg ELSE NoArg
  <2> SUFFICES ASSUME NEW k \in 1..MaxDepth, k <= Lref[t] PROVE stack'[t][k].arg = stack[t][k].arg
    BY <1>3
  <2>1. k \in 1..Lref[t]
    BY <1>1
  <2> QED BY <2>1
<1>6. Levels'
  BY <1>1, <1>4, <1>5 DEF Levels
<1>7. ASSUME NEW u \in Threads, NEW s \in Signals
      PROVE  Runs(u, s)' = Runs(u, s)
  <2>1. CASE u # t
    BY <2>1 DEF Runs
  <2>2. CASE u = t
    <3>1. \A k : k \in Runs(t, s) <=> k \in 1..Lref[t] /\ stack[t][k].sig = s
      <4>1. \A k : k \in 1..Len(stack[t]) /\ k <= Lref[t] <=> k \in 1..Lref[t]
        BY <1>1, <1>2, <1>3
      <4> QED BY <1>2, <1>3, <4>1 DEF Runs
    <3>2. \A k : k \in Runs(t, s)' <=> k \in 1..Lref[t] /\ stack'[t][k].sig = s
      <4>1. \A k : k \in 1..Len(stack'[t]) /\ k <= Lref[t] <=> k \in 1..Lref[t]
        BY <1>1, <1>2
      <4> QED BY <1>2, <1>4, <4>1 DEF Runs
    <3>3. \A k : k \in Runs(t, s)' <=> k \in Runs(t, s)
      BY <3>1, <3>2
    <3>4. Runs(t, s)' \subseteq Runs(t, s) /\ Runs(t, s) \subseteq Runs(t, s)'
      BY <3>3, Zenon
    <3>5. Runs(t, s)' = Runs(t, s)
      BY <3>4, Zenon
    <3> QED BY <2>2, <3>5 DEF Runs
  <2> QED BY <2>1, <2>2
<1> QED BY <1>6, <1>7

LEMMA QuietLocks ==
  ASSUME IInv, UNCHANGED <<conserve_mem, owner, count>>,
         \A s \in Signals : running'[s] => running[s],
         \A u \in Threads, s \in Signals : Runs(u, s)' = Runs(u, s)
  PROVE  OwnerRuns' /\ LockCounts'
<1>1. OwnerRuns'
  BY DEF IInv, OwnerRuns, Leaked, Free
<1>2. LockCounts'
  BY DEF IInv, TypeOK, LockCounts, Leaked, Free, Active
<1> QED BY <1>1, <1>2

\* A call that did not start its script returns.
LEMMA ReturnQuiet ==
  ASSUME IInv, NEW t \in Threads, At(t, "enter") \/ At(t, "lock"), Return(t),
         UNCHANGED <<Lref, mink_stdd>>
  PROVE  /\ stack' \in [Threads -> Seq(Frame)] /\ \A u \in Threads : Len(stack'[u]) <= MaxDepth
         /\ Levels' /\ \A u \in Threads, s \in Signals : Runs(u, s)' = Runs(u, s)
<1>1. TypeOK /\ stack[t] # <<>> /\ Lref[t] \in 0..MaxDepth /\ Top(t).pc # "run"
  BY DEF IInv, TypeOK, At
<1>2. Len(stack[t]) \in 1..MaxDepth
  BY <1>1, TopFrame
<1>3. Lref[t] = Len(stack[t]) - 1
  BY <1>1, <1>2 DEF IInv, Levels, Top
<1>4. /\ stack' \in [Threads -> Seq(Frame)]
      /\ Len(stack'[t]) = Len(stack[t]) - 1
      /\ \A k \in 1..(Len(stack[t]) - 1) : stack'[t][k] = stack[t][k]
      /\ \A u \in Threads : u # t => stack'[u] = stack[u]
  BY <1>1, PopStack
<1>5. \A u \in Threads : Len(stack'[u]) <= MaxDepth
  <2>1. Len(stack'[t]) <= MaxDepth
    BY <1>2, <1>4, LuaSignalAssumption
  <2> QED BY <1>1, <1>4, <2>1 DEF TypeOK
<1>6. Len(stack'[t]) - 1 <= Lref[t] /\ Lref[t] <= Len(stack'[t])
  BY <1>2, <1>3, <1>4
<1>7. \A k \in 1..Len(stack'[t]) : ~(k > Lref[t])
  BY <1>2, <1>3, <1>4
<1>8. Levels' /\ \A u \in Threads, s \in Signals : Runs(u, s)' = Runs(u, s)
  BY <1>3, <1>4, <1>6, <1>7, QuietStack
<1> QED BY <1>4, <1>5, <1>8

\* A thread outside of any handler raises a signal.
LEMMA RaiseStep ==
  ASSUME IInv, NEW t \in Threads, NEW s \in Signals, NEW a \in Args, NEW f \in Flags,
         Raise(t, s, a, f)
  PROVE  IInv'
<1> USE LuaSignalAssumption DEF Raise
<1>1. TypeOK /\ Lref[t] \in 0..MaxDepth
  BY DEF IInv, TypeOK
<1>2. Lref[t] = 0
  <2>1. Len(stack[t]) = 0
    OBVIOUS
  <2> QED BY <1>1, <2>1 DEF IInv, Levels
<1>3. /\ stack' \in [Threads -> Seq(Frame)] /\ Len(stack'[t]) = 1 /\ stack'[t][1].pc = "enter"
      /\ \A u \in Threads : u # t => stack'[u] = stack[u]
  <2>1. Call(s, a, f) \in Frame /\ Call(s, a, f).pc = "enter"
    BY CallFrame
  <2> DEFINE q == <<Call(s, a, f)>>
  <2>2. q \in Seq(Frame) /\ Len(q) = 1 /\ q[1] = Call(s, a, f)
    BY <2>1
  <2>3. stack' = [stack EXCEPT ![t] = q]
    OBVIOUS
  <2> HIDE DEF q
  <2> QED BY <1>1, <2>1, <2>2, <2>3 DEF TypeOK
<1>4. Levels' /\ \A u \in Threads, x \in Signals : Runs(u, x)' = Runs(u, x)
  <2>1. Len(stack'[t]) - 1 <= Lref[t] /\ Lref[t] <= Len(stack'[t])
    BY <1>2, <1>3
  <2>2. \A k \in 1..Len(stack'[t]) : stack'[t][k].pc # "run"
    BY <1>3
  <2>3. 1..Lref[t] = {}
    BY <1>2
  <2> QED BY <1>3, <2>1, <2>2, <2>3, QuietStack
<1>5. OwnerRuns' /\ LockCounts'
  BY <1>4, QuietLocks
<1>6. TypeOK'
  <2>1. raised' \in [Threads -> 0..MaxRaised]
    <3>1. raised[t] + 1 \in 0..MaxRaised
      BY <1>1 DEF TypeOK
    <3> QED BY <1>1, <3>1 DEF TypeOK
  <2>2. \A u \in Threads : Len(stack'[u]) <= MaxDepth
    BY <1>1, <1>3 DEF TypeOK
  <2> QED BY <1>1, <1>3, <2>1, <2>2 DEF TypeOK
<1> QED BY <1>4, <1>5, <1>6 DEF IInv

\* Calls refused before the script would start.
LEMMA RefusedStep ==
  ASSUME IInv, NEW t \in Threads, AuthError(t) \/ PreloadError(t) \/ Prevent(t)
  PROVE  IInv'
<1>1. /\ At(t, "enter") \/ At(t, "lock")
      /\ Return(t) /\ UNCHANGED <<conserve_mem, sig_cache, owner, count, Lref, mink_stdd, raised>>
  BY DEF AuthError, PreloadError, Prevent, Authorized, CanLock
<1>2. /\ stack' \in [Threads -> Seq(Frame)] /\ \A u \in Threads : Len(stack'[u]) <= MaxDepth
      /\ Levels' /\ \A u \in Threads, s \in Signals : Runs(u, s)' = Runs(u, s)
  BY <1>1, ReturnQuiet
<1>3. running' \in [Signals -> BOOLEAN] /\ \A s \in Signals : running'[s] => running[s]
  BY DEF IInv, TypeOK, AuthError, PreloadError, Prevent, RunningCleared
<1>4. OwnerRuns' /\ LockCounts'
  BY <1>1, <1>2, <1>3, QuietLocks
<1>5. TypeOK'
  BY <1>1, <1>2, <1>3 DEF IInv, TypeOK
<1> QED BY <1>2, <1>4, <1>5 DEF IInv

LEMMA PreloadStep ==
  ASSUME IInv, NEW t \in Threads, Preload(t)
  PROVE  IInv'
<1> USE DEF Preload, Authorized
<1>1. /\ TypeOK /\ stack[t] # <<>> /\ Lref[t] \in 0..MaxDepth /\ Top(t).pc = "enter"
      /\ GoTo(t, "lock")
  BY DEF IInv, TypeOK, At
<1>2. Len(stack[t]) \in 1..MaxDepth /\ Top(t) \in Frame
  BY <1>1, TopFrame
<1>3. Lref[t] = Len(stack[t]) - 1
  BY <1>1, <1>2 DEF IInv, Levels, Top
<1>4. /\ stack' \in [Threads -> Seq(Frame)]
      /\ Len(stack'[t]) = Len(stack[t])
      /\ \A k \in 1..(Len(stack[t]) - 1) : stack'[t][k] = stack[t][k]
      /\ Top(t)'.pc = "lock"
      /\ \A u \in Threads : u # t => stack'[u] = stack[u]
  BY <1>1, StepStack
<1>5. Len(stack'[t]) - 1 <= Lref[t] /\ Lref[t] <= Len(stack'[t])
  BY <1>2, <1>3, <1>4
<1>6. \A k \in 1..Len(stack'[t]) : k > Lref[t] => stack'[t][k].pc # "run"
  BY <1>2, <1>3, <1>4 DEF Top
<1>7. Levels' /\ \A u \in Threads, s \in Signals : Runs(u, s)' = Runs(u, s)
  BY <1>3, <1>4, <1>5, <1>6, QuietStack
<1>8. OwnerRuns' /\ LockCounts'
  BY <1>7, QuietLocks
<1>9. TypeOK'
  <2>1. sig_cache' \in [Threads -> SUBSET (Signals \ BadScripts)]
    <3>1. Top(t).sig \in Signals
      BY <1>2 DEF Frame
    <3>2. CASE conserve_mem
      BY <1>1, <3>2 DEF TypeOK
    <3>3. CASE ~conserve_mem
      <4>1. Top(t).sig \in Signals \ BadScripts
        BY <1>1, <3>1, <3>3 DEF TypeOK
      <4> QED BY <1>1, <3>3, <4>1 DEF TypeOK
    <3> QED BY <3>2, <3>3
  <2>2. \A u \in Threads : Len(stack'[u]) <= MaxDepth
    BY <1>1, <1>2, <1>4 DEF TypeOK
  <2> QED BY <1>1, <1>4, <2>1, <2>2 DEF TypeOK
<1> QED BY <1>7, <1>8, <1>9 DEF IInv

LEMMA SignalStep ==
  ASSUME IInv, NEW t \in Threads, NEW s \in Signals, NEW a \in Args, NEW f \in Flags,
         Signal(t, s, a, f)
  PROVE  IInv'
<1>1. /\ TypeOK /\ stack[t] # <<>> /\ Lref[t] \in 0..MaxDepth /\ Top(t).pc = "run"
      /\ Len(stack[t]) < MaxDepth
      /\ UNCHANGED <<conserve_mem, sig_cache, owner, count, running, Lref, mink_stdd, raised>>
  BY DEF IInv, TypeOK, At, Signal
<1>2. Len(stack[t]) \in 1..MaxDepth
  BY <1>1, TopFrame
<1>3. Lref[t] = Len(stack[t])
  BY <1>1, <1>2 DEF IInv, Levels, Top
<1>4. /\ stack' \in [Threads -> Seq(Frame)]
      /\ Len(stack'[t]) = Len(stack[t]) + 1
      /\ \A k \in 1..Len(stack[t]) :
           /\ stack'[t][k].pc = stack[t][k].pc /\ stack'[t][k].sig = stack[t][k].sig
           /\ stack'[t][k].arg = stack[t][k].arg
      /\ Top(t)'.pc = "enter"
      /\ \A u \in Threads : u # t => stack'[u] = stack[u]
  BY <1>1, PushStack
<1>5. Len(stack'[t]) - 1 <= Lref[t] /\ Lref[t] <= Len(stack'[t])
  BY <1>2, <1>3, <1>4
<1>6. \A k \in 1..Len(stack'[t]) : k > Lref[t] => stack'[t][k].pc # "run"
  BY <1>2, <1>3, <1>4 DEF Top
<1>7. Levels' /\ \A u \in Threads, x \in Signals : Runs(u, x)' = Runs(u, x)
  BY <1>1, <1>3, <1>4, <1>5, <1>6, QuietStack
<1>8. OwnerRuns' /\ LockCounts'
  BY <1>1, <1>7, QuietLocks
<1>9. TypeOK'
  <2>1. \A u \in Threads : Len(stack'[u]) <= MaxDepth
    <3>1. Len(stack'[t]) <= MaxDepth
      BY <1>1, <1>2, <1>4, LuaSignalAssumption
    <3> QED BY <1>1, <1>4, <3>1 DEF TypeOK
  <2> QED BY <1>1, <1>4, <2>1 DEF TypeOK
<1> QED BY <1>7, <1>8, <1>9 DEF IInv

-----------------------------------------------------------------------------
(* Steps that take or release a handler's mutex.                           *)

LEMMA RunsFinite ==
  ASSUME TypeOK, NEW t \in Threads, NEW s \in Signals
  PROVE  /\ IsFiniteSet(Runs(t, s)) /\ Active(t, s) \in Nat
         /\ Active(t, s) = 0 <=> Runs(t, s) = {}
<1>1. DOMAIN stack[t] = 1..Len(stack[t]) /\ Len(stack[t]) \in Int
  BY TopFrame
<1>2. IsFiniteSet(1..Len(stack[t]))
  BY <1>1, FS_Interval
<1>3. Runs(t, s) \subseteq 1..Len(stack[t])
  BY <1>1 DEF Runs
<1>4. IsFiniteSet(Runs(t, s))
  BY <1>2, <1>3, FS_Subset
<1> QED BY <1>4, FS_CardinalityType, FS_EmptySet DEF Active

\* The mutex stays locked, but only that of a script that never runs.
LEMMA LoadErrorStep ==
  ASSUME IInv, NEW t \in Threads, LoadError(t)
  PROVE  IInv'
<1>1. PICK s : s = Top(t).sig
  OBVIOUS
<1>2. /\ TypeOK /\ stack[t] # <<>> /\ At(t, "lock") /\ Return(t) /\ Leaked(s) /\ Acquire(t, s)
      /\ UNCHANGED <<conserve_mem, sig_cache, running, Lref, mink_stdd, raised>>
  BY <1>1 DEF LoadError, CanLock, At, Leaked, IInv
<1>3. s \in Signals
  BY <1>1, <1>2, TopFrame DEF Frame
<1>4. /\ stack' \in [Threads -> Seq(Frame)] /\ \A u \in Threads : Len(stack'[u]) <= MaxDepth
      /\ Levels' /\ \A u \in Threads, x \in Signals : Runs(u, x)' = Runs(u, x)
  BY <1>2, ReturnQuiet
<1>5. /\ owner' \in [Signals -> Threads \cup {NoThread}] /\ count' \in [Signals -> Nat]
      /\ \A x \in Signals : x # s => owner'[x] = owner[x] /\ count'[x] = count[x]
  <2>1. count[s] + 1 \in Nat
    BY <1>2, <1>3 DEF TypeOK
  <2> QED BY <1>2, <1>3, <2>1 DEF TypeOK, Acquire
<1>6. TypeOK'
  BY <1>2, <1>4, <1>5 DEF TypeOK
<1>7. \A x \in Signals : Leaked(x)' = Leaked(x)
  BY <1>2 DEF Leaked
<1>8. OwnerRuns'
  <2> SUFFICES ASSUME NEW x \in Signals
               PROVE  /\ Leaked(x)' => ~running'[x] /\ \A u \in Threads : Runs(u, x)' = {}
                      /\ \A u \in Threads : u # owner'[x] => Runs(u, x)' = {}
                      /\ running'[x] => ~(owner'[x] = NoThread)
    BY DEF OwnerRuns, Free
  <2>1. CASE x = s
    <3>1. ~running[x] /\ \A u \in Threads : Runs(u, x) = {}
      BY <1>2, <2>1 DEF IInv, OwnerRuns
    <3> QED BY <1>2, <1>4, <3>1
  <2>2. CASE x # s
    BY <1>2, <1>4, <1>5, <1>7, <2>2 DEF IInv, OwnerRuns, Free
  <2> QED BY <2>1, <2>2
<1>9. LockCounts'
  <2> SUFFICES ASSUME NEW x \in Signals, ~Leaked(x)
               PROVE  /\ owner'[x] = NoThread => count'[x] = 0
                      /\ \A u \in Threads : owner'[x] = u => count'[x] = Active(u, x)' /\ count'[x] > 0
    BY <1>7 DEF LockCounts, Free
  <2>1. owner'[x] = owner[x] /\ count'[x] = count[x]
    BY <1>2, <1>5
  <2>2. \A u \in Threads : Active(u, x)' = Active(u, x)
    BY <1>4 DEF Active
  <2> QED BY <2>1, <2>2 DEF IInv, LockCounts, Free
<1> QED BY <1>4, <1>6, <1>8, <1>9 DEF IInv

\* The script starts: its thread owns the mutex, once more than before.
LEMMA StartStep ==
  ASSUME IInv, NEW t \in Threads, Start(t)
  PROVE  IInv'
<1>1. PICK s : s = Top(t).sig
  OBVIOUS
<1>2. PICK m : m = Len(stack[t])
  OBVIOUS
<1>3. /\ TypeOK /\ stack[t] # <<>> /\ Top(t).pc = "lock" /\ GoTo(t, "run") /\ ~Leaked(s)
      /\ Acquire(t, s) /\ owner[s] \in {NoThread, t}
      /\ Lref' = [Lref EXCEPT ![t] = @ + 1]
      /\ mink_stdd' = [mink_stdd EXCEPT ![t][Lref[t] + 1] = Top(t).arg]
      /\ running' = [running EXCEPT ![s] = TRUE]
      /\ UNCHANGED <<conserve_mem, sig_cache, raised>>
  BY <1>1 DEF Start, CanLock, At, Leaked, IInv, ArgLevel
<1>4. m \in 1..MaxDepth /\ s \in Signals /\ Top(t).arg \in Args
  BY <1>1, <1>2, <1>3, TopFrame DEF Frame
<1>5. Lref[t] + 1 = m
  <2>1. Lref[t] \in 0..MaxDepth
    BY <1>3 DEF TypeOK
  <2>2. ~(m <= Lref[t]) /\ m - 1 <= Lref[t]
    BY <1>2, <1>3, <1>4 DEF IInv, Levels, Top
  <2> QED BY <1>4, <2>1, <2>2
<1>6. /\ stack' \in [Threads -> Seq(Frame)]
      /\ Len(stack'[t]) = m
      /\ \A k \in 1..(m - 1) : stack'[t][k] = stack[t][k]
      /\ stack'[t][m].pc = "run" /\ stack'[t][m].sig = s /\ stack'[t][m].arg = Top(t).arg
      /\ \A u \in Threads : u # t => stack'[u] = stack[u]
  <2>1. /\ stack' \in [Threads -> Seq(Frame)]
        /\ Len(stack'[t]) = Len(stack[t])
        /\ \A k \in 1..(Len(stack[t]) - 1) : stack'[t][k] = stack[t][k]
        /\ Top(t)'.pc = "run" /\ Top(t)'.sig = Top(t).sig /\ Top(t)'.arg = Top(t).arg
        /\ \A u \in Threads : u # t => stack'[u] = stack[u]
    BY <1>3, StepStack
  <2> QED BY <1>1, <1>2, <2>1 DEF Top
<1>7. Lref' \in [Threads -> 0..MaxDepth] /\ Lref'[t] = m /\ \A u \in Threads : u # t => Lref'[u] = Lref[u]
  <2>1. m \in 0..MaxDepth
    BY <1>4
  <2> QED BY <1>3, <1>5, <2>1 DEF TypeOK
<1>8. /\ mink_stdd' \in [Threads -> [1..MaxDepth -> Args \cup {NoArg}]]
      /\ \A k \in 1..MaxDepth : mink_stdd'[t][k] = IF k = m THEN Top(t).arg ELSE mink_stdd[t][k]
      /\ \A u \in Threads : u # t => mink_stdd'[u] = mink_stdd[u]
  BY <1>3, <1>4, <1>5 DEF TypeOK
<1>9. Levels'
  <2> SUFFICES ASSUME NEW u \in Threads
               PROVE  /\ Len(stack'[u]) - 1 <= Lref'[u] /\ Lref'[u] <= Len(stack'[u])
                      /\ \A k \in 1..Len(stack'[u]) : stack'[u][k].pc = "run" <=> k <= Lref'[u]
                      /\ \A k \in 1..MaxDepth :
                           mink_stdd'[u][k] = IF k <= Lref'[u] THEN stack'[u][k].arg ELSE NoArg
    BY DEF Levels
  <2>1. CASE u # t
    <3>1. stack'[u] = stack[u] /\ Lref'[u] = Lref[u] /\ mink_stdd'[u] = mink_stdd[u]
      BY <1>6, <1>7, <1>8, <2>1
    <3>2. /\ Len(stack[u]) - 1 <= Lref[u] /\ Lref[u] <= Len(stack[u])
          /\ \A k \in 1..Len(stack[u]) : stack[u][k].pc = "run" <=> k <= Lref[u]
          /\ \A k \in 1..MaxDepth :
               mink_stdd[u][k] = IF k <= Lref[u] THEN stack[u][k].arg ELSE NoArg
      BY DEF IInv, Levels
    <3> QED BY <3>1, <3>2
  <2>2. CASE u = t
    <3>1. /\ \A k \in 1..m : stack[t][k].pc = "run" <=> k <= Lref[t]
          /\ \A k \in 1..MaxDepth : mink_stdd[t][k] = IF k <= Lref[t] THEN stack[t][k].arg ELSE NoArg
      BY <1>2 DEF IInv, Levels
    <3>2. Lref[t] \in Int /\ m \in Int /\ Lref[t] = m - 1
      <4>1. Lref[t] \in 0..MaxDepth
        BY <1>3 DEF TypeOK
      <4> QED BY <1>4, <1>5, <4>1
    <3>3. \A k \in 1..m : k <= m /\ (k # m => k \in 1..(m - 1) /\ k <= Lref[t])
      BY <3>2
    <3>4. \A k \in 1..m : stack'[t][k].pc = "run"
      BY <1>6, <3>1, <3>3
    <3>5. ASSUME NEW k \in 1..MaxDepth
          PROVE  mink_stdd'[t][k] = IF k <= m THEN stack'[t][k].arg ELSE NoArg
      <4>1. CASE k = m
        BY <1>4, <1>6, <1>8, <3>2, <4>1
      <4>2. CASE k < m
        <5>1. k \in 1..(m - 1) /\ k <= Lref[t] /\ k # m /\ k <= m
          BY <3>2, <4>2
        <5> QED BY <1>6, <1>8, <3>1, <5>1
      <4>3. CASE k > m
        <5>1. ~(k <= Lref[t]) /\ k # m /\ ~(k <= m)
          BY <3>2, <4>3
        <5> QED BY <1>8, <3>1, <5>1
      <4> QED BY <3>2, <4>1, <4>2, <4>3
    <3>6. m - 1 <= m /\ m <= m
      BY <3>2
    <3> QED BY <1>6, <1>7, <2>2, <3>3, <3>4, <3>5, <3>6
  <2> QED BY <2>1, <2>2
<1>10. /\ Runs(t, s)' = Runs(t, s) \cup {m} /\ m \notin Runs(t, s)
       /\ \A x \in Signals : x # s => Runs(t, x)' = Runs(t, x)
       /\ \A u \in Threads, x \in Signals : u # t => Runs(u, x)' = Runs(u, x)
  <2>1. DOMAIN stack[t] = 1..m /\ DOMAIN stack'[t] = 1..m /\ m \in 1..m
    BY <1>2, <1>3, <1>4, <1>6, TopFrame
  <2>2. stack[t][m].pc # "run" /\ stack[t][m].sig = s
    BY <1>1, <1>2, <1>3 DEF Top
  <2>3. \A k \in 1..m : k # m => stack'[t][k] = stack[t][k]
    BY <1>4, <1>6
  <2>4. Runs(t, s)' = Runs(t, s) \cup {m} /\ m \notin Runs(t, s)
    BY <1>6, <2>1, <2>2, <2>3 DEF Runs
  <2>5. \A x \in Signals : x # s => Runs(t, x)' = Runs(t, x)
    BY <1>6, <2>1, <2>2, <2>3 DEF Runs
  <2>6. \A u \in Threads, x \in Signals : u # t => Runs(u, x)' = Runs(u, x)
    BY <1>6 DEF Runs
  <2> QED BY <2>4, <2>5, <2>6
<1>11. /\ owner' \in [Signals -> Threads \cup {NoThread}] /\ count' \in [Signals -> Nat]
       /\ running' \in [Signals -> BOOLEAN]
       /\ owner'[s] = t /\ count'[s] = count[s] + 1
       /\ \A x \in Signals : x # s => /\ owner'[x] = owner[x] /\ count'[x] = count[x]
                                      /\ running'[x] = running[x]
  <2>1. count[s] + 1 \in Nat
    BY <1>3, <1>4 DEF TypeOK
  <2> QED BY <1>3, <1>4, <2>1 DEF TypeOK, Acquire
<1>12. TypeOK'
  <2>1. \A u \in Threads : Len(stack'[u]) <= MaxDepth
    <3>1. Len(stack'[t]) <= MaxDepth
      BY <1>4, <1>6, LuaSignalAssumption
    <3> QED BY <1>3, <1>6, <3>1 DEF TypeOK
  <2> QED BY <1>3, <1>6, <1>7, <1>8, <1>11, <2>1 DEF TypeOK
<1>13. /\ \A x \in Signals : Leaked(x)' = Leaked(x)
       /\ NoThread # t
  BY <1>3, LuaSignalAssumption DEF Leaked
<1>14. \A u \in Threads : u # t => Runs(u, s) = {}
  BY <1>3, <1>4, LuaSignalAssumption DEF IInv, OwnerRuns
<1>15. OwnerRuns'
  <2> SUFFICES ASSUME NEW x \in Signals
               PROVE  /\ Leaked(x)' => ~running'[x] /\ \A u \in Threads : Runs(u, x)' = {}
                      /\ \A u \in Threads : u # owner'[x] => Runs(u, x)' = {}
                      /\ running'[x] => ~(owner'[x] = NoThread)
    BY DEF OwnerRuns, Free
  <2>1. CASE x = s
    BY <1>3, <1>10, <1>11, <1>13, <1>14, <2>1
  <2>2. CASE x # s
    <3>1. \A u \in Threads : Runs(u, x)' = Runs(u, x)
      BY <1>10, <2>2
    <3> QED BY <1>11, <1>13, <2>2, <3>1 DEF IInv, OwnerRuns, Free
  <2> QED BY <2>1, <2>2
<1>16. LockCounts'
  <2> SUFFICES ASSUME NEW x \in Signals, ~Leaked(x)
               PROVE  /\ owner'[x] = NoThread => count'[x] = 0
                      /\ \A u \in Threads : owner'[x] = u => count'[x] = Active(u, x)' /\ count'[x] > 0
    BY <1>13 DEF LockCounts, Free
  <2>1. CASE x # s
    <3>1. \A u \in Threads : Active(u, x)' = Active(u, x)
      BY <1>10, <2>1 DEF Active
    <3> QED BY <1>11, <2>1, <3>1 DEF IInv, LockCounts, Free
  <2>2. CASE x = s
    <3>1. IsFiniteSet(Runs(t, s)) /\ Active(t, s) \in Nat /\ (Runs(t, s) = {} => Active(t, s) = 0)
      BY <1>3, <1>4, RunsFinite
    <3>2. Cardinality(Runs(t, s) \cup {m}) = Cardinality(Runs(t, s)) + 1
      BY <1>10, <3>1, FS_AddElement
    <3>3. Active(t, s)' = Active(t, s) + 1
      BY <1>10, <3>2 DEF Active
    <3>4. count[s] = Active(t, s)
      <4>1. CASE owner[s] = t
        BY <1>3, <1>4, <4>1 DEF IInv, LockCounts
      <4>2. CASE owner[s] = NoThread
        <5>1. Runs(t, s) = {}
          BY <1>4, <1>13, <4>2 DEF IInv, OwnerRuns
        <5>2. count[s] = 0
          BY <1>3, <1>4, <4>2 DEF IInv, LockCounts, Free
        <5> QED BY <3>1, <5>1, <5>2
      <4> QED BY <1>3, <4>1, <4>2
    <3>5. count'[s] = Active(t, s)' /\ count'[s] > 0
      BY <1>11, <3>1, <3>3, <3>4
    <3> QED BY <1>11, <1>13, <2>2, <3>5
  <2> QED BY <2>1, <2>2
<1> QED BY <1>9, <1>12, <1>15, <1>16 DEF IInv

\* The script ends: the thread owns the mutex, once less than before.
LEMMA FinishStep ==
  ASSUME IInv, NEW t \in Threads, Finish(t)
  PROVE  IInv'
<1>1. PICK s : s = Top(t).sig
  OBVIOUS
<1>2. PICK m : m = Len(stack[t])
  OBVIOUS
<1>3. /\ TypeOK /\ stack[t] # <<>> /\ Top(t).pc = "run" /\ Return(t) /\ Release(s)
      /\ Lref' = [Lref EXCEPT ![t] = @ - 1]
      /\ mink_stdd' = [mink_stdd EXCEPT ![t][Lref[t]] = NoArg]
      /\ running' = [running EXCEPT ![s] = FALSE]
      /\ UNCHANGED <<conserve_mem, sig_cache, raised>>
  BY <1>1 DEF Finish, At, IInv, LrefDown, RunningCleared
<1>4. m \in 1..MaxDepth /\ s \in Signals /\ m \in Int /\ m - 1 \in 0..MaxDepth
  <2>1. m \in 1..MaxDepth /\ s \in Signals
    BY <1>1, <1>2, <1>3, TopFrame DEF Frame
  <2> QED BY <2>1, LuaSignalAssumption
<1>5. Lref[t] = m
  <2>1. Lref[t] \in 0..MaxDepth
    BY <1>3 DEF TypeOK
  <2>2. m <= Lref[t] /\ Lref[t] <= m
    BY <1>2, <1>3, <1>4 DEF IInv, Levels, Top
  <2> QED BY <1>4, <2>1, <2>2
<1>6. /\ stack' \in [Threads -> Seq(Frame)]
      /\ Len(stack'[t]) = m - 1
      /\ \A k \in 1..(m - 1) : stack'[t][k] = stack[t][k]
      /\ \A u \in Threads : u # t => stack'[u] = stack[u]
  BY <1>2, <1>3, PopStack
<1>7. /\ Lref' \in [Threads -> 0..MaxDepth] /\ Lref'[t] = m - 1
      /\ \A u \in Threads : u # t => Lref'[u] = Lref[u]
  BY <1>3, <1>4, <1>5 DEF TypeOK
<1>8. /\ mink_stdd' \in [Threads -> [1..MaxDepth -> Args \cup {NoArg}]]
      /\ \A k \in 1..MaxDepth : mink_stdd'[t][k] = IF k = m THEN NoArg ELSE mink_stdd[t][k]
      /\ \A u \in Threads : u # t => mink_stdd'[u] = mink_stdd[u]
  BY <1>3, <1>4, <1>5 DEF TypeOK
<1>9. Levels'
  <2> SUFFICES ASSUME NEW u \in Threads
               PROVE  /\ Len(stack'[u]) - 1 <= Lref'[u] /\ Lref'[u] <= Len(stack'[u])
                      /\ \A k \in 1..Len(stack'[u]) : stack'[u][k].pc = "run" <=> k <= Lref'[u]
                      /\ \A k \in 1..MaxDepth :
                           mink_stdd'[u][k] = IF k <= Lref'[u] THEN stack'[u][k].arg ELSE NoArg
    BY DEF Levels
  <2>1. CASE u # t
    <3>1. stack'[u] = stack[u] /\ Lref'[u] = Lref[u] /\ mink_stdd'[u] = mink_stdd[u]
      BY <1>6, <1>7, <1>8, <2>1
    <3>2. /\ Len(stack[u]) - 1 <= Lref[u] /\ Lref[u] <= Len(stack[u])
          /\ \A k \in 1..Len(stack[u]) : stack[u][k].pc = "run" <=> k <= Lref[u]
          /\ \A k \in 1..MaxDepth :
               mink_stdd[u][k] = IF k <= Lref[u] THEN stack[u][k].arg ELSE NoArg
      BY DEF IInv, Levels
    <3> QED BY <3>1, <3>2
  <2>2. CASE u = t
    <3>1. /\ \A k \in 1..m : stack[t][k].pc = "run" <=> k <= m
          /\ \A k \in 1..MaxDepth : mink_stdd[t][k] = IF k <= m THEN stack[t][k].arg ELSE NoArg
      BY <1>2, <1>5 DEF IInv, Levels
    <3>2. \A k \in 1..(m - 1) : k \in 1..m /\ k <= m /\ k <= m - 1
      BY <1>4
    <3>3. \A k \in 1..(m - 1) : stack'[t][k].pc = "run"
      BY <1>6, <3>1, <3>2
    <3>4. ASSUME NEW k \in 1..MaxDepth
          PROVE  mink_stdd'[t][k] = IF k <= m - 1 THEN stack'[t][k].arg ELSE NoArg
      <4>1. CASE k <= m - 1
        <5>1. k \in 1..(m - 1) /\ k # m /\ k <= m
          BY <1>4, <4>1
        <5> QED BY <1>6, <1>8, <3>1, <4>1, <5>1
      <4>2. CASE ~(k <= m - 1)
        <5>1. k = m \/ ~(k <= m)
          BY <1>4, <4>2
        <5> QED BY <1>8, <3>1, <4>2, <5>1
      <4> QED BY <4>1, <4>2
    <3>5. m - 1 - 1 <= m - 1 /\ m - 1 <= m - 1
      BY <1>4
    <3> QED BY <1>6, <1>7, <2>2, <3>2, <3>3, <3>4, <3>5
  <2> QED BY <2>1, <2>2
<1>10. /\ Runs(t, s)' = Runs(t, s) \ {m} /\ m \in Runs(t, s)
       /\ \A x \in Signals : x # s => Runs(t, x)' = Runs(t, x)
       /\ \A u \in Threads, x \in Signals : u # t => Runs(u, x)' = Runs(u, x)
  <2>1. DOMAIN stack[t] = 1..m /\ DOMAIN stack'[t] = 1..(m - 1) /\ m \in 1..m
    BY <1>2, <1>3, <1>4, <1>6, TopFrame
  <2>2. stack[t][m].pc = "run" /\ stack[t][m].sig = s
    BY <1>1, <1>2, <1>3 DEF Top
  <2>3. \A k : k \in 1..(m - 1) <=> k \in 1..m /\ k # m
    BY <1>4
  <2>4. Runs(t, s)' = Runs(t, s) \ {m} /\ m \in Runs(t, s)
    BY <1>6, <2>1, <2>2, <2>3 DEF Runs
  <2>5. \A x \in Signals : x # s => Runs(t, x)' = Runs(t, x)
    BY <1>6, <2>1, <2>2, <2>3 DEF Runs
  <2>6. \A u \in Threads, x \in Signals : u # t => Runs(u, x)' = Runs(u, x)
    BY <1>6 DEF Runs
  <2> QED BY <2>4, <2>5, <2>6
<1>11. ~Leaked(s) /\ owner[s] = t /\ count[s] = Active(t, s) /\ count[s] \in Nat \ {0}
  <2>1. ~Leaked(s) /\ owner[s] = t
    BY <1>4, <1>10 DEF IInv, OwnerRuns
  <2>2. count[s] = Active(t, s) /\ count[s] > 0 /\ count[s] \in Nat
    BY <1>3, <1>4, <2>1 DEF IInv, LockCounts, TypeOK
  <2> QED BY <2>1, <2>2
<1>12. /\ owner' \in [Signals -> Threads \cup {NoThread}] /\ count' \in [Signals -> Nat]
       /\ running' \in [Signals -> BOOLEAN] /\ running'[s] = FALSE
       /\ owner'[s] = (IF count[s] = 1 THEN NoThread ELSE t) /\ count'[s] = count[s] - 1
       /\ \A x \in Signals : x # s => /\ owner'[x] = owner[x] /\ count'[x] = count[x]
                                      /\ running'[x] = running[x]
  <2>1. count[s] - 1 \in Nat
    BY <1>11
  <2> QED BY <1>3, <1>4, <1>11, <2>1 DEF TypeOK, Release
<1>13. TypeOK'
  <2>1. \A u \in Threads : Len(stack'[u]) <= MaxDepth
    <3>1. Len(stack'[t]) <= MaxDepth
      BY <1>4, <1>6, LuaSignalAssumption
    <3> QED BY <1>3, <1>6, <3>1 DEF TypeOK
  <2> QED BY <1>3, <1>6, <1>7, <1>8, <1>12, <2>1 DEF TypeOK
<1>14. /\ \A x \in Signals : Leaked(x)' = Leaked(x)
       /\ NoThread # t
  BY <1>3, LuaSignalAssumption DEF Leaked
<1>15. Active(t, s)' = count'[s] /\ (count[s] = 1 => Runs(t, s)' = {})
  <2>1. IsFiniteSet(Runs(t, s))
    BY <1>3, <1>4, RunsFinite
  <2>2. /\ IsFiniteSet(Runs(t, s) \ {m})
        /\ Cardinality(Runs(t, s) \ {m}) = Cardinality(Runs(t, s)) - 1
    BY <1>10, <2>1, FS_RemoveElement
  <2>3. Active(t, s)' = count[s] - 1
    BY <1>10, <1>11, <2>2 DEF Active
  <2>4. count[s] = 1 => Cardinality(Runs(t, s) \ {m}) = 0
    BY <1>11, <2>2 DEF Active
  <2>5. count[s] = 1 => Runs(t, s) \ {m} = {}
    BY <2>2, <2>4, FS_EmptySet
  <2> QED BY <1>10, <1>12, <2>3, <2>5
<1>16. OwnerRuns'
  <2> SUFFICES ASSUME NEW x \in Signals
               PROVE  /\ Leaked(x)' => ~running'[x] /\ \A u \in Threads : Runs(u, x)' = {}
                      /\ \A u \in Threads : u # owner'[x] => Runs(u, x)' = {}
                      /\ running'[x] => ~(owner'[x] = NoThread)
    BY DEF OwnerRuns, Free
  <2>1. CASE x = s
    <3>1. \A u \in Threads : u # t => Runs(u, s)' = {}
      BY <1>4, <1>10, <1>11 DEF IInv, OwnerRuns
    <3>2. \A u \in Threads : u # owner'[s] => Runs(u, s)' = {}
      BY <1>12, <1>14, <1>15, <3>1
    <3> QED BY <1>11, <1>12, <1>14, <2>1, <3>2
  <2>2. CASE x # s
    <3>1. \A u \in Threads : Runs(u, x)' = Runs(u, x)
      BY <1>10, <2>2
    <3> QED BY <1>12, <1>14, <2>2, <3>1 DEF IInv, OwnerRuns, Free
  <2> QED BY <2>1, <2>2
<1>17. LockCounts'
  <2> SUFFICES ASSUME NEW x \in Signals, ~Leaked(x)
               PROVE  /\ owner'[x] = NoThread => count'[x] = 0
                      /\ \A u \in Threads : owner'[x] = u => count'[x] = Active(u, x)' /\ count'[x] > 0
    BY <1>14 DEF LockCounts, Free
  <2>1. CASE x # s
    <3>1. \A u \in Threads : Active(u, x)' = Active(u, x)
      BY <1>10, <2>1 DEF Active
    <3> QED BY <1>12, <2>1, <3>1 DEF IInv, LockCounts, Free
  <2>2. CASE x = s
    <3>1. CASE count[s] = 1
      <4>1. owner'[s] = NoThread /\ count'[s] = 0
        BY <1>12, <3>1
      <4> QED BY <2>2, <4>1, LuaSignalAssumption
    <3>2. CASE count[s] # 1
      <4>1. owner'[s] = t /\ count'[s] > 0
        BY <1>11, <1>12, <3>2
      <4> QED BY <1>14, <1>15, <2>2, <4>1
    <3> QED BY <3>1, <3>2
  <2> QED BY <2>1, <2>2
<1> QED BY <1>9, <1>13, <1>16, <1>17 DEF IInv

-----------------------------------------------------------------------------
LEMMA LuaInit == Init => IInv
<1> SUFFICES ASSUME Init PROVE IInv
  OBVIOUS
<1> USE LuaSignalAssumption DEF Init
<1>1. \A t \in Threads : stack[t] = <<>> /\ Len(stack[t]) = 0 /\ Lref[t] = 0
  OBVIOUS
<1>2. TypeOK
  <2>1. 0 \in 0..MaxDepth /\ 0 \in 0..MaxRaised /\ 0 <= MaxDepth
    OBVIOUS
  <2>2. stack \in [Threads -> Seq(Frame)]
    OBVIOUS
  <2> QED BY <1>1, <2>1, <2>2 DEF TypeOK
<1>3. Levels
  BY <1>1 DEF Levels
<1>4. \A t \in Threads, s \in Signals : Runs(t, s) = {}
  BY <1>1 DEF Runs
<1>5. OwnerRuns /\ LockCounts
  BY <1>4 DEF OwnerRuns, LockCounts, Free
<1> QED BY <1>2, <1>3, <1>5 DEF IInv

LEMMA LuaStep == IInv /\ [Next]_vars => IInv'
<1> SUFFICES ASSUME IInv, [Next]_vars PROVE IInv'
  OBVIOUS
<1>1. CASE Next
  <2>1. PICK t \in Threads :
          (\E s \in Signals, a \in Args, f \in Flags : Raise(t, s, a, f)) \/ Step(t)
    BY <1>1 DEF Next
  <2>2. CASE \E s \in Signals, a \in Args, f \in Flags : Raise(t, s, a, f)
    BY <2>2, RaiseStep
  <2>3. CASE AuthError(t) \/ PreloadError(t) \/ Prevent(t)
    BY <2>3, RefusedStep
  <2>4. CASE Preload(t) \/ LoadError(t) \/ Start(t) \/ Finish(t)
    BY <2>4, PreloadStep, LoadErrorStep, StartStep, FinishStep
  <2>5. CASE \E s \in Signals, a \in Args, f \in Flags : Signal(t, s, a, f)
    BY <2>5, SignalStep
  <2> QED BY <2>1, <2>2, <2>3, <2>4, <2>5 DEF Step
<1>2. CASE UNCHANGED vars
  <2> USE <1>2 DEF vars
  <2>1. TypeOK' /\ Levels'
    BY DEF IInv, TypeOK, Levels
  <2>2. \A u \in Threads, s \in Signals : Runs(u, s)' = Runs(u, s)
    BY DEF Runs
  <2>3. OwnerRuns' /\ LockCounts'
    BY <2>2, QuietLocks
  <2> QED BY <2>1, <2>3 DEF IInv
<1> QED BY <1>1, <1>2

LEMMA LuaInvariant == Spec => []IInv
BY LuaInit, LuaStep, PTL DEF Spec

LEMMA LockCountsSuffice == IInv => LocksMatchCalls /\ PreventsOnlyRecursion
<1> SUFFICES ASSUME IInv, NEW s \in Signals
             PROVE  /\ ~Leaked(s) => IF owner[s] = NoThread THEN count[s] = 0
                                     ELSE count[s] = Active(owner[s], s) /\ count[s] > 0
                    /\ running[s] => ~Free(s) /\ Active(owner[s], s) > 0
  BY DEF LocksMatchCalls, PreventsOnlyRecursion
<1>1. owner[s] = NoThread \/ owner[s] \in Threads
  BY DEF IInv, TypeOK
<1>2. ~Leaked(s) => IF owner[s] = NoThread THEN count[s] = 0
                    ELSE count[s] = Active(owner[s], s) /\ count[s] > 0
  BY <1>1 DEF IInv, LockCounts, Free
<1>3. running[s] => ~Free(s) /\ ~Leaked(s)
  BY DEF IInv, OwnerRuns
<1> QED BY <1>2, <1>3 DEF Free

LEMMA LevelsSuffice == IInv => ArgsOfInnermost
<1> SUFFICES ASSUME IInv, NEW t \in Threads
             PROVE  /\ At(t, "run") => \A k \in ArgBorders(t) : k > 0 /\ mink_stdd[t][k] = Top(t).arg
                    /\ stack[t] = <<>> => ArgBorders(t) = {0}
  BY DEF ArgsOfInnermost
<1>1. /\ Lref[t] \in 0..MaxDepth /\ MaxDepth \in Nat \ {0} /\ Len(stack[t]) \in 0..MaxDepth
      /\ stack[t] \in Seq(Frame)
  BY TopFrame, LuaSignalAssumption DEF IInv, TypeOK
<1>2. /\ Lref[t] <= Len(stack[t])
      /\ \A k \in 1..Len(stack[t]) : stack[t][k].pc = "run" <=> k <= Lref[t]
      /\ \A k \in 1..MaxDepth :
           mink_stdd[t][k] = IF k <= Lref[t] THEN stack[t][k].arg ELSE NoArg
  BY DEF IInv, Levels
<1>3. \A k \in 1..MaxDepth : mink_stdd[t][k] # NoArg <=> k <= Lref[t]
  <2> SUFFICES ASSUME NEW k \in 1..MaxDepth, k <= Lref[t] PROVE stack[t][k].arg # NoArg
    BY <1>2
  <2>1. k \in 1..Len(stack[t])
    BY <1>1, <1>2
  <2>2. stack[t][k] \in Frame
    BY <1>1, <2>1
  <2> QED BY <2>2, LuaSignalAssumption DEF Frame
<1>4. ArgBorders(t) = {Lref[t]}
  <2>1. \A k \in 0..MaxDepth :
          /\ (k > 0 => mink_stdd[t][k] # NoArg) <=> k <= Lref[t]
          /\ (k < MaxDepth => mink_stdd[t][k + 1] = NoArg) <=> k >= Lref[t]
    <3> SUFFICES ASSUME NEW k \in 0..MaxDepth
                 PROVE  /\ (k > 0 => mink_stdd[t][k] # NoArg) <=> k <= Lref[t]
                        /\ (k < MaxDepth => mink_stdd[t][k + 1] = NoArg) <=> k >= Lref[t]
      OBVIOUS
    <3>1. (k > 0 => mink_stdd[t][k] # NoArg) <=> k <= Lref[t]
      <4>1. CASE k = 0
        BY <1>1, <4>1
      <4>2. CASE k > 0
        <5>1. k \in 1..MaxDepth
          BY <1>1, <4>2
        <5> QED BY <1>3, <4>2, <5>1
      <4> QED BY <1>1, <4>1, <4>2
    <3>2. (k < MaxDepth => mink_stdd[t][k + 1] = NoArg) <=> k >= Lref[t]
      <4>1. CASE k = MaxDepth
        BY <1>1, <4>1
      <4>2. CASE k < MaxDepth
        <5>1. k + 1 \in 1..MaxDepth /\ (k + 1 <= Lref[t] <=> ~(k >= Lref[t]))
          BY <1>1, <4>2
        <5> QED BY <1>3, <4>2, <5>1
      <4> QED BY <1>1, <4>1, <4>2
    <3> QED BY <3>1, <3>2
  <2>2. \A k : k \in ArgBorders(t) <=> k \in 0..MaxDepth /\ k <= Lref[t] /\ k >= Lref[t]
    BY <2>1 DEF ArgBorders
  <2>3. \A k : k \in ArgBorders(t) <=> k = Lref[t]
    BY <1>1, <2>2
  <2> QED BY <2>3
<1>5. ASSUME At(t, "run") PROVE Lref[t] > 0 /\ mink_stdd[t][Lref[t]] = Top(t).arg
  <2>1. Len(stack[t]) \in 1..MaxDepth /\ Top(t).pc = "run"
    BY <1>5, TopFrame DEF At, IInv
  <2>2. Lref[t] = Len(stack[t])
    BY <1>1, <1>2, <2>1 DEF Top
  <2>3. Lref[t] \in 1..MaxDepth /\ Lref[t] <= Lref[t] /\ Lref[t] > 0
    BY <1>1, <2>1, <2>2
  <2> QED BY <1>2, <2>2, <2>3 DEF Top
<1>6. ASSUME stack[t] = <<>> PROVE Lref[t] = 0
  <2>1. Len(stack[t]) = 0
    BY <1>6
  <2> QED BY <1>1, <1>2, <2>1
<1> QED BY <1>4, <1>5, <1>6

\* The cache holds only scripts that load, mutexes have no owner or a thread,
\* the nesting stays within the levels of mink_stdd.
THEOREM SignalTypeCorrect == Spec => []TypeOK
<1>1. IInv => TypeOK
  BY DEF IInv
<1> QED BY <1>1, LuaInvariant, PTL

\* lua_sig_hndlr_run leaves a handler's mutex locked exactly as often as the
\* script is active, however handlers raise each other's signals; only a script
\* that fails to load under the lock is exempt.
THEOREM LocksBalanced == Spec => []LocksMatchCalls
BY LockCountsSuffice, LuaInvariant, PTL

\* shd->running turns away only a call from inside the handler itself: the flag
\* is never up without a run of the script, by the owner of the mutex.
THEOREM OnlyRecursionPrevented == Spec => []PreventsOnlyRecursion
BY LockCountsSuffice, LuaInvariant, PTL

\* mink_lua_get_args: mink_stdd has exactly one border, the level of the
\* innermost script, and there are its arguments.
THEOREM OwnArguments == Spec => []ArgsOfInnermost
BY LevelsSuffice, LuaInvariant, PTL
=============================================================================

------------------------------ MODULE IrqProofs -----------------------------
(***************************************************************************)
(* Proofs about Irq: the interrupt flag, atomic sections and the context   *)
(* of user programs, for any number of tasks.                              *)
(*                                                                         *)
(* Every step changes one kernel stack at most, by a push, a pop or a      *)
(* change of its top frame's place, so the invariant is a property of each *)
(* stack (StackOK) and of what a task finds when all its frames are popped *)
(* (Restored), and LocalStep reduces a step to facts about the new stack.  *)
(***************************************************************************)
EXTENDS Irq, SequenceTheorems, TLAPS

-----------------------------------------------------------------------------
(* The invariant *)

\* Every frame's flag is that of the code below it; ticks interrupt only where it is
\* set; a call is a task's first frame, a section is not; boot only enters sections
\* that do not dispatch.
StackOK(p, s) ==
  \A i \in 1 .. Len(s) :
    /\ s[i].flag = FlagAbove(p, s, i - 1)
    /\ s[i].kind = "timer" => s[i].flag
    /\ s[i].kind = "call" => i = 1 /\ p \in Tasks
    /\ s[i].kind = "section" => i # 1 \/ p = Boot
    /\ p = Boot => s[i].kind = "section" /\ s[i].at = "dispatched"

\* The registers of user mode after the frames s are popped, r if there are none.
Popped(s, r) ==
  IF s = <<>> THEN r
  ELSE IF s[1].kind = "call" THEN [s[1].regs EXCEPT !.esp = @ + SYSCALL_PARAM_COUNT]
  ELSE s[1].regs

Restored(t) == Popped(stack[t], IF t = running THEN regs ELSE tss[t].regs)

StageOK ==
  /\ stage \in {"irq_init", "time_init", "task_manager_init"} => alive = {}
  /\ stage = "move_to_first_task" => FirstTask \in alive
  /\ stage # "done" => running = Boot /\ \A t \in Tasks : stack[t] = <<>>
  /\ stage = "done" => running \in alive

\* A task that is not yet to be dispatched has no frames.
UnbornOK == \A t \in Tasks \ alive : stack[t] = <<>>

FlagsOK ==
  /\ flag = FlagAbove(running, stack[running], Len(stack[running]))
  /\ \A p \in Processes \ {Boot, running} : tss[p].flag = FlagAbove(p, stack[p], Len(stack[p]))

UsersOK == \A t \in Tasks : user[t] = Restored(t)

StacksOK == \A p \in Processes : StackOK(p, stack[p])

IrqInv == IrqTypeOK /\ StageOK /\ UnbornOK /\ FlagsOK /\ UsersOK /\ StacksOK

-----------------------------------------------------------------------------
(* Stacks *)

\* Interrupts are disabled behind a pushed frame that is no call.
LEMMA PushLemma ==
  ASSUME NEW p \in Processes, p # Boot, NEW s \in Seq(Frames), StackOK(p, s), NEW f \in Frames,
         f.flag = FlagAbove(p, s, Len(s)), f.kind = "timer" => f.flag,
         f.kind # "call", f.kind = "section" => s # <<>>
  PROVE  /\ Append(s, f) \in Seq(Frames)
         /\ StackOK(p, Append(s, f))
         /\ FlagAbove(p, Append(s, f), Len(Append(s, f))) = FALSE
         /\ \A r : s # <<>> => Popped(Append(s, f), r) = Popped(s, r)
         /\ \A r : s = <<>> => Popped(Append(s, f), r) = Popped(<<f>>, r)
<1> DEFINE a == Append(s, f)
<1>1. /\ a \in Seq(Frames) /\ Len(a) = Len(s) + 1 /\ Len(s) \in Nat
      /\ a[Len(s) + 1] = f /\ \A i \in 1 .. Len(s) : a[i] = s[i]
  OBVIOUS
<1> HIDE DEF a
<1>2. ASSUME NEW i \in 1 .. Len(a)
      PROVE  /\ a[i].flag = FlagAbove(p, a, i - 1)
             /\ a[i].kind = "timer" => a[i].flag
             /\ a[i].kind = "call" => i = 1 /\ p \in Tasks
             /\ a[i].kind = "section" => i # 1 \/ p = Boot
             /\ p = Boot => a[i].kind = "section" /\ a[i].at = "dispatched"
  <2>1. CASE i = Len(s) + 1
    <3>1. FlagAbove(p, a, Len(s)) = FlagAbove(p, s, Len(s))
      BY <1>1 DEF FlagAbove
    <3>2. s = <<>> => Len(s) = 0
      OBVIOUS
    <3>. QED BY <1>1, <2>1, <3>1, <3>2
  <2>2. CASE i \in 1 .. Len(s)
    <3>1. FlagAbove(p, a, i - 1) = FlagAbove(p, s, i - 1)
      BY <1>1, <2>2 DEF FlagAbove
    <3>. QED BY <1>1, <2>2, <3>1 DEF StackOK
  <2>. QED BY <1>1, <2>1, <2>2
<1>3. FlagAbove(p, a, Len(a)) = FALSE
  BY <1>1 DEF FlagAbove
<1>4. s # <<>> => a # <<>> /\ a[1] = s[1]
  <2>1. s # <<>> => Len(s) >= 1
    OBVIOUS
  <2>. QED BY <1>1, <2>1
<1>5. s = <<>> => a = <<f>>
  BY DEF a
<1>. QED BY <1>1, <1>2, <1>3, <1>4, <1>5 DEF StackOK, Popped, a

\* The last frame of a stack, and the stack without it.
LEMMA PopLemma ==
  ASSUME NEW p \in Processes, NEW s \in Seq(Frames), StackOK(p, s), s # <<>>
  PROVE  /\ Front(s) \in Seq(Frames) /\ StackOK(p, Front(s))
         /\ Last(s) = s[Len(s)] /\ Last(s) \in Frames
         /\ FlagAbove(p, Front(s), Len(Front(s))) = Last(s).flag
         /\ \A r : Front(s) # <<>> => Popped(Front(s), r) = Popped(s, r)
         /\ Front(s) = <<>> => Len(s) = 1
<1> DEFINE a == Front(s)
<1>1. /\ Len(s) \in Nat \ {0} /\ Last(s) = s[Len(s)] /\ Last(s) \in Frames
      /\ a \in Seq(Frames) /\ Len(a) = Len(s) - 1 /\ \A i \in 1 .. Len(a) : a[i] = s[i]
  <2>1. Len(s) \in Nat \ {0} /\ \A i \in 1 .. Len(s) : s[i] \in Frames
    OBVIOUS
  <2>2. Last(s) = s[Len(s)] /\ Last(s) \in Frames
    BY <2>1 DEF Last
  <2>3. \A i \in 1 .. Len(s) - 1 : s[i] \in Frames
    BY <2>1
  <2>4. Len(s) - 1 \in Int /\ 1 \in Int
    BY <2>1
  <2> DEFINE n == Len(s) - 1
  <2>5. /\ a \in Seq(Frames)
        /\ Len(a) = IF 1 <= n THEN n - 1 + 1 ELSE 0
        /\ \A i \in 1 .. n - 1 + 1 : a[i] = s[1 + i - 1]
    BY <2>3, <2>4, SubSeqProperties DEF Front
  <2>. n \in Nat /\ n = Len(s) - 1
    BY <2>1
  <2> HIDE DEF a, n
  <2>6. Len(a) = n
    BY <2>5
  <2>7. \A i \in 1 .. Len(a) : a[i] = s[i]
    BY <2>1, <2>5, <2>6
  <2>. QED BY <2>1, <2>2, <2>5, <2>6, <2>7
<1> HIDE DEF a
<1>2. ASSUME NEW i \in 0 .. Len(a)
      PROVE  FlagAbove(p, a, i) = FlagAbove(p, s, i)
  BY <1>1 DEF FlagAbove
<1>3. ASSUME NEW i \in 1 .. Len(a)
      PROVE  /\ a[i].flag = FlagAbove(p, a, i - 1)
             /\ a[i].kind = "timer" => a[i].flag
             /\ a[i].kind = "call" => i = 1 /\ p \in Tasks
             /\ a[i].kind = "section" => i # 1 \/ p = Boot
             /\ p = Boot => a[i].kind = "section" /\ a[i].at = "dispatched"
  <2>1. i \in 1 .. Len(s) /\ i - 1 \in 0 .. Len(a) /\ a[i] = s[i]
    BY <1>1
  <2>. QED BY <1>2, <2>1 DEF StackOK
<1>4. Len(s) \in 1 .. Len(s) /\ Len(a) \in 0 .. Len(a) /\ Len(a) = Len(s) - 1
  BY <1>1
<1>5. FlagAbove(p, a, Len(a)) = Last(s).flag
  BY <1>1, <1>2, <1>4 DEF StackOK
<1>6. a # <<>> => a[1] = s[1]
  <2>1. a # <<>> => Len(a) >= 1
    BY <1>1
  <2>. QED BY <1>1, <2>1
<1>7. a = <<>> => Len(s) = 1
  BY <1>1
<1>. QED BY <1>1, <1>3, <1>5, <1>6, <1>7 DEF StackOK, Popped, a

\* Frames of the same kinds and flags are as good.
LEMMA SameLemma ==
  ASSUME NEW p \in Processes, p # Boot, NEW s \in Seq(Frames), StackOK(p, s),
         NEW a \in Seq(Frames), Len(a) = Len(s),
         \A i \in 1 .. Len(s) : a[i].kind = s[i].kind /\ a[i].flag = s[i].flag
  PROVE  /\ StackOK(p, a)
         /\ FlagAbove(p, a, Len(a)) = FlagAbove(p, s, Len(s))
<1>1. Len(s) \in Nat
  OBVIOUS
<1>2. \A i \in 0 .. Len(s) : FlagAbove(p, a, i) = FlagAbove(p, s, i)
  BY <1>1 DEF FlagAbove
<1>3. ASSUME NEW i \in 1 .. Len(a)
      PROVE  /\ a[i].flag = FlagAbove(p, a, i - 1)
             /\ a[i].kind = "timer" => a[i].flag
             /\ a[i].kind = "call" => i = 1 /\ p \in Tasks
             /\ a[i].kind = "section" => i # 1 \/ p = Boot
             /\ p = Boot => a[i].kind = "section" /\ a[i].at = "dispatched"
  <2>1. i \in 1 .. Len(s) /\ i - 1 \in 0 .. Len(s)
    BY <1>1
  <2>. QED BY <1>2, <2>1 DEF StackOK
<1>. QED BY <1>1, <1>2, <1>3 DEF StackOK

-----------------------------------------------------------------------------
(* Steps *)

\* A step of the running process on its own stack.
LEMMA LocalStep ==
  ASSUME IrqInv, NEW s \in Seq(Frames), StackOK(running, s),
         stack' = [stack EXCEPT ![running] = s],
         flag' = FlagAbove(running, s, Len(s)),
         regs' \in Registers, user' \in [Tasks -> Registers],
         \A t \in Tasks \ {running} : user'[t] = user[t],
         running \in Tasks => user'[running] = Popped(s, regs'),
         masked' \in BOOLEAN, irr' \in BOOLEAN, isr' \in BOOLEAN,
         UNCHANGED <<stage, running, tss, alive>>
  PROVE  IrqInv'
<1>1. running \in Processes /\ stack \in [Processes -> Seq(Frames)]
  BY DEF IrqInv, IrqTypeOK
<1>2. /\ stack'[running] = s
      /\ \A p \in Processes \ {running} : stack'[p] = stack[p]
      /\ stack' \in [Processes -> Seq(Frames)]
  BY <1>1
<1>3. IrqTypeOK'
  <2>1. flag' \in BOOLEAN
    BY DEF FlagAbove
  <2>. QED BY <1>2, <2>1 DEF IrqInv, IrqTypeOK
<1>4. StageOK'
  BY <1>2, IrqAssumption DEF IrqInv, StageOK, Processes
<1>5. UnbornOK'
  <2>1. \A t \in Tasks \ alive : t # running /\ t \in Processes
    BY IrqAssumption DEF IrqInv, StageOK, Processes, IrqTypeOK
  <2>. QED BY <1>2, <2>1 DEF IrqInv, UnbornOK
<1>6. FlagsOK'
  BY <1>2 DEF IrqInv, FlagsOK
<1>7. UsersOK'
  <2>1. ASSUME NEW t \in Tasks, t # running
        PROVE  user'[t] = Restored(t)'
    BY <1>2, <2>1 DEF IrqInv, UsersOK, Restored, Processes
  <2>2. ASSUME NEW t \in Tasks, t = running
        PROVE  user'[t] = Restored(t)'
    BY <1>2, <2>2 DEF Restored
  <2>. QED BY <2>1, <2>2 DEF UsersOK
<1>8. StacksOK'
  BY <1>2 DEF IrqInv, StacksOK
<1>. QED BY <1>3, <1>4, <1>5, <1>6, <1>7, <1>8 DEF IrqInv

\* What the invariant says of the running process.
LEMMA RunningLemma ==
  ASSUME IrqInv
  PROVE  /\ running \in Processes /\ stack[running] \in Seq(Frames)
         /\ stack \in [Processes -> Seq(Frames)]
         /\ StackOK(running, stack[running])
         /\ flag = FlagAbove(running, stack[running], Len(stack[running]))
         /\ running \in Tasks => user[running] = Popped(stack[running], regs)
         /\ regs \in Registers /\ user \in [Tasks -> Registers]
         /\ masked \in BOOLEAN /\ irr \in BOOLEAN /\ isr \in BOOLEAN
         /\ stack[running] # <<>> =>
              /\ Top = stack[running][Len(stack[running])] /\ Top \in Frames
              /\ Len(stack[running]) \in 1 .. Len(stack[running])
         /\ InKernel \in Registers /\ Boot \notin Tasks
<1>1. /\ running \in Processes /\ stack[running] \in Seq(Frames)
      /\ stack \in [Processes -> Seq(Frames)]
      /\ regs \in Registers /\ user \in [Tasks -> Registers]
      /\ masked \in BOOLEAN /\ irr \in BOOLEAN /\ isr \in BOOLEAN
  BY DEF IrqInv, IrqTypeOK
<1>2. StackOK(running, stack[running])
  BY <1>1 DEF IrqInv, StacksOK
<1>3. flag = FlagAbove(running, stack[running], Len(stack[running]))
  BY DEF IrqInv, FlagsOK
<1>4. running \in Tasks => user[running] = Popped(stack[running], regs)
  BY DEF IrqInv, UsersOK, Restored
<1>5. stack[running] # <<>> =>
        /\ Top = stack[running][Len(stack[running])] /\ Top \in Frames
        /\ Len(stack[running]) \in 1 .. Len(stack[running])
  <2>1. ASSUME NEW s \in Seq(Frames), s # <<>>
        PROVE  Len(s) \in 1 .. Len(s) /\ s[Len(s)] \in Frames
    BY <2>1
  <2>. QED BY <1>1, <2>1 DEF Top, Last
<1>6. InKernel \in Registers /\ Boot \notin Tasks
  BY IrqAssumption DEF InKernel, Registers, Failed, Junk, KernelTop
<1>. QED BY <1>1, <1>2, <1>3, <1>4, <1>5, <1>6

\* The end of a section restores the flag of the code around it.
LEMMA LeaveStep == IrqInv /\ irq_leave_protection => IrqInv'
<1> SUFFICES ASSUME IrqInv, irq_leave_protection PROVE IrqInv'
  OBVIOUS
<1> DEFINE s == stack[running]
<1>1. s # <<>> /\ Top.kind = "section" /\ stack' = [stack EXCEPT ![running] = Front(s)]
  BY RunningLemma DEF irq_leave_protection, TopIs, Pop
<1>2. /\ Front(s) \in Seq(Frames) /\ StackOK(running, Front(s))
      /\ FlagAbove(running, Front(s), Len(Front(s))) = Top.flag
      /\ Front(s) # <<>> => Popped(Front(s), regs) = Popped(s, regs)
      /\ Front(s) = <<>> => Len(s) = 1
  BY <1>1, RunningLemma, PopLemma DEF Top
<1>3. running \in Tasks => Front(s) # <<>>
  BY <1>1, <1>2, RunningLemma DEF StackOK
<1>. QED BY <1>1, <1>2, <1>3, RunningLemma, LocalStep DEF irq_leave_protection, controller

\* The timer's return.
LEMMA IretStep == IrqInv /\ iret => IrqInv'
<1> SUFFICES ASSUME IrqInv, iret PROVE IrqInv'
  OBVIOUS
<1> DEFINE s == stack[running]
<1>1. s # <<>> /\ Top.kind = "timer" /\ stack' = [stack EXCEPT ![running] = Front(s)]
  BY RunningLemma DEF iret, TopIs, Pop
<1>2. /\ Front(s) \in Seq(Frames) /\ StackOK(running, Front(s))
      /\ FlagAbove(running, Front(s), Len(Front(s))) = Top.flag
      /\ Front(s) # <<>> => Popped(Front(s), regs') = Popped(s, regs') /\ Popped(s, regs') = Popped(s, regs)
      /\ Front(s) = <<>> => Len(s) = 1
  BY <1>1, RunningLemma, PopLemma DEF Top, Popped
<1>3. Front(s) = <<>> => Popped(s, regs) = regs'
  BY <1>1, <1>2, RunningLemma DEF Popped, iret
<1>4. Popped(<<>>, regs') = regs'
  BY DEF Popped
<1>5. running \in Tasks => user[running] = Popped(Front(s), regs')
  BY <1>2, <1>3, <1>4, RunningLemma
<1>6. regs' \in Registers
  BY <1>1, RunningLemma DEF iret, Frames
<1>. QED BY <1>1, <1>2, <1>5, <1>6, RunningLemma, LocalStep DEF iret, controller

\* A new place in the top frame.
LEMMA MarkLemma ==
  ASSUME IrqInv, stack[running] # <<>>, Top.at # "dispatched",
         NEW at \in {"handler", "eoi", "ticked", "logged", "dispatched"}
  PROVE  /\ Mark(at) \in Seq(Frames) /\ Mark(at) # <<>> /\ StackOK(running, Mark(at))
         /\ FlagAbove(running, Mark(at), Len(Mark(at))) = flag
         /\ \A r : Popped(Mark(at), r) = Popped(stack[running], r)
<1> DEFINE s == stack[running]
           f == Frame(Top.kind, at, Top.flag, Top.regs)
<1>1. /\ f \in Frames /\ f.kind = s[Len(s)].kind /\ f.flag = s[Len(s)].flag
      /\ f.regs = s[Len(s)].regs
  BY RunningLemma DEF Frames, Frame
<1>2. /\ running \in Processes /\ s \in Seq(Frames) /\ StackOK(running, s)
      /\ flag = FlagAbove(running, s, Len(s)) /\ Len(s) \in 1 .. Len(s)
  BY RunningLemma
<1>0. running # Boot
  BY <1>2, RunningLemma DEF StackOK
<1>3. Mark(at) = [s EXCEPT ![Len(s)] = f]
  BY DEF Mark
<1> DEFINE m == Mark(at)
<1> HIDE DEF s, f, m
<1>4. /\ m \in Seq(Frames) /\ Len(m) = Len(s)
      /\ \A i \in 1 .. Len(s) : /\ m[i].kind = s[i].kind /\ m[i].flag = s[i].flag
                                 /\ m[i].regs = s[i].regs
  BY <1>1, <1>2, <1>3 DEF m
<1>5. StackOK(running, m) /\ FlagAbove(running, m, Len(m)) = FlagAbove(running, s, Len(s))
  BY <1>0, <1>2, <1>4, SameLemma
<1>6. m # <<>> /\ s # <<>> /\ 1 \in 1 .. Len(s)
  BY <1>2, <1>4
<1>7. m[1].kind = s[1].kind /\ m[1].regs = s[1].regs
  BY <1>4, <1>6
<1>8. \A r : Popped(m, r) = Popped(s, r)
  BY <1>6, <1>7 DEF Popped
<1>. QED BY <1>2, <1>4, <1>5, <1>6, <1>8 DEF s, m

\* The start of a section: the code that calls it is marked, the flags are pushed.
LEMMA EnterStep == IrqInv /\ irq_enter_protection => IrqInv'
<1> SUFFICES ASSUME IrqInv, irq_enter_protection PROVE IrqInv'
  OBVIOUS
<1> DEFINE m == Mark(AfterSection[Top.kind])
           g == Frame("section", "entered", flag, InKernel)
<1>1. /\ stack[running] # <<>> /\ Top.kind \in {"call", "timer", "fault"}
      /\ Top.at # "dispatched"
      /\ stack' = [stack EXCEPT ![running] = Append(m, g)]
  BY DEF irq_enter_protection, MayProtect, TopIs, Push
<1>2. AfterSection[Top.kind] \in {"handler", "ticked", "logged"}
  BY <1>1 DEF AfterSection
<1>3. /\ m \in Seq(Frames) /\ m # <<>> /\ StackOK(running, m)
      /\ FlagAbove(running, m, Len(m)) = flag
      /\ \A r : Popped(m, r) = Popped(stack[running], r)
  BY <1>1, <1>2, MarkLemma
<1>4. g \in Frames /\ g.flag = flag /\ g.kind = "section" /\ running \in Processes
      /\ running # Boot
  <2>1. flag \in BOOLEAN
    BY DEF IrqInv, IrqTypeOK
  <2>2. running # Boot
    BY <1>1, RunningLemma DEF StackOK
  <2>. QED BY <2>1, <2>2, RunningLemma DEF Frame, Frames
<1> HIDE DEF m, g
<1>5. /\ Append(m, g) \in Seq(Frames) /\ StackOK(running, Append(m, g))
      /\ FlagAbove(running, Append(m, g), Len(Append(m, g))) = FALSE
      /\ Popped(Append(m, g), regs) = Popped(m, regs)
  <2>1. ASSUME NEW p \in Processes, p # Boot, NEW q \in Seq(Frames), NEW f \in Frames, StackOK(p, q),
               q # <<>>, f.kind = "section", f.flag = FlagAbove(p, q, Len(q))
        PROVE  /\ Append(q, f) \in Seq(Frames) /\ StackOK(p, Append(q, f))
               /\ FlagAbove(p, Append(q, f), Len(Append(q, f))) = FALSE
               /\ \A r : Popped(Append(q, f), r) = Popped(q, r)
    BY <2>1, PushLemma
  <2>2. g.flag = FlagAbove(running, m, Len(m))
    BY <1>3, <1>4
  <2>. QED BY <1>3, <1>4, <2>1, <2>2
<1>. QED BY <1>1, <1>3, <1>5, RunningLemma, LocalStep DEF irq_enter_protection, controller

\* A timer handler's end of interrupt.
LEMMA TimerHandlerStep == IrqInv /\ do_handler_timer => IrqInv'
<1> SUFFICES ASSUME IrqInv, do_handler_timer PROVE IrqInv'
  OBVIOUS
<1> DEFINE m == Mark("eoi")
<1>1. stack[running] # <<>> /\ stack' = [stack EXCEPT ![running] = m] /\ Top.at # "dispatched"
  BY DEF do_handler_timer, TopIs
<1>2. /\ m \in Seq(Frames) /\ StackOK(running, m)
      /\ FlagAbove(running, m, Len(m)) = flag
      /\ Popped(m, regs) = Popped(stack[running], regs)
  BY <1>1, MarkLemma
<1> HIDE DEF m
<1>. QED BY <1>1, <1>2, RunningLemma, LocalStep DEF do_handler_timer

\* A frame pushed by an interrupt or an exception.
LEMMA InterruptStep ==
  ASSUME IrqInv, running # Boot, NEW f \in Frames, f.kind \in {"timer", "fault"}, f.flag = flag, f.regs = regs,
         f.kind = "timer" => flag,
         stack' = Push(stack[running], f), flag' = FALSE, regs' = InKernel,
         irr' \in BOOLEAN, isr' \in BOOLEAN,
         UNCHANGED <<stage, running, tss, alive, masked, user>>
  PROVE  IrqInv'
<1> DEFINE s == stack[running]
<1>0. /\ running \in Processes /\ s \in Seq(Frames) /\ StackOK(running, s)
      /\ flag = FlagAbove(running, s, Len(s))
      /\ running \in Tasks => user[running] = Popped(s, regs)
      /\ stack' = [stack EXCEPT ![running] = Append(s, f)]
  BY RunningLemma DEF Push
<1> HIDE DEF s
<1>1. /\ Append(s, f) \in Seq(Frames) /\ StackOK(running, Append(s, f))
      /\ FlagAbove(running, Append(s, f), Len(Append(s, f))) = FALSE
      /\ s # <<>> => Popped(Append(s, f), InKernel) = Popped(s, InKernel)
      /\ s = <<>> => Popped(Append(s, f), InKernel) = Popped(<<f>>, InKernel)
  <2>1. ASSUME NEW p \in Processes, p # Boot, NEW q \in Seq(Frames), StackOK(p, q),
               f.flag = FlagAbove(p, q, Len(q))
        PROVE  /\ Append(q, f) \in Seq(Frames) /\ StackOK(p, Append(q, f))
               /\ FlagAbove(p, Append(q, f), Len(Append(q, f))) = FALSE
               /\ \A r : q # <<>> => Popped(Append(q, f), r) = Popped(q, r)
               /\ \A r : q = <<>> => Popped(Append(q, f), r) = Popped(<<f>>, r)
    BY <2>1, PushLemma
  <2>. QED BY <1>0, <2>1
<1>2. s # <<>> => Popped(s, InKernel) = Popped(s, regs)
  BY DEF Popped
<1>3. s = <<>> => Popped(<<f>>, InKernel) = regs /\ Popped(s, regs) = regs
  BY DEF Popped
<1>4. running \in Tasks => user'[running] = Popped(Append(s, f), regs')
  BY <1>0, <1>1, <1>2, <1>3
<1>. QED BY <1>0, <1>1, <1>4, RunningLemma, LocalStep

\* The timer's interrupt.
LEMMA TimerStep == IrqInv /\ exception_handler_timer => IrqInv'
<1> SUFFICES ASSUME IrqInv, exception_handler_timer PROVE IrqInv'
  OBVIOUS
<1> DEFINE f == Frame("timer", "taken", flag, regs)
<1>1. f \in Frames /\ f.kind = "timer" /\ f.flag = flag /\ f.regs = regs /\ flag
  BY DEF IrqInv, IrqTypeOK, Frames, Frame, exception_handler_timer
<1>2. running # Boot
  BY <1>1, RunningLemma DEF FlagAbove
<1> HIDE DEF f
<1>. QED BY <1>1, <1>2, InterruptStep DEF exception_handler_timer, f

\* An exception.
LEMMA ExceptionStep == IrqInv /\ exception => IrqInv'
<1> SUFFICES ASSUME IrqInv, exception PROVE IrqInv'
  OBVIOUS
<1> DEFINE f == Frame("fault", "taken", flag, regs)
<1>1. f \in Frames /\ f.kind = "fault" /\ f.flag = flag /\ f.regs = regs
  BY DEF IrqInv, IrqTypeOK, Frames, Frame, exception
<1>2. running # Boot
  BY RunningLemma DEF StackOK, exception, InUserMode, TopIs
<1> HIDE DEF f
<1>. QED BY <1>1, <1>2, RunningLemma, InterruptStep DEF exception, f, controller

-----------------------------------------------------------------------------
(* System calls *)

\* The arguments on a program's stack and its eax are independent.
LEMMA RegistersLemma ==
  ASSUME NEW r \in Registers, NEW e \in {Failed, Zero, Value, Pid, Junk}
  PROVE  /\ [r EXCEPT !.eax = e] \in Registers
         /\ [r EXCEPT !.esp = @ + SYSCALL_PARAM_COUNT] \in Registers
         /\ [r EXCEPT !.esp = @ - SYSCALL_PARAM_COUNT] \in Registers
         /\ [[r EXCEPT !.eax = e] EXCEPT !.esp = @ + SYSCALL_PARAM_COUNT]
               = [[r EXCEPT !.esp = @ + SYSCALL_PARAM_COUNT] EXCEPT !.eax = e]
         /\ [[r EXCEPT !.esp = @ - SYSCALL_PARAM_COUNT] EXCEPT !.esp = @ + SYSCALL_PARAM_COUNT] = r
<1>1. e \in Failed .. Junk
  BY DEF Failed, Zero, Value, Pid, Junk
<1>2. /\ r.esp \in Int /\ r.eip \in Sites \union {Entry, "kernel"} /\ r.eax \in Failed .. Junk
      /\ r = [eip |-> r.eip, esp |-> r.esp, eax |-> r.eax]
  BY DEF Registers
<1>3. [r EXCEPT !.eax = e] = [eip |-> r.eip, esp |-> r.esp, eax |-> e]
  BY DEF Registers
<1>4. \A n : [r EXCEPT !.esp = n] = [eip |-> r.eip, esp |-> n, eax |-> r.eax]
  BY DEF Registers
<1>5. r.esp + SYSCALL_PARAM_COUNT \in Int /\ r.esp - SYSCALL_PARAM_COUNT \in Int
      /\ r.esp - SYSCALL_PARAM_COUNT + SYSCALL_PARAM_COUNT = r.esp
  BY <1>2 DEF SYSCALL_PARAM_COUNT
<1>6. [r EXCEPT !.eax = e] \in Registers
  BY <1>1, <1>2, <1>3 DEF Registers
<1>7. /\ [r EXCEPT !.esp = @ + SYSCALL_PARAM_COUNT] \in Registers
      /\ [r EXCEPT !.esp = @ - SYSCALL_PARAM_COUNT] \in Registers
  BY <1>2, <1>4, <1>5 DEF Registers
<1>8. [[r EXCEPT !.eax = e] EXCEPT !.esp = @ + SYSCALL_PARAM_COUNT]
        = [[r EXCEPT !.esp = @ + SYSCALL_PARAM_COUNT] EXCEPT !.eax = e]
  BY <1>3, <1>4
<1>9. [[r EXCEPT !.esp = @ - SYSCALL_PARAM_COUNT] EXCEPT !.esp = @ + SYSCALL_PARAM_COUNT] = r
  <2>1. [[r EXCEPT !.esp = @ - SYSCALL_PARAM_COUNT] EXCEPT !.esp = @ + SYSCALL_PARAM_COUNT]
          = [eip |-> r.eip, esp |-> r.esp - SYSCALL_PARAM_COUNT + SYSCALL_PARAM_COUNT, eax |-> r.eax]
    BY <1>4
  <2>. QED BY <1>2, <1>5, <2>1
<1>. QED BY <1>6, <1>7, <1>8, <1>9

\* The child's registers are the parent's, with another result.
LEMMA ChildLemma ==
  ASSUME NEW q \in Registers
  PROVE  /\ ChildRegs(q) = [[q EXCEPT !.esp = @ + SYSCALL_PARAM_COUNT] EXCEPT !.eax = Zero]
         /\ ChildRegs(q) \in Registers
<1>1. /\ q.esp \in Int /\ q.eip \in Sites \union {Entry, "kernel"}
      /\ q = [eip |-> q.eip, esp |-> q.esp, eax |-> q.eax]
  BY DEF Registers
<1> DEFINE n == q.esp + SYSCALL_PARAM_COUNT
           c == [eip |-> q.eip, esp |-> n, eax |-> Zero]
<1>2. n \in Int /\ Zero \in Failed .. Junk
  BY <1>1 DEF SYSCALL_PARAM_COUNT, Zero, Failed, Junk
<1> HIDE DEF n
<1>3. c \in Registers
  BY <1>1, <1>2 DEF Registers
<1> DEFINE d == [q EXCEPT !.esp = n]
           e == [q EXCEPT !.eax = Zero]
<1>4. d = [eip |-> q.eip, esp |-> n, eax |-> q.eax] /\ e = [eip |-> q.eip, esp |-> q.esp, eax |-> Zero]
  BY DEF Registers
<1>5. [q EXCEPT !.eax = Zero, !.esp = n] = [e EXCEPT !.esp = n]
  OBVIOUS
<1> HIDE DEF d, e
<1>6. [d EXCEPT !.eax = Zero] = c /\ [e EXCEPT !.esp = n] = c
  BY <1>4
<1>. QED BY <1>3, <1>5, <1>6 DEF ChildRegs, n, d

\* The frame of a call is the task's only one, and its registers can be replaced.
LEMMA CallLemma ==
  ASSUME IrqInv, stack[running] # <<>>, Top.kind = "call", NEW r \in Registers
  PROVE  LET m == [stack[running] EXCEPT ![1] = Frame("call", "done", TRUE, r)]
         IN  /\ m \in Seq(Frames) /\ StackOK(running, m)
             /\ FlagAbove(running, m, Len(m)) = flag
             /\ \A q : Popped(m, q) = [r EXCEPT !.esp = @ + SYSCALL_PARAM_COUNT]
             /\ \A q : Popped(stack[running], q) = [Top.regs EXCEPT !.esp = @ + SYSCALL_PARAM_COUNT]
             /\ SetFrame(TRUE, r) = [stack EXCEPT ![running] = m]
             /\ Top = SyscallFrame /\ Top.flag = TRUE /\ Top.regs \in Registers
             /\ Len(stack[running]) = 1 /\ running \in Tasks
<1> DEFINE s == stack[running]
           f == Frame("call", "done", TRUE, r)
           m == [s EXCEPT ![1] = f]
<1>1. /\ running \in Processes /\ s \in Seq(Frames) /\ StackOK(running, s)
      /\ flag = FlagAbove(running, s, Len(s)) /\ Len(s) \in 1 .. Len(s)
      /\ Top = s[Len(s)] /\ Top \in Frames
  BY RunningLemma
<1>2. Len(s) = 1 /\ running \in Tasks /\ running # Boot /\ Top = s[1] /\ s # <<>>
  BY <1>1, RunningLemma DEF StackOK
<1>3. s[1].kind = "call" /\ s[1].flag = TRUE /\ s[1].regs \in Registers
  BY <1>1, <1>2 DEF StackOK, FlagAbove, Frames
<1>4. f \in Frames /\ f.kind = "call" /\ f.flag = TRUE /\ f.regs = r
  BY DEF Frame, Frames
<1>5. SetFrame(TRUE, r) = [stack EXCEPT ![running] = m]
  BY DEF SetFrame
<1> HIDE DEF s, f, m
<1>6. m \in Seq(Frames) /\ Len(m) = 1 /\ m[1] = f /\ m # <<>>
  <2>1. ASSUME NEW q \in Seq(Frames), Len(q) = 1, NEW g \in Frames
        PROVE  LET a == [q EXCEPT ![1] = g] IN a \in Seq(Frames) /\ Len(a) = 1 /\ a[1] = g
    BY <2>1
  <2>2. m \in Seq(Frames) /\ Len(m) = 1 /\ m[1] = f
    BY <1>1, <1>2, <1>4, <2>1 DEF m
  <2>3. ASSUME m = <<>> PROVE FALSE
    <3>1. Len(m) = 0
      BY <2>3
    <3>. QED BY <2>2, <3>1
  <2>. QED BY <2>2, <2>3
<1>7. \A i \in 1 .. Len(s) : m[i].kind = s[i].kind /\ m[i].flag = s[i].flag
  <2>1. \A i \in 1 .. Len(s) : i = 1
    BY <1>2
  <2>. QED BY <1>3, <1>4, <1>6, <2>1
<1>8. StackOK(running, m) /\ FlagAbove(running, m, Len(m)) = FlagAbove(running, s, Len(s))
  BY <1>1, <1>2, <1>6, <1>7, SameLemma
<1>9. /\ \A q : Popped(m, q) = [r EXCEPT !.esp = @ + SYSCALL_PARAM_COUNT]
      /\ \A q : Popped(s, q) = [Top.regs EXCEPT !.esp = @ + SYSCALL_PARAM_COUNT]
  BY <1>2, <1>3, <1>4, <1>6 DEF Popped
<1>. QED BY <1>1, <1>2, <1>3, <1>5, <1>6, <1>8, <1>9 DEF s, f, m, SyscallFrame

\* A result in the frame, and the user program that expects it.
LEMMA ResultStep ==
  ASSUME IrqInv, stack[running] # <<>>, Top.kind = "call", NEW r \in Registers,
         stack' = SetFrame(TRUE, r), user' \in [Tasks -> Registers],
         \A t \in Tasks \ {running} : user'[t] = user[t],
         running \in Tasks => user'[running] = [r EXCEPT !.esp = @ + SYSCALL_PARAM_COUNT],
         UNCHANGED <<stage, running, flag, regs, tss, alive, controller>>
  PROVE  IrqInv'
<1> DEFINE m == [stack[running] EXCEPT ![1] = Frame("call", "done", TRUE, r)]
<1>1. /\ m \in Seq(Frames) /\ StackOK(running, m)
      /\ FlagAbove(running, m, Len(m)) = flag
      /\ \A q : Popped(m, q) = [r EXCEPT !.esp = @ + SYSCALL_PARAM_COUNT]
      /\ SetFrame(TRUE, r) = [stack EXCEPT ![running] = m]
  BY CallLemma
<1> HIDE DEF m
<1>2. running \in Tasks => user'[running] = Popped(m, regs')
  BY <1>1
<1>. QED BY <1>1, <1>2, RunningLemma, LocalStep DEF controller

\* A call that returns a value.
LEMMA HandlerStep ==
  ASSUME IrqInv, NEW ret \in {Failed, Value}, do_handler_syscall(ret)
  PROVE  IrqInv'
<1> DEFINE r == [Top.regs EXCEPT !.eax = ret]
<1>1. /\ stack[running] # <<>> /\ Top.kind = "call" /\ stack' = SetFrame(Top.flag, r)
      /\ user' = [user EXCEPT ![running].eax = ret]
  BY DEF do_handler_syscall, TopIs
<1>2. /\ Top.flag = TRUE /\ Top.regs \in Registers
      /\ \A q : Popped(stack[running], q) = [Top.regs EXCEPT !.esp = @ + SYSCALL_PARAM_COUNT]
  BY <1>1, CallLemma, RunningLemma
<1>3. ret \in Failed .. Junk
  BY DEF Failed, Value, Junk
<1>4. r \in Registers
  BY <1>2, <1>3 DEF Registers
<1>5. user' \in [Tasks -> Registers] /\ \A t \in Tasks \ {running} : user'[t] = user[t]
  BY <1>1, <1>3, RunningLemma DEF Registers
<1>6. ASSUME running \in Tasks
      PROVE  user'[running] = [r EXCEPT !.esp = @ + SYSCALL_PARAM_COUNT]
  <2>1. user[running] = [Top.regs EXCEPT !.esp = @ + SYSCALL_PARAM_COUNT]
    BY <1>2, <1>6, RunningLemma
  <2>2. user'[running] = [user[running] EXCEPT !.eax = ret]
    BY <1>1, <1>6, RunningLemma
  <2>. QED BY <1>2, <2>1, <2>2 DEF Registers
<1> HIDE DEF r
<1>. QED BY <1>1, <1>2, <1>4, <1>5, <1>6, ResultStep DEF do_handler_syscall

\* A call without a handler.
LEMMA UnknownStep == IrqInv /\ unknown_syscall => IrqInv'
<1> SUFFICES ASSUME IrqInv, unknown_syscall PROVE IrqInv'
  OBVIOUS
<1>1. stack[running] # <<>> /\ Top.kind = "call" /\ stack' = SetFrame(Top.flag, Top.regs)
  BY DEF unknown_syscall, TopIs
<1>2. /\ Top.flag = TRUE /\ Top.regs \in Registers
      /\ \A q : Popped(stack[running], q) = [Top.regs EXCEPT !.esp = @ + SYSCALL_PARAM_COUNT]
  BY <1>1, CallLemma, RunningLemma
<1>3. running \in Tasks => user[running] = [Top.regs EXCEPT !.esp = @ + SYSCALL_PARAM_COUNT]
  BY <1>2, RunningLemma
<1>. QED BY <1>1, <1>2, <1>3, RunningLemma, ResultStep DEF unknown_syscall

\* A new program in the place of the caller's.
LEMMA ExecveStep == IrqInv /\ sys_execve => IrqInv'
<1> SUFFICES ASSUME IrqInv, sys_execve PROVE IrqInv'
  OBVIOUS
<1> DEFINE r == [eip |-> Entry, esp |-> StackTop - SYSCALL_PARAM_COUNT, eax |-> Zero]
           u == [eip |-> Entry, esp |-> StackTop, eax |-> Zero]
<1>1. /\ stack[running] # <<>> /\ Top.kind = "call" /\ stack' = SetFrame(TRUE, r)
      /\ user' = [user EXCEPT ![running] = u]
  BY DEF sys_execve, TopIs
<1>2. r \in Registers /\ u \in Registers /\ u = [r EXCEPT !.esp = @ + SYSCALL_PARAM_COUNT]
  BY DEF Registers, StackTop, SYSCALL_PARAM_COUNT, Zero, Failed, Junk
<1> HIDE DEF r, u
<1>3. /\ user' \in [Tasks -> Registers] /\ \A t \in Tasks \ {running} : user'[t] = user[t]
      /\ running \in Tasks => user'[running] = u
  BY <1>1, <1>2, RunningLemma
<1>. QED BY <1>1, <1>2, <1>3, RunningLemma, ResultStep DEF sys_execve

\* The parent's result and the child's context.
LEMMA ForkStep ==
  ASSUME IrqInv, NEW child \in Tasks, sys_fork(child)
  PROVE  IrqInv'
<1> DEFINE s == stack[running]
           r == [Top.regs EXCEPT !.eax = Pid]
           m == [s EXCEPT ![1] = Frame("call", "done", TRUE, r)]
<1>1. /\ s # <<>> /\ Top.kind = "call" /\ child \notin alive
      /\ stack' = SetFrame(Top.flag, r) /\ alive' = alive \union {child}
      /\ tss' = [tss EXCEPT ![child] = [flag |-> SyscallFrame.flag,
                                        regs |-> ChildRegs(SyscallFrame.regs)]]
      /\ user' = [user EXCEPT ![child] = [user[running] EXCEPT !.eax = Zero],
                              ![running].eax = Pid]
      /\ UNCHANGED <<stage, running, flag, regs, controller>>
  BY DEF sys_fork, TopIs
<1>2. r \in Registers
  BY <1>1, CallLemma, RunningLemma, RegistersLemma
<1>3. /\ m \in Seq(Frames) /\ StackOK(running, m) /\ FlagAbove(running, m, Len(m)) = flag
      /\ \A q : Popped(m, q) = [r EXCEPT !.esp = @ + SYSCALL_PARAM_COUNT]
      /\ \A q : Popped(s, q) = [Top.regs EXCEPT !.esp = @ + SYSCALL_PARAM_COUNT]
      /\ SetFrame(TRUE, r) = [stack EXCEPT ![running] = m]
      /\ Top = SyscallFrame /\ Top.flag = TRUE /\ Top.regs \in Registers /\ running \in Tasks
  BY <1>1, <1>2, CallLemma
<1>4. /\ running # Boot /\ stage = "done" /\ running \in alive /\ running # child
      /\ running \in Processes
  BY <1>1, <1>3, RunningLemma DEF IrqInv, StageOK, IrqTypeOK
<1>5. stack[child] = <<>> /\ child # Boot /\ child \in Processes
  BY <1>1, RunningLemma DEF IrqInv, UnbornOK, Processes
<1> DEFINE c == [flag |-> TRUE, regs |-> ChildRegs(Top.regs)]
<1>6. /\ c \in Contexts /\ c.flag = TRUE
      /\ c.regs = [[Top.regs EXCEPT !.esp = @ + SYSCALL_PARAM_COUNT] EXCEPT !.eax = Zero]
  <2>1. Top.regs \in Registers
    BY <1>3
  <2>. QED BY <2>1, ChildLemma DEF Contexts
<1>7. /\ tss' = [tss EXCEPT ![child] = c] /\ stack' = [stack EXCEPT ![running] = m]
      /\ tss \in [Processes -> Contexts]
  BY <1>1, <1>3 DEF IrqInv, IrqTypeOK
<1> HIDE DEF m, c
<1>8. /\ tss'[child] = c /\ \A p \in Processes \ {child} : tss'[p] = tss[p]
      /\ stack'[running] = m /\ \A p \in Processes \ {running} : stack'[p] = stack[p]
      /\ tss' \in [Processes -> Contexts] /\ stack' \in [Processes -> Seq(Frames)]
  BY <1>3, <1>4, <1>5, <1>6, <1>7, RunningLemma
<1>9. /\ user[running] = [Top.regs EXCEPT !.esp = @ + SYSCALL_PARAM_COUNT]
      /\ user[running] \in Registers
  BY <1>3, RunningLemma
<1>10. /\ user'[child] = c.regs
       /\ user'[running] = Popped(m, regs)
       /\ \A t \in Tasks \ {child, running} : user'[t] = user[t]
       /\ user' \in [Tasks -> Registers]
  <2>1. /\ user'[child] = [user[running] EXCEPT !.eax = Zero]
        /\ user'[running] = [user[running] EXCEPT !.eax = Pid]
        /\ \A t \in Tasks \ {child, running} : user'[t] = user[t]
    BY <1>1, <1>3, <1>4, RunningLemma
  <2>2. [user[running] EXCEPT !.eax = Pid] = [r EXCEPT !.esp = @ + SYSCALL_PARAM_COUNT]
    BY <1>3, <1>9 DEF Registers
  <2>3. user' \in [Tasks -> Registers]
    <3>1. [user[running] EXCEPT !.eax = Zero] \in Registers /\ [user[running] EXCEPT !.eax = Pid] \in Registers
      BY <1>9, RegistersLemma
    <3>. QED BY <1>1, <1>3, <1>4, <3>1, RunningLemma
  <2>. QED BY <1>3, <1>6, <1>9, <2>1, <2>2, <2>3
<1>11. IrqTypeOK'
  BY <1>1, <1>8, <1>10 DEF IrqInv, IrqTypeOK, controller
<1>12. StageOK'
  BY <1>1, <1>4 DEF IrqInv, StageOK
<1>13. UnbornOK'
  BY <1>1, <1>4, <1>8 DEF IrqInv, UnbornOK, Processes
<1>14. FlagsOK'
  <2>1. flag' = FlagAbove(running, m, Len(m))
    BY <1>1, <1>3
  <2>2. FlagAbove(child, <<>>, Len(<<>>)) = TRUE
    BY <1>5 DEF FlagAbove
  <2>3. ASSUME NEW p \in Processes \ {Boot, running}
        PROVE  tss'[p].flag = FlagAbove(p, stack'[p], Len(stack'[p]))
    <3>1. CASE p = child
      BY <1>4, <1>5, <1>6, <1>8, <2>2, <3>1
    <3>2. CASE p # child
      BY <1>8, <3>2 DEF IrqInv, FlagsOK
    <3>. QED BY <3>1, <3>2
  <2>. QED BY <1>1, <1>8, <2>1, <2>3 DEF FlagsOK
<1>15. UsersOK'
  <2>1. ASSUME NEW t \in Tasks
        PROVE  user'[t] = Restored(t)'
    <3>1. CASE t = child
      BY <1>1, <1>4, <1>5, <1>8, <1>10, <3>1 DEF Restored, Popped
    <3>2. CASE t = running
      BY <1>1, <1>8, <1>10, <3>2 DEF Restored
    <3>3. CASE t \notin {child, running}
      BY <1>1, <1>8, <1>10, <3>3 DEF IrqInv, UsersOK, Restored, Processes
    <3>. QED BY <3>1, <3>2, <3>3
  <2>. QED BY <2>1 DEF UsersOK
<1>16. StacksOK'
  BY <1>1, <1>3, <1>8 DEF IrqInv, StacksOK
<1>. QED BY <1>11, <1>12, <1>13, <1>14, <1>15, <1>16 DEF IrqInv

\* A program calls the kernel: the gate leaves interrupts enabled.
LEMMA SysCallStep == IrqInv /\ sys_call => IrqInv'
<1> SUFFICES ASSUME IrqInv, sys_call PROVE IrqInv'
  OBVIOUS
<1> DEFINE f == Frame("call", "handler", flag, [regs EXCEPT !.esp = @ - SYSCALL_PARAM_COUNT])
<1>1. /\ running \in Tasks /\ running \in Processes /\ running # Boot /\ stack[running] = <<>>
      /\ stack' = [stack EXCEPT ![running] = <<f>>] /\ regs' = InKernel
      /\ UNCHANGED <<stage, running, flag, tss, alive, controller, user>>
  BY RunningLemma DEF sys_call, InUserMode, Push
<1>2. flag = TRUE
  BY <1>1, RunningLemma DEF FlagAbove
<1>3. /\ [regs EXCEPT !.esp = @ - SYSCALL_PARAM_COUNT] \in Registers
      /\ [[regs EXCEPT !.esp = @ - SYSCALL_PARAM_COUNT] EXCEPT !.esp = @ + SYSCALL_PARAM_COUNT] = regs
  BY RunningLemma, RegistersLemma
<1>4. /\ f \in Frames /\ f.kind = "call" /\ f.flag = TRUE
      /\ [f.regs EXCEPT !.esp = @ + SYSCALL_PARAM_COUNT] = regs
  BY <1>2, <1>3 DEF Frame, Frames
<1> HIDE DEF f
<1>5. /\ <<f>> \in Seq(Frames) /\ StackOK(running, <<f>>)
      /\ FlagAbove(running, <<f>>, Len(<<f>>)) = TRUE
  <2> DEFINE a == <<f>>
  <2>1. a \in Seq(Frames) /\ Len(a) = 1 /\ a[1] = f
    BY <1>4
  <2> HIDE DEF a
  <2>2. FlagAbove(running, a, 0) = TRUE /\ FlagAbove(running, a, 1) = TRUE
    BY <1>1, <1>4, <2>1 DEF FlagAbove
  <2>3. ASSUME NEW i \in 1 .. Len(a)
        PROVE  /\ a[i].flag = FlagAbove(running, a, i - 1)
               /\ a[i].kind = "timer" => a[i].flag
               /\ a[i].kind = "call" => i = 1 /\ running \in Tasks
               /\ a[i].kind = "section" => i # 1 \/ running = Boot
               /\ running = Boot => a[i].kind = "section" /\ a[i].at = "dispatched"
    <3>1. i = 1 /\ i - 1 = 0
      BY <2>1
    <3>. QED BY <1>1, <1>4, <2>1, <2>2, <3>1
  <2>4. StackOK(running, a)
    BY <2>3 DEF StackOK
  <2>. QED BY <2>1, <2>2, <2>4 DEF a
<1>6. Popped(<<f>>, regs') = regs /\ user[running] = regs
  BY <1>1, <1>4, RunningLemma DEF Popped
<1>. QED BY <1>1, <1>2, <1>5, <1>6, RunningLemma, LocalStep DEF controller

\* The return of a call.
LEMMA ReturnStep == IrqInv /\ syscall_return => IrqInv'
<1> SUFFICES ASSUME IrqInv, syscall_return PROVE IrqInv'
  OBVIOUS
<1> DEFINE s == stack[running]
<1>1. s # <<>> /\ Top.kind = "call" /\ stack' = [stack EXCEPT ![running] = Front(s)]
  BY RunningLemma DEF syscall_return, TopIs, Pop
<1>2. /\ Front(s) \in Seq(Frames) /\ StackOK(running, Front(s))
      /\ FlagAbove(running, Front(s), Len(Front(s))) = Top.flag
  BY <1>1, RunningLemma, PopLemma DEF Top
<1>3. /\ Len(s) = 1 /\ Top.regs \in Registers
      /\ Popped(s, regs) = [Top.regs EXCEPT !.esp = @ + SYSCALL_PARAM_COUNT]
  BY <1>1, RunningLemma, CallLemma
<1>4. Front(s) = <<>>
  BY <1>3 DEF Front
<1>5. regs' = [Top.regs EXCEPT !.esp = @ + SYSCALL_PARAM_COUNT] /\ regs' \in Registers
  BY <1>3, RegistersLemma DEF syscall_return
<1>6. running \in Tasks => user[running] = Popped(Front(s), regs')
  BY <1>3, <1>4, <1>5, RunningLemma DEF Popped
<1>. QED BY <1>1, <1>2, <1>5, <1>6, RunningLemma, LocalStep DEF syscall_return, controller

\* User code.
LEMMA ComputeStep ==
  ASSUME IrqInv, NEW site \in Sites, compute(site)
  PROVE  IrqInv'
<1>1. /\ running \in Tasks /\ stack[running] = <<>>
      /\ regs' = [regs EXCEPT !.eip = site, !.eax = Junk]
      /\ user' = [user EXCEPT ![running] = regs']
  BY DEF compute, InUserMode
<1>2. regs' \in Registers
  <2>1. regs' = [eip |-> site, esp |-> regs.esp, eax |-> Junk]
    BY <1>1, RunningLemma DEF Registers
  <2>2. Junk \in Failed .. Junk
    BY DEF Failed, Junk
  <2>. QED BY <2>1, <2>2, RunningLemma DEF Registers
<1>3. /\ user' \in [Tasks -> Registers] /\ \A t \in Tasks \ {running} : user'[t] = user[t]
      /\ user'[running] = Popped(stack[running], regs')
  BY <1>1, <1>2, RunningLemma DEF Popped
<1>4. stack' = [stack EXCEPT ![running] = stack[running]]
  BY RunningLemma DEF compute
<1>. QED BY <1>2, <1>3, <1>4, RunningLemma, LocalStep DEF compute, controller

\* The timer's counter, and the controller's registers at boot.
LEMMA TickStep == IrqInv /\ tick => IrqInv'
<1> SUFFICES ASSUME IrqInv, tick PROVE IrqInv'
  OBVIOUS
<1>1. stack' = [stack EXCEPT ![running] = stack[running]]
  BY RunningLemma DEF tick
<1>. QED BY <1>1, RunningLemma, LocalStep DEF tick

-----------------------------------------------------------------------------
(* Boot and task switches *)

\* The controller's masks.
LEMMA MaskSteps == IrqInv /\ (irq_init \/ time_init) => IrqInv'
<1> SUFFICES ASSUME IrqInv, irq_init \/ time_init PROVE IrqInv'
  OBVIOUS
<1>1. /\ stage \in {"irq_init", "time_init"} /\ stage' \in {"time_init", "task_manager_init"}
      /\ masked' \in BOOLEAN /\ irr' \in BOOLEAN
      /\ UNCHANGED <<running, flag, regs, tss, stack, alive, isr, user>>
  BY DEF irq_init, time_init, IrqInv, IrqTypeOK
<1>2. IrqTypeOK' /\ StageOK'
  BY <1>1 DEF IrqInv, IrqTypeOK, StageOK
<1>3. UnbornOK' /\ FlagsOK' /\ StacksOK'
  BY <1>1 DEF IrqInv, UnbornOK, FlagsOK, StacksOK
<1>4. UsersOK'
  BY <1>1 DEF IrqInv, UsersOK, Restored
<1>. QED BY <1>2, <1>3, <1>4 DEF IrqInv

\* The first two tasks are created.
LEMMA ManagerStep == IrqInv /\ task_manager_init => IrqInv'
<1> SUFFICES ASSUME IrqInv, task_manager_init PROVE IrqInv'
  OBVIOUS
<1> DEFINE f == Frame("section", "dispatched", flag, InKernel)
           a == <<f>>
<1>1. /\ stage = "task_manager_init" /\ stage' = "move_to_first_task" /\ flag' = FALSE
      /\ alive' = {Idle, FirstTask} /\ stack' = [stack EXCEPT ![running] = a]
      /\ UNCHANGED <<running, regs, tss, controller, user>>
  BY DEF task_manager_init, Push
<1>2. running = Boot /\ running \in Processes /\ \A t \in Tasks : stack[t] = <<>>
  BY <1>1, RunningLemma DEF IrqInv, StageOK
<1>3. flag = FALSE
  BY <1>2, RunningLemma DEF FlagAbove
<1>4. /\ f \in Frames /\ f.kind = "section" /\ f.at = "dispatched" /\ f.flag = FALSE
  BY <1>3, RunningLemma DEF Frame, Frames
<1>5. a \in Seq(Frames) /\ Len(a) = 1 /\ a[1] = f
  BY <1>4
<1> HIDE DEF a, f
<1>6. \A n : FlagAbove(running, a, n) = FALSE
  BY <1>2 DEF FlagAbove
<1>7. StackOK(running, a)
  <2>1. \A i \in 1 .. Len(a) : i = 1
    BY <1>5
  <2>. QED BY <1>2, <1>4, <1>5, <1>6, <2>1 DEF StackOK
<1>8. /\ stack'[running] = a /\ \A p \in Processes \ {running} : stack'[p] = stack[p]
      /\ stack' \in [Processes -> Seq(Frames)]
  BY <1>1, <1>2, <1>5, RunningLemma
<1>9. IrqTypeOK'
  BY <1>1, <1>8, IrqAssumption DEF IrqInv, IrqTypeOK, controller
<1>10. \A t \in Tasks : t \in Processes \ {running}
  BY <1>2, IrqAssumption DEF Processes
<1>11. StageOK' /\ UnbornOK'
  BY <1>1, <1>2, <1>8, <1>10 DEF StageOK, UnbornOK
<1>12. FlagsOK'
  BY <1>1, <1>2, <1>6, <1>8 DEF IrqInv, FlagsOK
<1>13. UsersOK'
  BY <1>1, <1>8, <1>10 DEF IrqInv, UsersOK, Restored
<1>14. StacksOK'
  BY <1>1, <1>7, <1>8 DEF IrqInv, StacksOK
<1>. QED BY <1>9, <1>11, <1>12, <1>13, <1>14 DEF IrqInv

\* The first task starts.
LEMMA FirstStep == IrqInv /\ move_to_first_task => IrqInv'
<1> SUFFICES ASSUME IrqInv, move_to_first_task PROVE IrqInv'
  OBVIOUS
<1>1. /\ stage = "move_to_first_task" /\ stage' = "done" /\ running' = FirstTask
      /\ flag' = tss[FirstTask].flag
      /\ regs' = [tss[FirstTask].regs EXCEPT !.eax = regs.eax]
      /\ user' = [user EXCEPT ![FirstTask].eax = regs.eax]
      /\ UNCHANGED <<tss, stack, alive, controller>>
  BY DEF move_to_first_task
<1>2. /\ running = Boot /\ FirstTask \in alive /\ FirstTask \in Tasks /\ FirstTask # Boot
      /\ FirstTask \in Processes /\ Boot \notin Tasks /\ \A t \in Tasks : stack[t] = <<>>
  BY <1>1, IrqAssumption DEF IrqInv, StageOK, Processes
<1>3. /\ tss \in [Processes -> Contexts] /\ tss[FirstTask].flag \in BOOLEAN
      /\ tss[FirstTask].regs \in Registers
  BY <1>2 DEF IrqInv, IrqTypeOK, Contexts
<1>4. regs' \in Registers
  BY <1>1, <1>3, RunningLemma DEF Registers
<1>5. user[FirstTask] = tss[FirstTask].regs
  BY <1>2 DEF IrqInv, UsersOK, Restored, Popped
<1>6. /\ user'[FirstTask] = regs' /\ user' \in [Tasks -> Registers]
      /\ \A t \in Tasks \ {FirstTask} : user'[t] = user[t]
  <2>1. user'[FirstTask] = [user[FirstTask] EXCEPT !.eax = regs.eax]
    BY <1>1, <1>2, RunningLemma
  <2>2. user' = [user EXCEPT ![FirstTask] = regs']
    BY <1>1, <1>5
  <2>. QED BY <1>2, <1>4, <2>2, RunningLemma
<1>7. IrqTypeOK'
  BY <1>1, <1>2, <1>3, <1>4, <1>6 DEF IrqInv, IrqTypeOK, controller
<1>8. StageOK' /\ UnbornOK'
  BY <1>1, <1>2 DEF IrqInv, StageOK, UnbornOK
<1>9. FlagsOK'
  BY <1>1, <1>2 DEF IrqInv, FlagsOK
<1>10. UsersOK'
  <2>1. ASSUME NEW t \in Tasks
        PROVE  user'[t] = Restored(t)'
    <3>1. CASE t = FirstTask
      BY <1>1, <1>2, <1>6, <3>1 DEF Restored, Popped
    <3>2. CASE t # FirstTask
      BY <1>1, <1>2, <1>6, <3>2 DEF IrqInv, UsersOK, Restored
    <3>. QED BY <3>1, <3>2
  <2>. QED BY <2>1 DEF UsersOK
<1>11. StacksOK'
  BY <1>1 DEF IrqInv, StacksOK
<1>. QED BY <1>7, <1>8, <1>9, <1>10, <1>11 DEF IrqInv

\* A switch: what a task finds later is what its TSS holds now.
LEMMA DispatchStep ==
  ASSUME IrqInv, NEW to \in Processes, task_dispatch(to)
  PROVE  IrqInv'
<1> DEFINE m == Mark("dispatched")
           c == [flag |-> flag, regs |-> regs]
<1>1. /\ stack[running] # <<>> /\ Top.at # "dispatched" /\ Top.kind = "section"
      /\ to \in alive /\ to # running
      /\ stack' = [stack EXCEPT ![running] = m] /\ tss' = [tss EXCEPT ![running] = c]
      /\ running' = to /\ flag' = tss[to].flag /\ regs' = tss[to].regs
      /\ UNCHANGED <<stage, alive, controller, user>>
  BY DEF task_dispatch, TopIs
<1>2. /\ m \in Seq(Frames) /\ m # <<>> /\ StackOK(running, m)
      /\ FlagAbove(running, m, Len(m)) = flag
      /\ \A r : Popped(m, r) = Popped(stack[running], r)
  BY <1>1, MarkLemma
<1>3. running # Boot /\ stage = "done" /\ running \in Processes /\ running \in alive
  BY <1>1, RunningLemma DEF StackOK, IrqInv, StageOK
<1>4. /\ tss \in [Processes -> Contexts] /\ c \in Contexts /\ to # Boot
      /\ c.flag = flag /\ c.regs = regs
      /\ tss[to].flag \in BOOLEAN /\ tss[to].regs \in Registers
  BY <1>1, IrqAssumption DEF IrqInv, IrqTypeOK, Contexts
<1> HIDE DEF m, c
<1>5. /\ tss'[running] = c /\ \A p \in Processes \ {running} : tss'[p] = tss[p]
      /\ stack'[running] = m /\ \A p \in Processes \ {running} : stack'[p] = stack[p]
      /\ tss' \in [Processes -> Contexts] /\ stack' \in [Processes -> Seq(Frames)]
  BY <1>1, <1>2, <1>3, <1>4, RunningLemma
<1>6. IrqTypeOK'
  BY <1>1, <1>4, <1>5 DEF IrqInv, IrqTypeOK, controller
<1>7. StageOK'
  BY <1>1, <1>3 DEF IrqInv, StageOK
<1>8. UnbornOK'
  BY <1>1, <1>3, <1>5 DEF IrqInv, UnbornOK, Processes
<1>9. FlagsOK'
  <2>1. flag' = FlagAbove(to, stack'[to], Len(stack'[to]))
    BY <1>1, <1>4, <1>5 DEF IrqInv, FlagsOK
  <2>2. ASSUME NEW p \in Processes \ {Boot, to}
        PROVE  tss'[p].flag = FlagAbove(p, stack'[p], Len(stack'[p]))
    <3>1. CASE p = running
      BY <1>2, <1>4, <1>5, <3>1
    <3>2. CASE p # running
      BY <1>5, <3>2 DEF IrqInv, FlagsOK
    <3>. QED BY <3>1, <3>2
  <2>. QED BY <1>1, <2>1, <2>2 DEF FlagsOK
<1>10. UsersOK'
  <2>1. ASSUME NEW t \in Tasks
        PROVE  user'[t] = Restored(t)'
    <3>1. CASE t = running
      <4>1. user[t] = Popped(stack[running], regs)
        BY <3>1, RunningLemma
      <4>2. Restored(t)' = Popped(m, c.regs)
        BY <1>1, <1>5, <3>1 DEF Restored
      <4>. QED BY <1>1, <1>2, <1>4, <4>1, <4>2
    <3>2. CASE t = to
      <4>1. user[t] = Popped(stack[to], tss[to].regs)
        BY <1>1, <3>2 DEF IrqInv, UsersOK, Restored
      <4>2. Restored(t)' = Popped(stack[to], tss[to].regs)
        BY <1>1, <1>5, <3>2 DEF Restored
      <4>. QED BY <1>1, <4>1, <4>2
    <3>3. CASE t \notin {running, to}
      BY <1>1, <1>5, <3>3 DEF IrqInv, UsersOK, Restored, Processes
    <3>. QED BY <3>1, <3>2, <3>3
  <2>. QED BY <2>1 DEF UsersOK
<1>11. StacksOK'
  BY <1>2, <1>5 DEF IrqInv, StacksOK
<1>. QED BY <1>6, <1>7, <1>8, <1>9, <1>10, <1>11 DEF IrqInv

-----------------------------------------------------------------------------
(* Theorems *)

LEMMA InitLemma == IrqInit => IrqInv
<1> SUFFICES ASSUME IrqInit PROVE IrqInv
  OBVIOUS
<1>1. Start \in Registers /\ InKernel \in Registers
  BY DEF Start, InKernel, Registers, UserTop, KernelTop, Zero, Junk, Failed
<1>2. NewContext(Start) \in Contexts /\ NewContext(Start).flag = TRUE /\ NewContext(Start).regs = Start
  BY <1>1 DEF NewContext, Contexts
<1>3. /\ \A p \in Processes : stack[p] = <<>> /\ tss[p] = NewContext(Start)
      /\ <<>> \in Seq(Frames) /\ Boot \in Processes /\ Boot \notin Tasks
      /\ \A t \in Tasks : t \in Processes /\ t # Boot
      /\ Len(<<>>) = 0
  BY IrqAssumption DEF IrqInit, Processes
<1>4. IrqTypeOK /\ StageOK /\ UnbornOK
  BY <1>1, <1>2, <1>3 DEF IrqInit, IrqTypeOK, StageOK, UnbornOK
<1>5. FlagsOK
  <2>1. FlagAbove(Boot, <<>>, 0) = FALSE /\ \A p \in Processes \ {Boot} : FlagAbove(p, <<>>, 0) = TRUE
    BY DEF FlagAbove
  <2>. QED BY <1>2, <1>3, <2>1 DEF FlagsOK, IrqInit
<1>6. UsersOK
  BY <1>2, <1>3 DEF UsersOK, Restored, Popped, IrqInit
<1>7. StacksOK
  BY <1>3 DEF StacksOK, StackOK
<1>. QED BY <1>4, <1>5, <1>6, <1>7 DEF IrqInv

LEMMA StepLemma == IrqInv /\ [IrqNext]_vars => IrqInv'
<1> SUFFICES ASSUME IrqInv, [IrqNext]_vars PROVE IrqInv'
  OBVIOUS
<1>1. CASE boot
  BY <1>1, MaskSteps, ManagerStep, FirstStep DEF boot
<1>2. CASE protected
  BY <1>2, DispatchStep, LeaveStep DEF protected
<1>3. CASE handler
  BY <1>3, EnterStep, TimerHandlerStep, IretStep DEF handler
<1>4. CASE syscalls
  BY <1>4, SysCallStep, UnknownStep, ExecveStep, ReturnStep, HandlerStep, ForkStep DEF syscalls
<1>5. CASE tick \/ exception_handler_timer \/ exception
  BY <1>5, TickStep, TimerStep, ExceptionStep
<1>6. CASE \E site \in Sites : compute(site)
  BY <1>6, ComputeStep
<1>7. CASE UNCHANGED vars
  <2>1. UNCHANGED <<stage, running, flag, regs, tss, stack, alive, masked, irr, isr, user>>
    BY <1>7 DEF vars
  <2>2. IrqTypeOK' /\ StageOK' /\ UnbornOK'
    BY <2>1 DEF IrqInv, IrqTypeOK, StageOK, UnbornOK
  <2>3. FlagsOK' /\ UsersOK' /\ StacksOK'
    BY <2>1 DEF IrqInv, FlagsOK, UsersOK, Restored, StacksOK
  <2>. QED BY <2>2, <2>3 DEF IrqInv
<1>. QED BY <1>1, <1>2, <1>3, <1>4, <1>5, <1>6, <1>7 DEF IrqNext

\* The inductive invariant: every process's stack of frames is as entry and exit of the
\* kernel leave it, whatever is interrupted, switched or forked in between.
THEOREM IrqInvariant == IrqSpec => []IrqInv
<1>1. IrqInit => IrqInv
  BY InitLemma
<1>2. IrqInv /\ [IrqNext]_vars => IrqInv'
  BY StepLemma
<1>. QED BY <1>1, <1>2, PTL DEF IrqSpec

\* Type correctness of the contexts, the frames and the controller's bits.
THEOREM IrqTypes == IrqSpec => []IrqTypeOK
<1>1. IrqInv => IrqTypeOK
  BY DEF IrqInv
<1>. QED BY <1>1, IrqInvariant, PTL

\* No section, handler or switch leaves the interrupt flag of other code changed
\* (irq_enter_protection, irq_leave_protection and the TSS switch).
THEOREM FlagsAreKept == IrqSpec => []FlagsKept
<1>1. IrqInv => FlagsKept
  <2> SUFFICES ASSUME IrqInv PROVE FlagsKept
    OBVIOUS
  <2>1. /\ flag = FlagAbove(running, stack[running], Len(stack[running]))
        /\ \A p \in Processes \ {Boot, running} : tss[p].flag = FlagAbove(p, stack[p], Len(stack[p]))
    BY DEF IrqInv, FlagsOK
  <2>2. ASSUME NEW p \in Processes, NEW i \in DOMAIN stack[p]
        PROVE  stack[p][i].flag = FlagAbove(p, stack[p], i - 1)
    <3>1. i \in 1 .. Len(stack[p]) /\ StackOK(p, stack[p])
      BY DEF IrqInv, IrqTypeOK, StacksOK
    <3>. QED BY <3>1 DEF StackOK
  <2>. QED BY <2>1, <2>2 DEF FlagsKept
<1>. QED BY <1>1, IrqInvariant, PTL

\* The timer interrupts user programs, idle and unprotected system call code only: the
\* kernel's sections, its handlers and its boot code are atomic.
THEOREM NothingIsInterrupted == IrqSpec => []NeverInterrupted
<1>1. IrqInv => NeverInterrupted
  <2> SUFFICES ASSUME IrqInv, NEW p \in Processes, NEW i \in DOMAIN stack[p],
                      stack[p][i].kind = "timer"
               PROVE  p # Boot /\ (i = 1 \/ stack[p][i - 1].kind = "call")
    BY DEF NeverInterrupted
  <2>1. i \in 1 .. Len(stack[p]) /\ StackOK(p, stack[p])
    BY DEF IrqInv, IrqTypeOK, StacksOK
  <2>2. FlagAbove(p, stack[p], i - 1)
    BY <2>1 DEF StackOK
  <2>. QED BY <2>1, <2>2 DEF FlagAbove
<1>. QED BY <1>1, IrqInvariant, PTL

\* A user program goes on with its own registers and the results of its calls.
THEOREM ContextsAreKept == IrqSpec => []ContextKept
<1>1. IrqInv => ContextKept
  BY DEF IrqInv, UsersOK, Restored, Popped, ContextKept
<1>. QED BY <1>1, IrqInvariant, PTL

=============================================================================

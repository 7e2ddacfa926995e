-------------------------------- MODULE Irq ---------------------------------
(***************************************************************************)
(* Entry to and exit from the kernel: the call gate, the timer's interrupt *)
(* gate, exceptions, protected sections and task switches, as far as they  *)
(* touch the interrupt flag, the saved registers and the interrupt         *)
(* controller (cpu/irq.c, dev/time.c, init/start.S, init/init.c,           *)
(* core/syscall.c, and the contexts task.c writes).                        *)
(*                                                                         *)
(* Every process has a kernel stack of frames, one per entry it has not    *)
(* yet left: "call", "timer", "fault", and "section" for the local         *)
(* variable a function keeps the flags in.  With an empty stack a process  *)
(* runs its own code: the user program of a task, the loop of idle, the    *)
(* boot code.  Which task a dispatch chooses is Task's matter.             *)
(***************************************************************************)
EXTENDS Integers, SequencesExt

CONSTANTS
  Tasks,      \* the task_t of user programs
  FirstTask,  \* &task_manager.first_task
  Idle,       \* &task_manager.idle_task
  Boot,       \* the code from _start to move_to_first_task
  Sites       \* places of a user program

ASSUME IrqAssumption == FirstTask \in Tasks /\ Idle \notin Tasks /\ Boot \notin Tasks \union {Idle}

Processes == Tasks \union {Idle, Boot}

VARIABLES
  stage,    \* how far boot has come
  running,  \* the process on the CPU
  flag,     \* the interrupt flag of the CPU
  regs,     \* the CPU's registers: eip, esp, eax
  tss,      \* the context in a task's TSS
  stack,    \* the frames on a process's kernel stack
  alive,    \* the tasks that may be dispatched
  masked,   \* the timer's bit in the controller's mask register
  irr,      \* the controller has seen a tick and not delivered it
  isr,      \* a tick was delivered and no EOI has come
  user      \* history: the registers a user program must find

vars == <<stage, running, flag, regs, tss, stack, alive, masked, irr, isr, user>>
controller == <<masked, irr, isr>>

SYSCALL_PARAM_COUNT == 5

Failed == -1
Zero == 0
Value == 1
Pid == 2
Junk == 3

\* Stack pointers in words: of a program's start, of execve's stack_top, of the kernel.
UserTop == 40
StackTop == 20
KernelTop == 0

Entry == "entry"

Registers == [eip : Sites \union {Entry, "kernel"}, esp : Int, eax : Failed .. Junk]

InKernel == [eip |-> "kernel", esp |-> KernelTop, eax |-> Junk]

Start == [eip |-> Entry, esp |-> UserTop, eax |-> Zero]

Contexts == [flag : BOOLEAN, regs : Registers]

Frames == [kind : {"call", "timer", "fault", "section"},
           at : {"handler", "done", "taken", "eoi", "ticked", "logged", "entered", "dispatched"},
           flag : BOOLEAN, regs : Registers]

Frame(kind, at, f, r) == [kind |-> kind, at |-> at, flag |-> f, regs |-> r]

\* tss_init: a new task starts with interrupts enabled.
NewContext(r) == [flag |-> TRUE, regs |-> r]

IrqInit ==
  /\ stage = "irq_init"
  /\ running = Boot /\ flag = FALSE /\ regs = InKernel
  /\ tss = [p \in Processes |-> NewContext(Start)]
  /\ stack = [p \in Processes |-> <<>>]
  /\ alive = {}
  /\ masked = FALSE /\ irr = FALSE /\ isr = FALSE
  /\ user = [t \in Tasks |-> Start]

Top == Last(stack[running])

TopIs(kind, at) == stack[running] # <<>> /\ Top.kind = kind /\ Top.at = at

InUserMode(p) == p \in Tasks /\ stack[p] = <<>>

Push(s, f) == [stack EXCEPT ![running] = Append(s, f)]

Mark(at) ==
  [stack[running] EXCEPT ![Len(stack[running])] = Frame(Top.kind, at, Top.flag, Top.regs)]

Pop == [stack EXCEPT ![running] = Front(@)]

\* The frame at tss.esp0 - sizeof(syscall_frame_t).
SyscallFrame == stack[running][1]

SetFrame(f, r) == [stack EXCEPT ![running][1] = Frame("call", "done", f, r)]

-----------------------------------------------------------------------------
(* Boot *)

\* All interrupt lines are masked; a tick that was pending is forgotten.
irq_init ==
  /\ stage = "irq_init"
  /\ stage' = "time_init" /\ masked' = TRUE /\ irr' = FALSE
  /\ UNCHANGED <<running, flag, regs, tss, stack, alive, isr, user>>

time_init ==
  /\ stage = "time_init"
  /\ stage' = "task_manager_init" /\ masked' = FALSE
  /\ UNCHANGED <<running, flag, regs, tss, stack, alive, irr, isr, user>>

\* task_manager_init and task_first_init create idle and the first task and queue
\* them in a protected section.
task_manager_init ==
  /\ stage = "task_manager_init"
  /\ stage' = "move_to_first_task"
  /\ alive' = {Idle, FirstTask}
  /\ stack' = Push(<<>>, Frame("section", "dispatched", flag, InKernel))
  /\ flag' = FALSE
  /\ UNCHANGED <<running, regs, tss, controller, user>>

\* iret with the flags, eip and esp of the first task's TSS; eax is what it was.
move_to_first_task ==
  /\ stage = "move_to_first_task" /\ stack[Boot] = <<>>
  /\ stage' = "done"
  /\ running' = FirstTask
  /\ flag' = tss[FirstTask].flag
  /\ regs' = [tss[FirstTask].regs EXCEPT !.eax = regs.eax]
  /\ user' = [user EXCEPT ![FirstTask].eax = regs.eax]
  /\ UNCHANGED <<tss, stack, alive, controller>>

-----------------------------------------------------------------------------
(* Protected sections and the dispatcher *)

\* What the code that calls a protected section goes on to.
AfterSection == [call |-> "handler", timer |-> "ticked", fault |-> "logged"]

\* A system call protects any number of sections, the timer the one of
\* task_time_tick, an exception handler those of the log's mutex.
MayProtect == TopIs("call", "handler") \/ TopIs("timer", "eoi") \/ TopIs("fault", "taken")

\* Mutant: the flags are read, but interrupts stay as they are.
Bad_irq_enter_protection ==
  /\ MayProtect
  /\ stack' = Push(Mark(AfterSection[Top.kind]), Frame("section", "entered", flag, InKernel))
  /\ UNCHANGED <<stage, running, flag, regs, tss, alive, controller, user>>

irq_enter_protection ==
  /\ MayProtect
  /\ stack' = Push(Mark(AfterSection[Top.kind]), Frame("section", "entered", flag, InKernel))
  /\ flag' = FALSE
  /\ UNCHANGED <<stage, running, regs, tss, alive, controller, user>>

\* task_dispatch and switch_to_tss: a far jump to a TSS saves and loads registers
\* and flags.  A section dispatches at most once.
task_dispatch(to) ==
  /\ TopIs("section", "entered")
  /\ to \in alive \ {running}
  /\ stack' = [stack EXCEPT ![running] = Mark("dispatched")]
  /\ tss' = [tss EXCEPT ![running] = [flag |-> flag, regs |-> regs]]
  /\ running' = to /\ flag' = tss[to].flag /\ regs' = tss[to].regs
  /\ UNCHANGED <<stage, alive, controller, user>>

\* Mutant: the end of a section always enables interrupts.
Bad_irq_leave_protection ==
  /\ TopIs("section", "entered") \/ TopIs("section", "dispatched")
  /\ flag' = TRUE
  /\ stack' = Pop
  /\ UNCHANGED <<stage, running, regs, tss, alive, controller, user>>

irq_leave_protection ==
  /\ TopIs("section", "entered") \/ TopIs("section", "dispatched")
  /\ flag' = Top.flag
  /\ stack' = Pop
  /\ UNCHANGED <<stage, running, regs, tss, alive, controller, user>>

-----------------------------------------------------------------------------
(* The timer and exceptions *)

\* The 8253 ticks whatever the CPU does.
tick ==
  /\ ~irr /\ irr' = TRUE
  /\ UNCHANGED <<stage, running, flag, regs, tss, stack, alive, masked, isr, user>>

\* The controller interrupts the CPU, between any two instructions; the gate
\* clears IF and the stub saves the registers.
exception_handler_timer ==
  /\ irr /\ ~isr /\ ~masked /\ flag
  /\ irr' = FALSE /\ isr' = TRUE
  /\ stack' = Push(stack[running], Frame("timer", "taken", flag, regs))
  /\ flag' = FALSE /\ regs' = InKernel
  /\ UNCHANGED <<stage, running, tss, alive, masked, user>>

\* Mutant: the end of interrupt is signalled when the tick has been handled.
Bad_do_handler_timer ==
  \/ /\ TopIs("timer", "taken") /\ isr' = isr
     /\ stack' = [stack EXCEPT ![running] = Mark("eoi")]
     /\ UNCHANGED <<stage, running, flag, regs, tss, alive, masked, irr, user>>
  \/ /\ TopIs("timer", "ticked") /\ isr /\ isr' = FALSE
     /\ UNCHANGED <<stage, running, flag, regs, tss, stack, alive, masked, irr, user>>

\* do_handler_timer up to task_time_tick: the end of interrupt.
do_handler_timer ==
  /\ TopIs("timer", "taken")
  /\ isr' = FALSE
  /\ stack' = [stack EXCEPT ![running] = Mark("eoi")]
  /\ UNCHANGED <<stage, running, flag, regs, tss, alive, masked, irr, user>>

iret ==
  /\ TopIs("timer", "ticked")
  /\ flag' = Top.flag /\ regs' = Top.regs
  /\ stack' = Pop
  /\ UNCHANGED <<stage, running, tss, alive, controller, user>>

\* An exception of a user program, or of a system call that uses its pointers.  The
\* handler logs, and halts with interrupts disabled: a "logged" frame is never left.
exception ==
  /\ InUserMode(running) \/ TopIs("call", "handler")
  /\ stack' = Push(stack[running], Frame("fault", "taken", flag, regs))
  /\ flag' = FALSE /\ regs' = InKernel
  /\ UNCHANGED <<stage, running, tss, alive, controller, user>>

Halted == TopIs("fault", "logged")

-----------------------------------------------------------------------------
(* System calls *)

\* User code between two calls.
compute(site) ==
  /\ InUserMode(running)
  /\ regs' = [regs EXCEPT !.eip = site, !.eax = Junk]
  /\ user' = [user EXCEPT ![running] = regs']
  /\ UNCHANGED <<stage, running, flag, tss, stack, alive, controller>>

\* sys_call of the application library pushes the id and four arguments; the gate
\* copies them and leaves IF alone.
sys_call ==
  /\ InUserMode(running)
  /\ stack' = Push(<<>>, Frame("call", "handler", flag,
                               [regs EXCEPT !.esp = @ - SYSCALL_PARAM_COUNT]))
  /\ regs' = InKernel
  /\ UNCHANGED <<stage, running, flag, tss, alive, controller, user>>

\* The frame's eax is set to what the handler returned.
do_handler_syscall(ret) ==
  /\ TopIs("call", "handler")
  /\ stack' = SetFrame(Top.flag, [Top.regs EXCEPT !.eax = ret])
  /\ user' = [user EXCEPT ![running].eax = ret]
  /\ UNCHANGED <<stage, running, flag, regs, tss, alive, controller>>

\* A number without a handler, as that of open: eax stays as it was.
unknown_syscall ==
  /\ TopIs("call", "handler")
  /\ stack' = SetFrame(Top.flag, Top.regs)
  /\ UNCHANGED <<stage, running, flag, regs, tss, alive, controller, user>>

\* Mutant: the child's stack still holds the arguments.
Bad_ChildRegs(r) == [r EXCEPT !.eax = Zero]

\* The child's registers: the frame's, behind the arguments of the call.
ChildRegs(r) == [r EXCEPT !.eax = Zero, !.esp = @ + SYSCALL_PARAM_COUNT]

\* sys_fork, when task_init and memory_copy_uvm succeed: the child's context is the
\* parent's system call frame; the parent's result is the pid.  (A fork that fails
\* is do_handler_syscall(Failed).)
sys_fork(child) ==
  /\ TopIs("call", "handler")
  /\ child \in Tasks \ alive
  /\ alive' = alive \union {child}
  /\ tss' = [tss EXCEPT ![child] = [flag |-> SyscallFrame.flag,
                                    regs |-> ChildRegs(SyscallFrame.regs)]]
  /\ stack' = SetFrame(Top.flag, [Top.regs EXCEPT !.eax = Pid])
  /\ user' = [user EXCEPT ![child] = [user[running] EXCEPT !.eax = Zero],
                          ![running].eax = Pid]
  /\ UNCHANGED <<stage, running, flag, regs, controller>>

\* sys_execve, when everything succeeds: the frame is that of a new program.
sys_execve ==
  /\ TopIs("call", "handler")
  /\ stack' = SetFrame(TRUE, [eip |-> Entry, esp |-> StackTop - SYSCALL_PARAM_COUNT, eax |-> Zero])
  /\ user' = [user EXCEPT ![running] = [eip |-> Entry, esp |-> StackTop, eax |-> Zero]]
  /\ UNCHANGED <<stage, running, flag, regs, tss, alive, controller>>

\* exception_handler_syscall: popf, popa, retf behind the arguments.
syscall_return ==
  /\ TopIs("call", "done")
  /\ flag' = Top.flag
  /\ regs' = [Top.regs EXCEPT !.esp = @ + SYSCALL_PARAM_COUNT]
  /\ stack' = Pop
  /\ UNCHANGED <<stage, running, tss, alive, controller, user>>

-----------------------------------------------------------------------------

boot == irq_init \/ time_init \/ task_manager_init \/ move_to_first_task

protected == (\E p \in Processes : task_dispatch(p)) \/ irq_leave_protection

handler == irq_enter_protection \/ do_handler_timer \/ iret

syscalls ==
  \/ sys_call \/ unknown_syscall \/ sys_execve \/ syscall_return
  \/ \E ret \in {Failed, Value} : do_handler_syscall(ret)
  \/ \E child \in Tasks : sys_fork(child)

IrqNext ==
  \/ boot \/ protected \/ handler \/ syscalls
  \/ tick \/ exception_handler_timer \/ exception
  \/ \E s \in Sites : compute(s)

\* The CPU executes the kernel's code where interrupts are disabled, and takes an
\* interrupt that stays pending.  User programs and system calls may do nothing.
IrqFairness ==
  /\ WF_vars(boot)
  /\ WF_vars(~flag /\ (protected \/ handler))
  /\ SF_vars(exception_handler_timer)

IrqSpec == IrqInit /\ [][IrqNext]_vars /\ IrqFairness

-----------------------------------------------------------------------------
(* Properties *)

\* Type invariant of entry and exit.
IrqTypeOK ==
  /\ stage \in {"irq_init", "time_init", "task_manager_init", "move_to_first_task", "done"}
  /\ running \in Processes /\ flag \in BOOLEAN /\ regs \in Registers
  /\ tss \in [Processes -> Contexts]
  /\ stack \in [Processes -> Seq(Frames)]
  /\ alive \subseteq Tasks \union {Idle}
  /\ masked \in BOOLEAN /\ irr \in BOOLEAN /\ isr \in BOOLEAN
  /\ user \in [Tasks -> Registers]

\* The flag of the code that runs above the first n frames s of p's stack: enabled in
\* user mode, in idle and in a system call, disabled in boot, in handlers and in
\* sections.
FlagAbove(p, s, n) == p # Boot /\ (n = 0 \/ s[n].kind = "call")

\* The interrupt flag of a process, on the CPU or in its TSS, and every flag saved in a
\* frame are those of the code they belong to: a section that dispatches does not leave the next task's
\* interrupts disabled, nor does its end enable those of an interrupted handler or
\* of boot (irq_enter_protection and irq_leave_protection, irq.c; TSS switch, cpu.c).
FlagsKept ==
  /\ flag = FlagAbove(running, stack[running], Len(stack[running]))
  /\ \A p \in Processes \ {Boot, running} : tss[p].flag = FlagAbove(p, stack[p], Len(stack[p]))
  /\ \A p \in Processes : \A i \in DOMAIN stack[p] : stack[p][i].flag = FlagAbove(p, stack[p], i - 1)

\* What is written between irq_enter_protection and irq_leave_protection, in boot and in a
\* handler is atomic: the timer interrupts none of it, not even after a section in the middle of it.
NeverInterrupted ==
  \A p \in Processes : \A i \in DOMAIN stack[p] :
    stack[p][i].kind = "timer" => p # Boot /\ (i = 1 \/ stack[p][i - 1].kind = "call")

\* A user program finds the registers it left, with the results of its calls: after
\* an interrupt, a switch to other tasks and back, a system call, a fork as parent
\* and as child, and after execve (start.S, syscall.c, sys_fork, sys_execve).
ContextKept ==
  \A t \in Tasks : stack[t] = <<>> => user[t] = IF t = running THEN regs ELSE tss[t].regs

\* Every tick is delivered, in whatever task and however many switches later, unless
\* an exception has halted the machine (pic_send_eoi before task_time_tick, time.c).
TickDelivered == irr ~> (~irr \/ Halted)

=============================================================================

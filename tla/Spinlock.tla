------------------------------ MODULE Spinlock ------------------------------
(***************************************************************************)
(* The spin lock of include/spinlock.h.  Nothing in the kernel takes a     *)
(* spin lock yet, so the clients are those the macros are made for: on     *)
(* each CPU a task that enters with spin_lock_irqsave or spin_lock_irq,    *)
(* and an interrupt handler of that CPU, which runs with the flag clear    *)
(* and uses spin_lock and spin_unlock.                                     *)
(*                                                                         *)
(* The lock word is an unsigned 64-bit counter that the code tests as a    *)
(* signed one; LockBounded says how far below 0 it goes.                   *)
(***************************************************************************)
EXTENDS Integers, FiniteSets

CONSTANT CPU

ASSUME CpuAssumption == IsFiniteSet(CPU)

VARIABLES
  lock,     \* 1: free; 0 or less: held
  pc,       \* where each context is
  intr,     \* the interrupt flag of each CPU
  saved     \* flags of spin_lock_irqsave, a local of the task

vars == <<lock, pc, intr, saved>>

Context == CPU \X {"task", "handler"}
Cpu(x) == x[1]
IsTask(x) == x[2] = "task"

Labels == {"out", "lock", "spin", "in", "restore"}

Init ==
  /\ lock = 1
  /\ pc = [x \in Context |-> "out"]
  /\ intr = [c \in CPU |-> TRUE]
  /\ saved = [c \in CPU |-> TRUE]

\* A task goes on only while no handler is on top of it.
Runs(x) == ~IsTask(x) \/ pc[<<Cpu(x), "handler">>] = "out"

Goto(x, label) == pc' = [pc EXCEPT ![x] = label]

-----------------------------------------------------------------------------
\* An interrupt: the gate clears the flag, and the handler takes the lock.
Interrupt(c) ==
  /\ intr[c]
  /\ pc[<<c, "handler">>] = "out"
  /\ intr' = [intr EXCEPT ![c] = FALSE]
  /\ Goto(<<c, "handler">>, "lock")
  /\ UNCHANGED <<lock, saved>>

\* A mutant: local_irq_save without its cli.
SaveOnly(c) ==
  /\ pc[<<c, "task">>] = "out" /\ Runs(<<c, "task">>)
  /\ saved' = [saved EXCEPT ![c] = intr[c]]
  /\ Goto(<<c, "task">>, "lock")
  /\ UNCHANGED <<lock, intr>>

\* local_irq_save: an interrupt between the pushfq and the cli returns with
\* the flag as it was, so the three instructions are one step.  For a caller
\* that has the flag set, spin_lock_irq and spin_unlock_irq do the same.
IrqSave(c) ==
  /\ pc[<<c, "task">>] = "out" /\ Runs(<<c, "task">>)
  /\ saved' = [saved EXCEPT ![c] = intr[c]]
  /\ intr' = [intr EXCEPT ![c] = FALSE]
  /\ Goto(<<c, "task">>, "lock")
  /\ UNCHANGED lock

\* The caller's own cli or sti around its use of the lock.
CallerSets(c, flag) ==
  /\ pc[<<c, "task">>] = "out" /\ Runs(<<c, "task">>)
  /\ intr[c] # flag
  /\ intr' = [intr EXCEPT ![c] = flag]
  /\ UNCHANGED <<lock, pc, saved>>

\* A mutant: the lock is tested before it is decremented, not after.
TestThenLock(x) ==
  /\ pc[x] = "lock" /\ Runs(x)
  /\ lock' = lock - 1
  /\ Goto(x, IF lock >= 0 THEN "in" ELSE "spin")
  /\ UNCHANGED <<intr, saved>>

\* 1: lock decq; jns 3f
Lock(x) ==
  /\ pc[x] = "lock" /\ Runs(x)
  /\ lock' = lock - 1
  /\ Goto(x, IF lock' >= 0 THEN "in" ELSE "spin")
  /\ UNCHANGED <<intr, saved>>

\* A mutant: the waiting loop goes back to the decrement at once.
SpinOnDecrement(x) ==
  /\ pc[x] = "spin" /\ Runs(x)
  /\ Goto(x, "lock")
  /\ UNCHANGED <<lock, intr, saved>>

\* 2: pause; cmpq $0; jle 2b; jmp 1b
Spin(x) ==
  /\ pc[x] = "spin" /\ Runs(x)
  /\ lock > 0
  /\ Goto(x, "lock")
  /\ UNCHANGED <<lock, intr, saved>>

\* A mutant: the holder gives back what it took.
UnlockIncrement(x) ==
  /\ pc[x] = "in" /\ Runs(x)
  /\ lock' = lock + 1
  /\ Goto(x, "restore")
  /\ UNCHANGED <<intr, saved>>

\* spin_unlock: movq $1
Unlock(x) ==
  /\ pc[x] = "in" /\ Runs(x)
  /\ lock' = 1
  /\ Goto(x, "restore")
  /\ UNCHANGED <<intr, saved>>

\* local_irq_restore, or the local_irq_enable of spin_unlock_irq
Restore(c) ==
  /\ pc[<<c, "task">>] = "restore" /\ Runs(<<c, "task">>)
  /\ intr' = [intr EXCEPT ![c] = saved[c]]
  /\ Goto(<<c, "task">>, "out")
  /\ UNCHANGED <<lock, saved>>

\* The handler's iretq: only a set flag let the interrupt in.
Return(c) ==
  /\ pc[<<c, "handler">>] = "restore"
  /\ intr' = [intr EXCEPT ![c] = TRUE]
  /\ Goto(<<c, "handler">>, "out")
  /\ UNCHANGED <<lock, saved>>

\* What a context that has begun to take the lock does.
Step(x) ==
  Lock(x) \/ Spin(x) \/ Unlock(x)
    \/ IF IsTask(x) THEN Restore(Cpu(x)) ELSE Return(Cpu(x))

Next ==
  \/ \E c \in CPU : Interrupt(c) \/ IrqSave(c) \/ \E flag \in BOOLEAN : CallerSets(c, flag)
  \/ \E x \in Context : Step(x)

Spec == Init /\ [][Next]_vars

\* A context that can go on does; nobody has to ask for the lock.
FairSpec == Spec /\ \A x \in Context : WF_vars(Step(x))

-----------------------------------------------------------------------------
TypeOK ==
  /\ lock \in Int
  /\ pc \in [Context -> Labels]
  /\ intr \in [CPU -> BOOLEAN] /\ saved \in [CPU -> BOOLEAN]

\* Between spin_lock and spin_unlock there is one context, of whatever CPU.
MutualExclusion ==
  \A x, y \in Context : pc[x] = "in" /\ pc[y] = "in" => x = y

\* A handler never waits for a lock that the task it interrupted holds, or is
\* about to take: it would wait for ever, with the flag of its CPU clear.
NoSelfDeadlock ==
  \A c \in CPU : pc[<<c, "handler">>] # "out" => pc[<<c, "task">>] = "out"

\* The word goes no further below 0 than there are contexts, however often
\* they try: it never wraps into a free lock.
LockBounded == lock \in 1 - Cardinality(Context) .. 1

\* While someone waits, the lock is taken again and again.  The waiting
\* context itself may never be the one.
Waiting == \E x \in Context : pc[x] \in {"lock", "spin"}
LockTaken == Waiting ~> \E x \in Context : pc[x] = "in"
=============================================================================

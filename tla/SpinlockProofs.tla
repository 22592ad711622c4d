--------------------------- MODULE SpinlockProofs ---------------------------
(***************************************************************************)
(* Proofs about Spinlock, for any finite set of CPUs.                      *)
(*                                                                         *)
(* Mutual exclusion rests on the lock word alone: a holder keeps it at 0   *)
(* or below, so a decrement that leaves 0 found it at 1, that is, found no *)
(* holder.  That a handler never waits for its own CPU rests on the        *)
(* interrupt flag alone: it is clear from local_irq_save to                *)
(* local_irq_restore.  The two arguments share only the type invariant.    *)
(* The bound of the word counts the contexts that have decremented it.     *)
(***************************************************************************)
EXTENDS Spinlock, FiniteSetTheorems, TLAPS

\* A holder keeps the word at 0 or below, and there is one holder.
WordInv ==
  /\ lock <= 1
  /\ \A x \in Context : pc[x] = "in" => lock <= 0
  /\ MutualExclusion

\* The flag of a CPU is clear while its task or its handler is with the lock.
FlagInv ==
  /\ \A x \in Context : pc[x] # "out" => ~intr[Cpu(x)]
  /\ NoSelfDeadlock

LEMMA ContextParts ==
  /\ \A c \in CPU : <<c, "task">> \in Context /\ <<c, "handler">> \in Context
  /\ \A c \in CPU : Cpu(<<c, "task">>) = c /\ Cpu(<<c, "handler">>) = c
  /\ \A c \in CPU : <<c, "task">> # <<c, "handler">>
  /\ \A x \in Context : Cpu(x) \in CPU
                          /\ (x = <<Cpu(x), "task">> \/ x = <<Cpu(x), "handler">>)
  BY DEF Context, Cpu

\* A task is <<its CPU, "task">>, a handler <<its CPU, "handler">>.
LEMMA ContextKinds ==
  \A x \in Context : IF IsTask(x) THEN x = <<Cpu(x), "task">> ELSE x = <<Cpu(x), "handler">>
  BY DEF Context, Cpu, IsTask

LEMMA InitTypeOK == Init => TypeOK
  BY DEF Init, TypeOK, Labels

LEMMA NextTypeOK == TypeOK /\ [Next]_vars => TypeOK'
<1> SUFFICES ASSUME TypeOK, [Next]_vars PROVE TypeOK'
  OBVIOUS
<1> USE ContextParts DEF TypeOK, Labels, Goto
<1>1. ASSUME NEW c \in CPU, Interrupt(c) PROVE TypeOK'
  BY <1>1 DEF Interrupt
<1>2. ASSUME NEW c \in CPU, IrqSave(c) PROVE TypeOK'
  BY <1>2 DEF IrqSave
<1>3. ASSUME NEW c \in CPU, NEW flag \in BOOLEAN, CallerSets(c, flag) PROVE TypeOK'
  BY <1>3 DEF CallerSets
<1>4. ASSUME NEW x \in Context, Lock(x) PROVE TypeOK'
  BY <1>4 DEF Lock
<1>5. ASSUME NEW x \in Context, Spin(x) PROVE TypeOK'
  BY <1>5 DEF Spin
<1>6. ASSUME NEW x \in Context, Unlock(x) PROVE TypeOK'
  BY <1>6 DEF Unlock
<1>7. ASSUME NEW c \in CPU, Restore(c) PROVE TypeOK'
  BY <1>7 DEF Restore
<1>8. ASSUME NEW c \in CPU, Return(c) PROVE TypeOK'
  BY <1>8 DEF Return
<1>9. CASE UNCHANGED vars
  BY <1>9 DEF vars
<1> QED
  BY <1>1, <1>2, <1>3, <1>4, <1>5, <1>6, <1>7, <1>8, <1>9 DEF Next, Step

LEMMA NextWordInv == TypeOK /\ WordInv /\ [Next]_vars => WordInv'
<1> SUFFICES ASSUME TypeOK, WordInv, [Next]_vars PROVE WordInv'
  OBVIOUS
<1> USE ContextParts DEF TypeOK, WordInv, MutualExclusion, Goto
\* A step that leaves the word alone and brings nobody in.
<1>1. ASSUME UNCHANGED lock, NEW x \in Context, NEW label \in Labels \ {"in"},
             pc' = [pc EXCEPT ![x] = label]
      PROVE  WordInv'
  BY <1>1
<1>2. ASSUME NEW c \in CPU, Interrupt(c) PROVE WordInv'
  BY <1>1, <1>2 DEF Interrupt, Labels
<1>3. ASSUME NEW c \in CPU, IrqSave(c) PROVE WordInv'
  BY <1>1, <1>3 DEF IrqSave, Labels
<1>4. ASSUME NEW c \in CPU, NEW flag \in BOOLEAN, CallerSets(c, flag) PROVE WordInv'
  BY <1>4 DEF CallerSets
<1>5. ASSUME NEW x \in Context, Lock(x) PROVE WordInv'
  <2>1. lock' = lock - 1 /\ lock' <= 0
    BY <1>5 DEF Lock
  <2>2. CASE lock' >= 0
    <3>1. lock = 1 /\ \A y \in Context : pc[y] # "in"
      BY <2>1, <2>2
    <3>2. pc' = [pc EXCEPT ![x] = "in"]
      BY <1>5, <2>2 DEF Lock
    <3> QED
      BY <2>1, <3>1, <3>2
  <2>3. CASE ~(lock' >= 0)
    <3>1. pc' = [pc EXCEPT ![x] = "spin"]
      BY <1>5, <2>3 DEF Lock
    <3> QED
      BY <2>1, <3>1
  <2> QED
    BY <2>2, <2>3
<1>6. ASSUME NEW x \in Context, Spin(x) PROVE WordInv'
  BY <1>1, <1>6 DEF Spin, Labels
<1>7. ASSUME NEW x \in Context, Unlock(x) PROVE WordInv'
  <2>1. \A y \in Context : pc'[y] # "in"
    BY <1>7 DEF Unlock
  <2>2. lock' = 1
    BY <1>7 DEF Unlock
  <2> QED
    BY <2>1, <2>2
<1>8. ASSUME NEW c \in CPU, Restore(c) PROVE WordInv'
  BY <1>1, <1>8 DEF Restore, Labels
<1>9. ASSUME NEW c \in CPU, Return(c) PROVE WordInv'
  BY <1>1, <1>9 DEF Return, Labels
<1>10. CASE UNCHANGED vars
  BY <1>10 DEF vars
<1> QED
  BY <1>2, <1>3, <1>4, <1>5, <1>6, <1>7, <1>8, <1>9, <1>10 DEF Next, Step

LEMMA NextFlagInv == TypeOK /\ FlagInv /\ [Next]_vars => FlagInv'
<1> SUFFICES ASSUME TypeOK, FlagInv, [Next]_vars PROVE FlagInv'
  OBVIOUS
<1> USE ContextParts, ContextKinds DEF TypeOK, FlagInv, NoSelfDeadlock, Goto
\* A context that is with the lock goes on, and no flag changes.
<1>1. ASSUME UNCHANGED intr, NEW x \in Context, pc[x] # "out", NEW label \in Labels,
             pc' = [pc EXCEPT ![x] = label]
      PROVE  FlagInv'
  BY <1>1
<1>2. ASSUME NEW c \in CPU, Interrupt(c) PROVE FlagInv'
  BY <1>2 DEF Interrupt
<1>3. ASSUME NEW c \in CPU, IrqSave(c) PROVE FlagInv'
  BY <1>3 DEF IrqSave, Runs
<1>4. ASSUME NEW c \in CPU, NEW flag \in BOOLEAN, CallerSets(c, flag) PROVE FlagInv'
  BY <1>4 DEF CallerSets, Runs
<1>5. ASSUME NEW x \in Context, Lock(x) PROVE FlagInv'
  BY <1>1, <1>5 DEF Lock, Labels
<1>6. ASSUME NEW x \in Context, Spin(x) PROVE FlagInv'
  BY <1>1, <1>6 DEF Spin, Labels
<1>7. ASSUME NEW x \in Context, Unlock(x) PROVE FlagInv'
  BY <1>1, <1>7 DEF Unlock, Labels
<1>8. ASSUME NEW c \in CPU, Restore(c) PROVE FlagInv'
  BY <1>8 DEF Restore, Runs
<1>9. ASSUME NEW c \in CPU, Return(c) PROVE FlagInv'
  BY <1>9 DEF Return
<1>10. CASE UNCHANGED vars
  BY <1>10 DEF vars
<1> QED
  BY <1>2, <1>3, <1>4, <1>5, <1>6, <1>7, <1>8, <1>9, <1>10 DEF Next, Step

-----------------------------------------------------------------------------
(* How far the word goes down. *)

\* Every decrement since the last release was made by a context that is in or
\* waits in the loop now: a context tries once, until it sees the word above 0.
Tried == {x \in Context : pc[x] \in {"in", "spin"}}
CountInv == 1 - lock <= Cardinality(Tried)

LEMMA ContextFinite == IsFiniteSet(Context)
<1>1. IsFiniteSet({"task"} \cup {"handler"})
  BY FS_Singleton, FS_AddElement
<1>2. {"task", "handler"} = {"task"} \cup {"handler"}
  OBVIOUS
<1> QED
  BY <1>1, <1>2, CpuAssumption, FS_Product DEF Context

LEMMA TriedFinite ==
  /\ IsFiniteSet(Tried) /\ Cardinality(Tried) \in Nat
  /\ Cardinality(Tried) <= Cardinality(Context) /\ Cardinality(Context) \in Nat
<1>1. Tried \in SUBSET Context
  BY DEF Tried
<1> QED
  BY <1>1, ContextFinite, FS_Subset, FS_CardinalityType

LEMMA NextCountInv == TypeOK /\ CountInv /\ [Next]_vars => CountInv'
<1> SUFFICES ASSUME TypeOK, CountInv, [Next]_vars PROVE CountInv'
  OBVIOUS
<1> USE ContextParts, TriedFinite DEF TypeOK, CountInv, Goto
<1>0. IsFiniteSet(Tried') /\ Cardinality(Tried') \in Nat
  <2>1. Tried' \in SUBSET Context
    BY DEF Tried, Context
  <2> QED
    BY <2>1, ContextFinite, FS_Subset, FS_CardinalityType
\* A step that leaves the word alone and nobody out of the count.
<1>1. ASSUME UNCHANGED lock, Tried \subseteq Tried' PROVE CountInv'
  <2>1. Cardinality(Tried) <= Cardinality(Tried')
    BY <1>0, <1>1, FS_Subset
  <2> QED
    BY <1>0, <1>1, <2>1
<1>2. ASSUME NEW c \in CPU, Interrupt(c) PROVE CountInv'
  BY <1>1, <1>2 DEF Interrupt, Tried
<1>3. ASSUME NEW c \in CPU, IrqSave(c) PROVE CountInv'
  BY <1>1, <1>3 DEF IrqSave, Tried
<1>4. ASSUME NEW c \in CPU, NEW flag \in BOOLEAN, CallerSets(c, flag) PROVE CountInv'
  BY <1>1, <1>4 DEF CallerSets, Tried
<1>5. ASSUME NEW x \in Context, Lock(x) PROVE CountInv'
  <2>1. lock' = lock - 1 /\ x \notin Tried
    BY <1>5 DEF Lock, Tried
  <2>2. Tried' = Tried \cup {x}
    BY <1>5 DEF Lock, Tried
  <2>3. Cardinality(Tried') = Cardinality(Tried) + 1
    BY <2>1, <2>2, FS_AddElement
  <2> QED
    BY <2>1, <2>3
\* The loop ends when the word is above 0, where nothing has to be counted.
<1>6. ASSUME NEW x \in Context, Spin(x) PROVE CountInv'
  BY <1>0, <1>6 DEF Spin
<1>7. ASSUME NEW x \in Context, Unlock(x) PROVE CountInv'
  BY <1>0, <1>7 DEF Unlock
<1>8. ASSUME NEW c \in CPU, Restore(c) PROVE CountInv'
  BY <1>1, <1>8 DEF Restore, Tried
<1>9. ASSUME NEW c \in CPU, Return(c) PROVE CountInv'
  BY <1>1, <1>9 DEF Return, Tried
<1>10. CASE UNCHANGED vars
  BY <1>1, <1>10 DEF vars, Tried
<1> QED
  BY <1>2, <1>3, <1>4, <1>5, <1>6, <1>7, <1>8, <1>9, <1>10 DEF Next, Step

-----------------------------------------------------------------------------
\* The type invariant of Spinlock holds, for any set of CPUs.
THEOREM LockTypeCorrect == Spec => []TypeOK
  BY InitTypeOK, NextTypeOK, PTL DEF Spec

\* spin_lock lets one context in at a time, of any number of CPUs, tasks and
\* handlers alike.
THEOREM LockExcludes == Spec => []MutualExclusion
<1>1. Init => WordInv
  BY DEF Init, WordInv, MutualExclusion
<1>2. WordInv => MutualExclusion
  BY DEF WordInv
<1> QED
  BY <1>1, <1>2, NextWordInv, LockTypeCorrect, PTL DEF Spec

\* The lock word never goes further below 0 than there are contexts, for any
\* number of CPUs: with fewer than 2^62 CPUs it never wraps.
THEOREM LockWordBounded == Spec => []LockBounded
<1>1. Init => CountInv
  BY TriedFinite DEF Init, CountInv
<1>2. TypeOK /\ WordInv /\ CountInv => LockBounded
  BY TriedFinite DEF TypeOK, WordInv, CountInv, LockBounded
<1>3. Init => WordInv
  BY DEF Init, WordInv, MutualExclusion
<1> QED
  BY <1>1, <1>2, <1>3, NextCountInv, NextWordInv, LockTypeCorrect, PTL DEF Spec

\* With the irqsave macros no handler waits for the task it interrupted.
THEOREM HandlersNeverWaitForTheirTask == Spec => []NoSelfDeadlock
<1>1. Init => FlagInv
  BY ContextParts DEF Init, FlagInv, NoSelfDeadlock
<1>2. FlagInv => NoSelfDeadlock
  BY DEF FlagInv
<1> QED
  BY <1>1, <1>2, NextFlagInv, LockTypeCorrect, PTL DEF Spec
=============================================================================

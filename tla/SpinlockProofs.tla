-------------------------- MODULE SpinlockProofs --------------------------
(***************************************************************************)
(* Proofs that interrupt masking is a sound lock on one processor: the     *)
(* invariants of module Spinlock for any set of locks and any nesting.     *)
(***************************************************************************)
EXTENDS Spinlock, SequenceTheorems, TLAPS

\* The interrupt flag that the running level has outside its masked sections.
Outside == IF Len(held[level]) = 0 THEN Base(level) ELSE 0

\* The levels that do not run: nothing has begun above the running one, and
\* below it is only code that was interrupted with interrupts on.
Suspended ==
  /\ level <= 1
  /\ \A n \in Levels : n > level => pc[n] = "run" /\ Len(held[n]) = 0
  /\ level = 1 => /\ enabled = 1
                  /\ Len(held[0]) = 0
                  /\ pc[0] \in {"run", "lock", "try"}
                  /\ pc[0] # "run" => flags[0] = 1

\* The flag and its saved copy.
Flag ==
  /\ pc[level] \in {"run", "lock", "try"} => intr = Outside
  /\ pc[level] \in {"lock_masked", "try_masked", "restore"} => intr = 0
  /\ pc[level] \in {"lock", "try", "lock_masked", "try_masked"} =>
       flags[level] = Outside

\* The stack of locks of the running level and the fields of the locks.
Stack ==
  /\ \A j, k \in 1 .. Len(held[level]) :
       held[level][j] = held[level][k] => j = k
  /\ \A k \in 1 .. Len(held[level]) :
       lock[held[level][k]].flags = IF k = 1 THEN Base(level) ELSE 0
  /\ pc[level] = "restore" => /\ Len(held[level]) > 0
                              /\ arg[level] = held[level][Len(held[level])]
  /\ pc[level] \in {"lock", "lock_masked"} => ~ Holds(level, arg[level])
  /\ \A l \in Locks : lock[l].locked = 1 <=>
       Holds(level, l) /\ ~ (pc[level] = "restore" /\ l = arg[level])

IInv == TypeOK /\ Suspended /\ Flag /\ Stack

-----------------------------------------------------------------------------

\* What the proofs use of the types, one fact at a time.
LEMMA Typed ==
  ASSUME TypeOK
  PROVE  /\ level \in Nat /\ level \in Levels
         /\ MaxLevel \in Nat /\ Levels = 0 .. MaxLevel
         /\ enabled \in {0, 1}
         /\ \A n \in Levels : /\ held[n] \in Seq(Locks)
                              /\ Len(held[n]) \in Nat
                              /\ arg[n] \in Locks
                              /\ \A k \in 1 .. Len(held[n]) : held[n][k] \in Locks
  BY SpinlockAssumption DEF TypeOK, Levels

LEMMA InitIInv == Init => IInv
  BY SpinlockAssumption
     DEF Init, IInv, TypeOK, Suspended, Flag, Stack, Outside, Base, Levels,
         Holds

LEMMA PushIInv ==
  ASSUME IInv, NEW l \in Locks, NEW label \in {"lock", "try"},
         pushfq(l, label)
  PROVE  IInv'
  <1>1. TypeOK /\ Suspended /\ Flag /\ Stack
    BY Zenon DEF IInv
  <1>2. TypeOK'
    BY <1>1, SpinlockAssumption, Zenon DEF TypeOK, pushfq, Goto, Levels
  <1>3. /\ pc[level] = "run" /\ pc'[level] = label /\ arg'[level] = l
        /\ flags'[level] = intr
        /\ label = "lock" => ~ Holds(level, l)
        /\ \A n \in Levels : n # level => pc'[n] = pc[n] /\ flags'[n] = flags[n]
        /\ UNCHANGED <<intr, enabled, lock, level, held>>
    BY <1>1, Typed, Zenon DEF pushfq, Goto, TypeOK
  <1>4. Suspended'
    BY <1>1, <1>3, Typed DEF Suspended
  <1>5. Flag'
    BY <1>1, <1>3, Typed, Zenon DEF Flag, Outside, Base
  <1>6. Stack'
    BY <1>1, <1>3, Typed DEF Stack, Holds, Base
  <1> QED
    BY <1>2, <1>4, <1>5, <1>6, Zenon DEF IInv

LEMMA CliIInv == ASSUME IInv, cli PROVE IInv'
  <1>1. TypeOK /\ Suspended /\ Flag /\ Stack
    BY Zenon DEF IInv
  <1>2. TypeOK'
    BY <1>1, SpinlockAssumption, Zenon DEF TypeOK, cli, AfterCli, Goto, Levels
  <1>3. /\ \/ pc[level] = "lock" /\ pc'[level] = "lock_masked"
           \/ pc[level] = "try" /\ pc'[level] = "try_masked"
        /\ intr' = 0
        /\ \A n \in Levels : n # level => pc'[n] = pc[n]
        /\ UNCHANGED <<enabled, lock, level, arg, flags, held>>
    BY <1>1, Typed, Zenon DEF cli, AfterCli, Goto, TypeOK
  <1>4. Suspended'
    BY <1>1, <1>3, Typed DEF Suspended
  <1>5. Flag'
    BY <1>1, <1>3, Typed, Zenon DEF Flag, Outside, Base
  <1>6. Stack'
    BY <1>1, <1>3, Typed DEF Stack, Holds, Base
  <1> QED
    BY <1>2, <1>4, <1>5, <1>6, Zenon DEF IInv

\* Marking a lock that is not marked, in spin_lock and in spin_trylock.
LEMMA TakeIInv ==
  ASSUME IInv, pc[level] \in {"lock_masked", "try_masked"},
         lock[arg[level]].locked = 0, Take, Goto("run"),
         UNCHANGED <<intr, enabled, level, arg, flags>>
  PROVE  IInv'
  <1> DEFINE m == Len(held[level])
  <1>1. TypeOK /\ Suspended /\ Flag /\ Stack
    BY Zenon DEF IInv
  <1>2. TypeOK'
    BY <1>1, SpinlockAssumption DEF TypeOK, Take, Goto, Levels
  <1>3. /\ pc'[level] = "run"
        /\ \A n \in Levels : n # level => pc'[n] = pc[n] /\ held'[n] = held[n]
        /\ held'[level] = Append(held[level], arg[level])
    BY <1>1, Typed, Zenon DEF Take, Goto, TypeOK
  <1>4. /\ Len(held'[level]) = m + 1
        /\ held'[level][m + 1] = arg[level]
        /\ \A k \in 1 .. m : held'[level][k] = held[level][k]
    BY <1>1, <1>3, Typed
  <1>5. /\ lock'[arg[level]].flags = flags[level]
        /\ lock'[arg[level]].locked = 1
        /\ \A l \in Locks : l # arg[level] => lock'[l] = lock[l]
    BY <1>1, Typed, Zenon DEF Take, TypeOK
  <1>6. ~ Holds(level, arg[level])
    BY <1>1, Typed DEF Stack
  <1>7. Suspended'
    <2>1. /\ \A n \in Levels : n > level => n # level
          /\ 0 \in Levels /\ (level = 1 => 0 # level)
      BY <1>1, Typed
    <2> QED BY <1>1, <1>3, <2>1, Zenon DEF Suspended
  <1>8. Flag'
    BY <1>1, <1>3, <1>4, Typed DEF Flag, Outside, Base
  <1>9. Stack'
    <2>0. m \in Nat /\ 1 .. m + 1 = (1 .. m) \union {m + 1}
      BY <1>1, Typed
    <2> HIDE DEF m
    <2>1. \A j, k \in 1 .. m + 1 :
            held'[level][j] = held'[level][k] => j = k
      <3>1. \A j, k \in 1 .. m : held[level][j] = held[level][k] => j = k
        BY <1>1, Zenon DEF Stack, m
      <3>2. \A k \in 1 .. m : held[level][k] # arg[level]
        BY <1>6, Zenon DEF Holds, m
      <3> QED
        BY <1>4, <2>0, <3>1, <3>2
    <2>2. \A k \in 1 .. m + 1 :
            lock'[held'[level][k]].flags = IF k = 1 THEN Base(level) ELSE 0
      <3>1. ASSUME NEW k \in 1 .. m
            PROVE  lock'[held'[level][k]].flags
                     = IF k = 1 THEN Base(level) ELSE 0
        <4>1. held[level][k] # arg[level]
          BY <1>6, Zenon DEF Holds, m
        <4>2. lock'[held'[level][k]] = lock[held[level][k]]
          BY <1>1, <1>4, <1>5, <4>1, Typed, Zenon DEF m
        <4> QED
          BY <1>1, <4>2 DEF Stack, m
      <3>2. flags[level] = IF m + 1 = 1 THEN Base(level) ELSE 0
        BY <1>1, Typed DEF Flag, Outside, m
      <3> QED
        BY <1>4, <1>5, <2>0, <3>1, <3>2
    <2>3. ASSUME NEW l \in Locks
          PROVE  lock'[l].locked = 1 <=>
                   \E k \in 1 .. m + 1 : held'[level][k] = l
      <3>1. CASE l = arg[level]
        BY <1>4, <1>5, <2>0, <3>1, Zenon
      <3>2. CASE l # arg[level]
        <4>1. lock'[l].locked = 1 <=> \E k \in 1 .. m : held[level][k] = l
          BY <1>1, <1>5, <3>2 DEF Stack, Holds, m
        <4> QED
          BY <1>4, <2>0, <3>2, <4>1
      <3> QED
        BY <3>1, <3>2, Zenon
    <2> QED
      BY <1>3, <1>4, <2>1, <2>2, <2>3 DEF Stack, Base, Holds
  <1> QED
    BY <1>2, <1>7, <1>8, <1>9, Zenon DEF IInv

LEMMA LockIInv == ASSUME IInv, spin_lock PROVE IInv'
  <1>1. lock[arg[level]].locked = 0
    BY Typed DEF IInv, TypeOK, Stack, spin_lock
  <1> QED
    BY <1>1, TakeIInv, Zenon DEF spin_lock

LEMMA TrylockIInv == ASSUME IInv, spin_trylock PROVE IInv'
  <1>1. CASE lock[arg[level]].locked = 0
    BY <1>1, TakeIInv DEF spin_trylock
  <1>2. CASE lock[arg[level]].locked = 1
    <2>1. TypeOK /\ Suspended /\ Flag /\ Stack
      BY Zenon DEF IInv
    <2>2. TypeOK'
      <3>1. intr' \in {0, 1}
        BY <1>2, <2>1, Typed, Zenon DEF TypeOK, spin_trylock
      <3>2. pc' \in [Levels -> {"run", "lock", "try", "lock_masked",
                               "try_masked", "restore"}]
        BY <1>2, <2>1, Typed, Zenon DEF TypeOK, spin_trylock, Goto
      <3> QED
        BY <1>2, <2>1, <3>1, <3>2 DEF TypeOK, spin_trylock
    <2>3. /\ pc[level] = "try_masked" /\ pc'[level] = "run"
          /\ intr' = flags[level]
          /\ \A n \in Levels : n # level => pc'[n] = pc[n]
          /\ UNCHANGED <<enabled, lock, level, arg, flags, held>>
      BY <1>2, <2>1, Typed DEF spin_trylock, Goto, TypeOK
    <2>4. Suspended'
      BY <2>1, <2>3, Typed DEF Suspended
    <2>5. Flag'
      BY <2>1, <2>3, Typed, Zenon DEF Flag, Outside, Base
    <2>6. Stack'
      BY <2>1, <2>3, Typed, Zenon DEF Stack, Holds, Base
    <2> QED
      BY <2>2, <2>4, <2>5, <2>6, Zenon DEF IInv
  <1> QED
    BY <1>1, <1>2, Zenon DEF spin_trylock

LEMMA EnableIInv == ASSUME IInv, interrupts_enable PROVE IInv'
  <1>1. TypeOK /\ Suspended /\ Flag /\ Stack
    BY Zenon DEF IInv
  <1>2. TypeOK'
    BY <1>1, SpinlockAssumption, Zenon DEF TypeOK, interrupts_enable, Goto, Levels
  <1>3. /\ level = 0 /\ pc[0] = "run" /\ Len(held[0]) = 0
        /\ enabled' = 1 /\ intr' = 1
        /\ UNCHANGED <<lock, level, pc, arg, flags, held>>
    BY <1>1, Typed, Zenon DEF interrupts_enable, Goto, TypeOK
  <1>4. Suspended'
    BY <1>1, <1>3, Typed, Zenon DEF Suspended, Flag, Outside, Base
  <1>5. Flag'
    BY <1>1, <1>3, Typed, Zenon DEF Suspended, Flag, Outside, Base
  <1>6. Stack'
    BY <1>1, <1>3, Typed DEF Suspended, Flag, Outside, Stack, Holds, Base
  <1> QED
    BY <1>2, <1>4, <1>5, <1>6, Zenon DEF IInv

LEMMA EntryIInv == ASSUME IInv, irq_entry PROVE IInv'
  <1>1. TypeOK /\ Suspended /\ Flag /\ Stack
    BY Zenon DEF IInv
  <1>2. TypeOK'
    BY <1>1, SpinlockAssumption DEF TypeOK, irq_entry, Levels
  <1>3. /\ intr = 1 /\ intr' = 0 /\ level' = level + 1
        /\ level + 1 \in Levels
        /\ UNCHANGED <<enabled, lock, pc, arg, flags, held>>
    BY <1>1, Typed DEF irq_entry
  <1>4. /\ level = 0 /\ enabled = 1 /\ Len(held[0]) = 0
        /\ pc[0] \in {"run", "lock", "try"}
        /\ pc[0] # "run" => flags[0] = 1
    <2>1. pc[level] \in {"run", "lock", "try"}
      BY <1>1, <1>3, Typed DEF TypeOK, Flag
    <2>2. Outside = 1
      BY <1>1, <1>3, <2>1, Zenon DEF Flag
    <2> QED
      BY <1>1, <2>1, <2>2 DEF Flag, Outside, Base
  <1>5. Len(held[1]) = 0 /\ pc[1] = "run"
    BY <1>1, <1>3, <1>4 DEF Suspended
  <1>6. Suspended'
    BY <1>1, <1>3, <1>4, Typed DEF Suspended
  <1>7. Flag'
    BY <1>3, <1>4, <1>5 DEF Flag, Outside, Base
  <1>8. Stack'
    <2>0. \A l \in Locks : ~ Holds(level, l)
      BY <1>4 DEF Holds
    <2>1. \A l \in Locks : lock[l].locked # 1
      BY <1>1, <2>0, Zenon DEF Stack
    <2>2. level' = 1 /\ Len(held'[1]) = 0 /\ pc'[1] = "run" /\ lock' = lock
      BY <1>3, <1>4, <1>5
    <2> QED
      BY <2>1, <2>2 DEF Stack, Holds, Base
  <1> QED
    BY <1>2, <1>6, <1>7, <1>8, Zenon DEF IInv

LEMMA IretIInv == ASSUME IInv, iretq PROVE IInv'
  <1>1. TypeOK /\ Suspended /\ Flag /\ Stack
    BY Zenon DEF IInv
  <1>2. /\ level = 1 /\ pc[1] = "run" /\ Len(held[1]) = 0
        /\ intr' = 1 /\ level' = 0
        /\ UNCHANGED <<enabled, lock, pc, arg, flags, held>>
    BY <1>1, Typed DEF iretq, Suspended
  <1>3. TypeOK'
    <2>1. level' \in Levels
      BY <1>1, <1>2, Typed
    <2> QED
      BY <1>1, <1>2, <2>1, Zenon DEF TypeOK
  <1>4. Suspended'
    BY <1>1, <1>2, Typed DEF Suspended
  <1>5. Flag'
    BY <1>1, <1>2, Zenon DEF Suspended, Flag, Outside, Base
  <1>6. Stack'
    <2>1. \A l \in Locks : lock[l].locked # 1
      BY <1>1, <1>2 DEF Stack, Holds
    <2> QED
      BY <1>1, <1>2, <2>1 DEF Suspended, Stack, Holds, Base
  <1> QED
    BY <1>3, <1>4, <1>5, <1>6, Zenon DEF IInv

LEMMA UnlockIInv == ASSUME IInv, spin_unlock PROVE IInv'
  <1> DEFINE m == Len(held[level])
             x == held[level][m]
  <1>1. TypeOK /\ Suspended /\ Flag /\ Stack
    BY Zenon DEF IInv
  <1>2. /\ pc[level] = "run" /\ pc'[level] = "restore"
        /\ m > 0 /\ x \in Locks /\ arg'[level] = x
        /\ \A n \in Levels : n # level => pc'[n] = pc[n]
        /\ UNCHANGED <<intr, enabled, level, flags, held>>
    BY <1>1, Typed DEF spin_unlock, Goto, TypeOK
  <1>3. /\ \A l \in Locks : lock'[l].flags = lock[l].flags
        /\ \A l \in Locks : l # x => lock'[l] = lock[l]
        /\ lock'[x].locked = 0
    BY <1>1, <1>2 DEF spin_unlock, TypeOK
  <1>4. TypeOK'
    BY <1>1, <1>2, SpinlockAssumption, Zenon DEF TypeOK, spin_unlock, Goto, Levels
  <1>5. Suspended'
    BY <1>1, <1>2, Typed DEF Suspended
  <1>6. Flag'
    BY <1>1, <1>2, Typed DEF Flag, Outside, Base
  <1>7. Stack'
    <2>1. /\ \A j, k \in 1 .. m : held[level][j] = held[level][k] => j = k
          /\ \A k \in 1 .. m :
               lock[held[level][k]].flags = IF k = 1 THEN Base(level) ELSE 0
          /\ \A l \in Locks :
               lock[l].locked = 1 <=> \E k \in 1 .. m : held[level][k] = l
      BY <1>1, <1>2, Zenon DEF Stack, Holds
    <2>2. m \in Nat /\ \A k \in 1 .. m : held[level][k] \in Locks
      BY <1>1, Typed, Zenon
    <2> HIDE DEF m, x
    <2>3. \A k \in 1 .. m :
            lock'[held[level][k]].flags = IF k = 1 THEN Base(level) ELSE 0
      BY <1>3, <2>1, <2>2
    <2>4. \A l \in Locks : lock'[l].locked = 1 <=>
            (\E k \in 1 .. m : held[level][k] = l) /\ l # x
      BY <1>2, <1>3, <2>1
    <2> USE DEF m, x
    <2> QED
      BY <1>2, <2>1, <2>3, <2>4 DEF Stack, Holds, Base
  <1> QED
    BY <1>4, <1>5, <1>6, <1>7, Zenon DEF IInv

LEMMA RestoreIInv == ASSUME IInv, restore_flags PROVE IInv'
  <1> DEFINE m == Len(held[level])
  <1>1. TypeOK /\ Suspended /\ Flag /\ Stack
    BY Zenon DEF IInv
  <1>2. /\ pc[level] = "restore" /\ pc'[level] = "run"
        /\ m > 0 /\ m \in Nat /\ arg[level] = held[level][m]
        /\ intr' = lock[arg[level]].flags
        /\ held'[level] = SubSeq(held[level], 1, m - 1)
        /\ \A n \in Levels : n # level => pc'[n] = pc[n] /\ held'[n] = held[n]
        /\ UNCHANGED <<enabled, lock, level, arg, flags>>
    BY <1>1, Typed DEF restore_flags, Goto, TypeOK, Stack
  <1>3. /\ Len(held'[level]) = m - 1
        /\ \A k \in 1 .. m - 1 : held'[level][k] = held[level][k]
        /\ held'[level] \in Seq(Locks)
    BY <1>1, <1>2, Typed
  <1>4. TypeOK'
    BY <1>1, <1>2, <1>3, SpinlockAssumption, Zenon
       DEF TypeOK, restore_flags, Goto, Levels
  <1>5. Suspended'
    <2>1. /\ \A n \in Levels : n > level => n # level
          /\ 0 \in Levels /\ (level = 1 => 0 # level)
      BY <1>1, Typed
    <2> QED BY <1>1, <1>2, <2>1, Zenon DEF Suspended
  <1>6. Flag'
    <2>1. m \in 1 .. Len(held[level]) /\ (m = 1 <=> m - 1 = 0)
      BY <1>2
    <2>2. intr' = IF m = 1 THEN Base(level) ELSE 0
      <3>1. lock[held[level][m]].flags = IF m = 1 THEN Base(level) ELSE 0
        BY <1>1, <2>1, Zenon DEF Stack
      <3>2. intr' = lock[held[level][m]].flags
        BY <1>2, Zenon
      <3> HIDE DEF m
      <3> QED BY <3>1, <3>2, Zenon
    <2>3. level' = level /\ Base(level)' = Base(level) /\ Len(held[level])' = m - 1
      <3>1. Levels' = Levels /\ enabled' = enabled /\ level' = level
        BY <1>2, Zenon DEF Levels
      <3> QED BY <1>2, <1>3, <3>1, Zenon DEF Base
    <2>4. intr' = Outside'
      BY <2>1, <2>2, <2>3, Zenon DEF Outside
    <2>5. pc[level]' = "run"
      BY <1>2, <2>3, Zenon
    <2> QED BY <2>4, <2>5, Zenon DEF Flag
  <1>7. Stack'
    <2>1. /\ \A j, k \in 1 .. m : held[level][j] = held[level][k] => j = k
          /\ \A k \in 1 .. m :
               lock[held[level][k]].flags = IF k = 1 THEN Base(level) ELSE 0
          /\ \A l \in Locks : lock[l].locked = 1 <=>
               (\E k \in 1 .. m : held[level][k] = l) /\ l # held[level][m]
      BY <1>1, <1>2 DEF Stack, Holds
    <2> HIDE DEF m
    <2>2. \A l \in Locks : lock[l].locked = 1 <=>
            \E k \in 1 .. m - 1 : held[level][k] = l
      BY <1>2, <2>1
    <2>3. \A l \in Locks : lock[l].locked = 1 <=>
            \E k \in 1 .. m - 1 : held'[level][k] = l
      BY <1>3, <2>2
    <2>4. \A j, k \in 1 .. m - 1 : held'[level][j] = held'[level][k] => j = k
      BY <1>2, <1>3, <2>1
    <2>5. \A k \in 1 .. m - 1 :
            lock[held'[level][k]].flags = IF k = 1 THEN Base(level) ELSE 0
      BY <1>2, <1>3, <2>1
    <2> QED
      BY <1>2, <1>3, <2>3, <2>4, <2>5 DEF Stack, Holds, Base
  <1> QED
    BY <1>4, <1>5, <1>6, <1>7, Zenon DEF IInv

LEMMA NextIInv == IInv /\ [Next]_vars => IInv'
  <1>1. ASSUME IInv, UNCHANGED vars PROVE IInv'
    BY <1>1 DEF vars, IInv, TypeOK, Suspended, Flag, Stack, Outside, Base,
                Holds
  <1> QED
    BY <1>1, PushIInv, CliIInv, LockIInv, TrylockIInv, UnlockIInv,
       RestoreIInv, EnableIInv, EntryIInv, IretIInv, Zenon DEF Next

-----------------------------------------------------------------------------

THEOREM Invariance == Spec => []IInv
  BY InitIInv, NextIInv, PTL DEF Spec

\* The variables keep their types.
THEOREM TypeCorrect == Spec => []TypeOK
  BY Invariance, PTL DEF IInv

\* spin_lock never marks a lock that somebody holds, so it need not spin.
THEOREM MutualExclusion == Spec => []NeverContended
  <1>1. IInv => NeverContended
    <2> SUFFICES ASSUME IInv PROVE NeverContended
      BY Zenon
    <2>1. \A n \in 0 .. level : n # level => Len(held[n]) = 0
      BY Typed DEF IInv, Suspended
    <2> QED
      BY <2>1, Typed DEF IInv, TypeOK, Stack, NeverContended, Holds
  <1> QED
    BY <1>1, Invariance, PTL

\* No handler runs on top of code that holds a lock.
THEOREM SectionsAreAtomic == Spec => []NotInterruptedWhileHeld
  <1>1. IInv => NotInterruptedWhileHeld
    <2> SUFFICES ASSUME IInv PROVE NotInterruptedWhileHeld
      BY Zenon
    <2>1. \A n \in 0 .. level : n # level => Len(held[n]) = 0
      BY Typed DEF IInv, Suspended
    <2>2. Len(held[level]) > 0 => intr = 0
      BY Typed DEF IInv, TypeOK, Flag, Outside
    <2> QED
      BY <2>1, <2>2 DEF IInv, Suspended, NotInterruptedWhileHeld
  <1> QED
    BY <1>1, Invariance, PTL

\* However locks nest, the last spin_unlock gives back the interrupt flag.
THEOREM FlagRestored == Spec => []InterruptStateRestored
  <1>1. IInv => InterruptStateRestored
    BY Zenon DEF IInv, Flag, Outside, InterruptStateRestored
  <1> QED
    BY <1>1, Invariance, PTL

=============================================================================

------------------------------ MODULE Spinlock ------------------------------
(***************************************************************************)
(* The kernel's locks (kernel/lock/spinlock.c) on its one processor.       *)
(*                                                                         *)
(* spin_lock never spins: it clears the interrupt flag and marks the lock, *)
(* whatever the mark was.  What can come between two of its instructions   *)
(* is an interrupt handler, which runs on top of the code it interrupts    *)
(* and may take locks itself.  Level 0 is the mainline, level n+1 a        *)
(* handler that interrupted level n; only the deepest level runs.          *)
(***************************************************************************)
EXTENDS Naturals, Sequences

CONSTANTS
  Locks,      \* pmm_lock, vmm_lock, heap_lock, kb_lock, ata_lock, ...
  MaxLevel    \* bound on the nesting of interrupts the model allows

ASSUME SpinlockAssumption == MaxLevel \in Nat

VARIABLES
  intr,       \* RFLAGS.IF, 0 or 1
  enabled,    \* 1 once interrupts_enable() has run
  lock,       \* each spinlock_t: its fields flags (its IF bit) and locked
  level,      \* how deep interrupts are nested
  pc,         \* per level: where it is in the lock functions
  arg,        \* per level: the lock the function was given
  flags,      \* per level: the local variable of the same name
  held        \* per level: the locks it has taken, the last one last

vars == <<intr, enabled, lock, level, pc, arg, flags, held>>

Levels == 0 .. MaxLevel

Init ==
  /\ intr = 0
  /\ enabled = 0
  /\ lock = [l \in Locks |-> [flags |-> 0, locked |-> 0]]
  /\ level = 0
  /\ pc = [n \in Levels |-> "run"]
  /\ arg \in [Levels -> Locks]
  /\ flags = [n \in Levels |-> 0]
  /\ held = [n \in Levels |-> <<>>]

Goto(label) == pc' = [pc EXCEPT ![level] = label]

-----------------------------------------------------------------------------
(* save_flags_and_cli: pushfq and pop, then cli.  An interrupt may come    *)
(* between the two.                                                        *)

Holds(n, l) == \E k \in 1 .. Len(held[n]) : held[n][k] = l

\* A caller of spin_lock ("lock") takes a lock that it does not hold itself, a
\* caller of spin_trylock ("try") any lock; nothing is known of the locks of
\* the code it interrupted.
pushfq(l, label) ==
  /\ pc[level] = "run"
  /\ label = "lock" => ~ Holds(level, l)
  /\ arg' = [arg EXCEPT ![level] = l]
  /\ flags' = [flags EXCEPT ![level] = intr]
  /\ Goto(label)
  /\ UNCHANGED <<intr, enabled, lock, level, held>>

\* The two labels after cli.
AfterCli(label) == IF label = "lock" THEN "lock_masked" ELSE "try_masked"

\* Faulty: the flag is left alone.
cli_Missing ==
  /\ pc[level] \in {"lock", "try"}
  /\ Goto(AfterCli(pc[level]))
  /\ UNCHANGED <<intr, enabled, lock, level, arg, flags, held>>

cli ==
  /\ pc[level] \in {"lock", "try"}
  /\ intr' = 0
  /\ Goto(AfterCli(pc[level]))
  /\ UNCHANGED <<enabled, lock, level, arg, flags, held>>

-----------------------------------------------------------------------------
(* The rest of spin_lock and spin_trylock.                                 *)

\* Faulty: the flags kept for the unlock are read after cli.
Take_LateFlags ==
  /\ lock' = [lock EXCEPT ![arg[level]] = [flags |-> intr, locked |-> 1]]
  /\ held' = [held EXCEPT ![level] = Append(@, arg[level])]

Take ==
  /\ lock' = [lock EXCEPT ![arg[level]] =
                [flags |-> flags[level], locked |-> 1]]
  /\ held' = [held EXCEPT ![level] = Append(@, arg[level])]

spin_lock ==
  /\ pc[level] = "lock_masked"
  /\ Take
  /\ Goto("run")
  /\ UNCHANGED <<intr, enabled, level, arg, flags>>

spin_trylock ==
  /\ pc[level] = "try_masked"
  /\ \/ /\ lock[arg[level]].locked = 1
        /\ intr' = flags[level]
        /\ UNCHANGED <<lock, held>>
     \/ /\ lock[arg[level]].locked = 0
        /\ Take
        /\ UNCHANGED intr
  /\ Goto("run")
  /\ UNCHANGED <<enabled, level, arg, flags>>

-----------------------------------------------------------------------------
(* spin_unlock: clear the mark, then restore_flags.  The callers release   *)
(* their locks in the reverse order.                                       *)

spin_unlock ==
  /\ pc[level] = "run"
  /\ Len(held[level]) > 0
  /\ LET l == held[level][Len(held[level])]
     IN /\ lock' = [lock EXCEPT ![l].locked = 0]
        /\ arg' = [arg EXCEPT ![level] = l]
  /\ Goto("restore")
  /\ UNCHANGED <<intr, enabled, level, flags, held>>

restore_flags ==
  /\ pc[level] = "restore"
  /\ intr' = lock[arg[level]].flags
  /\ held' = [held EXCEPT ![level] = SubSeq(@, 1, Len(@) - 1)]
  /\ Goto("run")
  /\ UNCHANGED <<enabled, lock, level, arg, flags>>

-----------------------------------------------------------------------------
(* The processor and the rest of the kernel.                               *)

\* kmain enables interrupts once the drivers are up.
interrupts_enable ==
  /\ level = 0
  /\ pc[0] = "run"
  /\ Len(held[0]) = 0
  /\ enabled = 0
  /\ enabled' = 1
  /\ intr' = 1
  /\ UNCHANGED <<lock, level, pc, arg, flags, held>>

\* An interrupt gate: RFLAGS is pushed and IF cleared.
irq_entry ==
  /\ intr = 1
  /\ level < MaxLevel
  /\ intr' = 0
  /\ level' = level + 1
  /\ UNCHANGED <<enabled, lock, pc, arg, flags, held>>

\* The handler is back in irq_common_stub and holds nothing; iretq pops the
\* RFLAGS of the interrupted code, in which IF was set.
iretq ==
  /\ level > 0
  /\ pc[level] = "run"
  /\ Len(held[level]) = 0
  /\ level' = level - 1
  /\ intr' = 1
  /\ UNCHANGED <<enabled, lock, pc, arg, flags, held>>

Next ==
  \/ \E l \in Locks, label \in {"lock", "try"} : pushfq(l, label)
  \/ cli
  \/ spin_lock
  \/ spin_trylock
  \/ spin_unlock
  \/ restore_flags
  \/ interrupts_enable
  \/ irq_entry
  \/ iretq

Spec == Init /\ [][Next]_vars

-----------------------------------------------------------------------------
(* Properties.                                                             *)

TypeOK ==
  /\ intr \in {0, 1}
  /\ enabled \in {0, 1}
  /\ lock \in [Locks -> [flags : {0, 1}, locked : {0, 1}]]
  /\ level \in Levels
  /\ pc \in [Levels -> {"run", "lock", "try", "lock_masked", "try_masked",
                        "restore"}]
  /\ arg \in [Levels -> Locks]
  /\ flags \in [Levels -> {0, 1}]
  /\ held \in [Levels -> Seq(Locks)]

\* The interrupt flag the code at this level runs with when it holds no lock.
Base(n) == IF n = 0 THEN enabled ELSE 0

\* "On single-core systems, disabling interrupts is sufficient"
\* (spinlock.c:57): when spin_lock marks its lock nobody has it, neither the
\* code it runs in nor the code it interrupted, so nothing needs to spin; and
\* when spin_trylock fails, it is the caller itself that has the lock.
NeverContended ==
  /\ pc[level] = "lock_masked" =>
       /\ lock[arg[level]].locked = 0
       /\ \A n \in 0 .. level : ~ Holds(n, arg[level])
  /\ pc[level] = "try_masked" /\ lock[arg[level]].locked = 1 =>
       Holds(level, arg[level])

\* No handler runs while the code under it holds a lock: data guarded by a
\* lock is never seen half changed.
NotInterruptedWhileHeld ==
  /\ \A n \in 0 .. level : Len(held[n]) > 0 => n = level /\ intr = 0
  /\ level <= 1

\* spin_unlock "restores interrupt state from when lock was acquired"
\* (spinlock.h:61) however the locks nest: with the last lock gone, the
\* mainline has interrupts on again, a handler and the boot code still off.
InterruptStateRestored ==
  pc[level] = "run" =>
    intr = IF Len(held[level]) = 0 THEN Base(level) ELSE 0

=============================================================================

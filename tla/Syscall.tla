------------------------------ MODULE Syscall ------------------------------
(***************************************************************************)
(* syscall_entry (arch/x86_64/syscall.s), the stub between the SYSCALL     *)
(* instruction of a program and syscall_handler: it builds a frame on the  *)
(* kernel's stack, hands the arguments over, calls, and takes the frame    *)
(* down again.  The machine is the registers and the stack, whose top is   *)
(* its first element; the program's stack pointer is apart, and the        *)
(* kernel's is the length of the stack.                                    *)
(***************************************************************************)
EXTENDS Integers, SequencesExt

\* In the order they are pushed.
Saved == <<"rax", "rbx", "rcx", "rdx", "rsi", "rdi", "rbp", "r8", "r9", "r10",
           "r11", "r12", "r13", "r14", "r15">>

Registers == ToSet(Saved)

\* The registers a C function may change; rax is its result.
CallerSaved == {"rcx", "rdx", "rsi", "rdi", "r8", "r9", "r10", "r11"}

SS == 35       \* 0x20 | 3
CS == 27       \* 0x18 | 3

\* A run of push instructions, of these values in this order.
push(k, values) == [k EXCEPT !.stack = Reverse(values) \o k.stack]

\* A run of pop instructions, into these registers, each named once.
pop(k, regs) ==
  [k EXCEPT
     !.reg = [r \in Registers |->
                IF r \in ToSet(regs)
                THEN k.stack[SelectInSeq(regs, LAMBDA e : e = r)] ELSE k.reg[r]],
     !.stack = SubSeq(k.stack, Len(regs) + 1, Len(k.stack))]

mov(k, m) == [k EXCEPT !.reg[m.to] = k.reg[m.from]]

\* SS, the program's stack pointer, RFLAGS, CS and the return address, then
\* the registers.
Enter(k) ==
  push(k, <<SS, k.user_rsp, k.reg["r11"], CS, k.reg["rcx"]>>
            \o [i \in DOMAIN Saved |-> k.reg[Saved[i]]])

Arguments(k) ==
  FoldLeft(mov, k, <<[to |-> "rdi", from |-> "rax"],
                     [to |-> "rsi", from |-> "rdi"],
                     [to |-> "rdx", from |-> "rsi"],
                     [to |-> "rcx", from |-> "rdx"],
                     [to |-> "r8",  from |-> "r10"],
                     [to |-> "r9",  from |-> "r8"]>>)

\* The stack pointer is kept in rbp over the call: the alignment for C may
\* have moved it.
Align(k) == [k EXCEPT !.reg["rbp"] = Len(k.stack)]

\* The handler leaves anything in the registers that are its own to use.
syscall_handler(k, result, junk) ==
  [k EXCEPT !.reg = [r \in Registers |->
      IF r = "rax" THEN result ELSE IF r \in CallerSaved THEN junk ELSE k.reg[r]]]

\* Faulty: the last two registers come back in the order they were pushed.
Restore_Swapped(k) ==
  pop([k EXCEPT !.stack[1] = k.reg["rax"]],
      <<"r14", "r15">> \o SubSeq(Reverse(Saved), 3, Len(Saved)))

\* The result goes to the top of the stack, where r15 was saved.
Restore(k) ==
  pop([k EXCEPT !.stack[1] = k.reg["rax"]], Reverse(Saved))

\* Past RIP and CS; RFLAGS; the program's stack pointer, which then moves.
Leave(k) ==
  LET j == [k EXCEPT !.stack = SubSeq(k.stack, 3, Len(k.stack))]
      i == pop(j, <<"r11">>)
  IN  [i EXCEPT !.user_rsp = Head(i.stack) + 8, !.stack = Tail(i.stack)]

syscall_entry(k, result, junk) ==
  Leave(Restore(syscall_handler(Align(Arguments(Enter(k))), result, junk)))

=============================================================================

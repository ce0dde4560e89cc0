------------------------------ MODULE LowLevel ------------------------------
(***************************************************************************)
(* How a process gets into the kernel and out of it: the exception entry   *)
(* of the processor and the handlers of kernel/lolevel.s.  Module Kernel   *)
(* takes a whole handler for one action on the registers of the process;   *)
(* this is where that comes from.                                          *)
(*                                                                         *)
(* The processor has one set of general registers, and a sp, lr and spsr   *)
(* for each mode.  An address on the stack of a mode is its distance from  *)
(* the top, in words; the stack maps one to the word it holds, or to the   *)
(* block { r0-r12, sp, lr }^ of 15 words that begins there.  A handler     *)
(* runs with interrupts masked, so its instructions are grouped: Save,     *)
(* Pass, the C function and Restore.                                       *)
(*                                                                         *)
(* Assumed: the first timer interrupt comes after the reset handler has    *)
(* returned.  hilevel_handler_rst enables interrupts while it is itself in *)
(* IRQ mode, where one would overwrite its lr and spsr.                    *)
(*                                                                         *)
(* A definition named _slip is the next one with a plausible mistake in it,*)
(* which nothing uses.                                                     *)
(***************************************************************************)
EXTENDS Integers

CONSTANTS
  Contexts,   \* what a process may have in cpsr, pc, r0, r1 and the rest
  Words,      \* what C code may leave in a register
  Addresses,  \* of instructions
  Code        \* the low 24 bits of the instruction at each

ASSUME LowLevelAssumption ==
  /\ Words \subseteq Int /\ Words # {}
  /\ Addresses \subseteq Int
  /\ Code \in [Addresses -> Int]
  /\ Contexts \subseteq [cpsr : Int, pc : Addresses, r0 : Int, r1 : Int, rest : Int]
  /\ \A c \in Contexts : c.pc - 4 \in Addresses

VARIABLES
  mode,       \* "USR", "IRQ", "SVC", or "ABT" where the other vectors lead
  at,         \* the part of the handler that comes next
  pc, cpsr,   \* those of the process, while it runs
  reg,        \* r0, r1, and the rest: r2-r12 with the user's sp and lr
  sp, lr, spsr, stack   \* of IRQ and SVC mode

vars == <<mode, at, pc, cpsr, reg, sp, lr, spsr, stack>>
-----------------------------------------------------------------------------
Modes == {"IRQ", "SVC"}

\* What lolevel_handler_irq and lolevel_handler_svc take from lr.
Correction_slip == [IRQ |-> 0, SVC |-> 0]
Correction == [IRQ |-> 4, SVC |-> 0]

\* A ctx_t at the stack pointer: cpsr, pc, and the block of registers.
Frame ==
  LET s == stack[mode]
      d == sp[mode]
  IN  [cpsr |-> s[d], pc |-> s[d - 1],
       r0 |-> s[d - 2].r0, r1 |-> s[d - 2].r1, rest |-> s[d - 2].rest]

PutFrame(c, d) ==
  [stack EXCEPT ![mode] = [@ EXCEPT
     ![d] = c.cpsr, ![d - 1] = c.pc,
     ![d - 2] = [r0 |-> c.r0, r1 |-> c.r1, rest |-> c.rest]]]

\* lolevel_handler_rst has set both stacks up, left room for a ctx_t on that
\* of IRQ mode, and calls hilevel_handler_rst.
Init ==
  /\ mode = "IRQ" /\ at = "reset"
  /\ pc = 0 /\ cpsr = 0
  /\ reg = [r0 |-> 17, r1 |-> 0, rest |-> 0]
  /\ sp = [IRQ |-> 17, SVC |-> 0]
  /\ lr = [m \in Modes |-> 0]
  /\ spsr = [m \in Modes |-> 0]
  /\ stack = [m \in Modes |-> [d \in 0 .. 17 |->
       IF d = 15 THEN [r0 |-> 0, r1 |-> 0, rest |-> 0] ELSE 0]]
-----------------------------------------------------------------------------
\* An instruction of the process.
UserStep ==
  /\ mode = "USR"
  /\ \E c \in Contexts :
       /\ pc' = c.pc /\ cpsr' = c.cpsr
       /\ reg' = [r0 |-> c.r0, r1 |-> c.r1, rest |-> c.rest]
  /\ UNCHANGED <<mode, at, sp, lr, spsr, stack>>

Enter(m) ==
  /\ mode = "USR"
  /\ mode' = m /\ at' = "save"
  /\ lr' = [lr EXCEPT ![m] = pc + 4]
  /\ spsr' = [spsr EXCEPT ![m] = cpsr]
  /\ UNCHANGED <<pc, cpsr, reg, sp, stack>>

\* An svc instruction is followed by another; an interrupt comes before the
\* instruction at pc, and it too leaves the address after that one in lr.
Trap == pc + 4 \in Addresses /\ Enter("SVC")
Interrupt == Enter("IRQ")

\* An undefined instruction or an abort: "b ." in the vector.
Abort == /\ mode = "USR"
         /\ mode' = "ABT" /\ at' = "stopped"
         /\ UNCHANGED <<pc, cpsr, reg, sp, lr, spsr, stack>>

Stopped == mode = "ABT" /\ UNCHANGED vars

\* sub lr; sub sp; stmia { r0-r12, sp, lr }^; mrs r0; stmdb { r0, lr }
Save ==
  LET back == lr[mode] - Correction[mode]
      d == sp[mode] + 17
  IN  /\ at = "save"
      /\ at' = "pass"
      /\ stack' = PutFrame([cpsr |-> spsr[mode], pc |-> back, r0 |-> reg.r0,
                            r1 |-> reg.r1, rest |-> reg.rest], d)
      /\ sp' = [sp EXCEPT ![mode] = d]
      /\ lr' = [lr EXCEPT ![mode] = back]
      /\ reg' = [reg EXCEPT !.r0 = spsr[mode]]
      /\ UNCHANGED <<mode, pc, cpsr, spsr>>

Pass_slip ==
  /\ at = "pass"
  /\ at' = "call"
  /\ reg' = [reg EXCEPT !.r0 = sp[mode], !.r1 = Code[lr[mode]]]
  /\ UNCHANGED <<mode, pc, cpsr, sp, lr, spsr, stack>>

\* mov r0, sp; ldr r1, [lr, #-4]; bic r1
Pass ==
  /\ at = "pass"
  /\ at' = "call"
  /\ reg' = [reg EXCEPT !.r0 = sp[mode], !.r1 = Code[lr[mode] - 4]]
  /\ UNCHANGED <<mode, pc, cpsr, sp, lr, spsr, stack>>

\* The C function leaves one of contexts at its argument, and anything in lr
\* and the general registers.
Handler(contexts) ==
  /\ at' = "restore"
  /\ \E c \in contexts : stack' = PutFrame(c, sp[mode])
  /\ \E w \in Words : /\ reg' = [r0 |-> w, r1 |-> w, rest |-> w]
                      /\ lr' = [lr EXCEPT ![mode] = w]
  /\ UNCHANGED <<mode, pc, cpsr, sp, spsr>>

\* hilevel_handler_rst loads the console; the others let the process go on
\* with what they return, or load another.
Reset == at = "reset" /\ Handler(Contexts)
Handle == at = "call" /\ Handler(Contexts \cup {Frame})

\* add sp forgotten.
Restore_slip ==
  /\ at = "restore"
  /\ at' = "user" /\ mode' = "USR"
  /\ pc' = Frame.pc /\ cpsr' = Frame.cpsr
  /\ reg' = [r0 |-> Frame.r0, r1 |-> Frame.r1, rest |-> Frame.rest]
  /\ lr' = [lr EXCEPT ![mode] = Frame.pc]
  /\ spsr' = [spsr EXCEPT ![mode] = Frame.cpsr]
  /\ sp' = [sp EXCEPT ![mode] = @ - 2]
  /\ UNCHANGED stack

\* ldmia { r0, lr }; msr spsr; ldmia { r0-r12, sp, lr }^; add sp; movs pc, lr
Restore ==
  /\ at = "restore"
  /\ at' = "user" /\ mode' = "USR"
  /\ pc' = Frame.pc /\ cpsr' = Frame.cpsr
  /\ reg' = [r0 |-> Frame.r0, r1 |-> Frame.r1, rest |-> Frame.rest]
  /\ lr' = [lr EXCEPT ![mode] = Frame.pc]
  /\ spsr' = [spsr EXCEPT ![mode] = Frame.cpsr]
  /\ sp' = [sp EXCEPT ![mode] = @ - 17]
  /\ UNCHANGED stack

Next == \/ Reset \/ UserStep \/ Trap \/ Interrupt \/ Abort \/ Stopped
        \/ Save \/ Pass \/ Handle \/ Restore

Spec == Init /\ [][Next]_vars
-----------------------------------------------------------------------------
\* The state has the shape of the machine's.
TypeOK ==
  /\ mode \in {"USR", "ABT"} \cup Modes
  /\ at \in CASE mode = "USR" -> {"user"}
              [] mode = "ABT" -> {"stopped"}
              [] OTHER -> {"reset", "save", "pass", "call", "restore"}
  /\ pc \in Int /\ cpsr \in Int
  /\ reg \in [r0 : Int, r1 : Int, rest : Int]
  /\ sp \in [Modes -> 0 .. 17]
  /\ lr \in [Modes -> Int]
  /\ spsr \in [Modes -> Int]

\* Where the registers of the process are now.  An interrupt leaves the address
\* of the next instruction but one in lr, an svc that of the next.
Ctx ==
  LET Regs(c, p) == [cpsr |-> c, pc |-> p,
                     r0 |-> reg.r0, r1 |-> reg.r1, rest |-> reg.rest]
  IN  IF mode \notin Modes THEN Regs(cpsr, pc)
      ELSE IF at = "save"
      THEN Regs(spsr[mode], lr[mode] - IF mode = "IRQ" THEN 4 ELSE 0)
      ELSE Frame

\* Whatever the way in and the way out, the stacks of the kernel are empty while
\* a process runs: no sequence of interrupts and system calls runs one into its
\* neighbour (the sub and add of sp in lolevel.s).
Balanced == mode \in {"USR", "ABT"} => \A m \in Modes : sp[m] = 0

\* The C function gets the address of the context, and the operand of the
\* svc instruction the process has just executed, even where the handlers
\* before it have returned to another process (lolevel.s:59-61).
Passed ==
  at = "call" => /\ reg.r0 = sp[mode]
                 /\ mode = "SVC" => reg.r1 = Code[Ctx.pc - 4]

\* Only an instruction of the process, and a C function through the context it
\* is given, change the registers of the process: an interrupt, an svc and the
\* way back lose none of them, and the process resumes at the instruction it
\* was interrupted at, or after its svc.
Transparent ==
  [][\/ UserStep
     \/ at \in {"reset", "call"}
     \/ Ctx' = IF mode = "USR" /\ mode' = "SVC" THEN [Ctx EXCEPT !.pc = @ + 4]
               ELSE Ctx]_vars
=============================================================================

--------------------------- MODULE LowLevelProofs ---------------------------
(***************************************************************************)
(* What the low level promises to the rest of the kernel, for any contexts,*)
(* any code and any addresses.  The argument is one inductive invariant:   *)
(* a stack is empty except for the one frame of the handler that runs, and *)
(* that frame has the types of a context.                                  *)
(***************************************************************************)
EXTENDS LowLevel, TLAPS

Block == [r0 : Int, r1 : Int, rest : Int]
Context == [cpsr : Int, pc : Int, r0 : Int, r1 : Int, rest : Int]
InFrame == {"reset", "pass", "call", "restore"}

\* The memory of the stacks: what a cell holds does not matter before it is
\* written.
Memory ==
  /\ stack = [m \in Modes |-> stack[m]]
  /\ \A m \in Modes : stack[m] = [d \in 0 .. 17 |-> stack[m][d]]

Framed ==
  /\ sp = [m \in Modes |-> IF m = mode /\ at # "save" THEN 17 ELSE 0]
  /\ at \in InFrame => /\ stack[mode][17] \in Int
                       /\ stack[mode][16] \in Int
                       /\ stack[mode][15] \in Block
  /\ at = "pass" => lr[mode] = stack[mode][16]

\* There are instructions at pc and before it: an interrupt takes the one
\* before for its operand.
Located ==
  at # "reset" => Ctx.pc \in Addresses /\ Ctx.pc - 4 \in Addresses

IInv == TypeOK /\ Memory /\ Framed /\ Located /\ Passed

USE LowLevelAssumption DEF Modes
-----------------------------------------------------------------------------
\* A frame that is put at the stack pointer is the one found there.
LEMMA FrameThere ==
  ASSUME NEW c, Memory, Memory', mode \in Modes, mode' = mode, sp'[mode] = 17,
         c = [cpsr |-> c.cpsr, pc |-> c.pc, r0 |-> c.r0, r1 |-> c.r1,
              rest |-> c.rest],
         stack' = PutFrame(c, 17)
  PROVE  Frame' = c
<1>1. /\ stack'[mode][17] = c.cpsr
      /\ stack'[mode][16] = c.pc
      /\ stack'[mode][15] = [r0 |-> c.r0, r1 |-> c.r1, rest |-> c.rest]
  BY DEF Memory, PutFrame
<1> QED
  BY <1>1 DEF Frame

\* The types of a frame, in the cells.
LEMMA FrameTyped ==
  ASSUME IInv, at \in InFrame
  PROVE  /\ sp[mode] = 17 /\ mode \in Modes
         /\ Frame \in Context
         /\ Frame = [cpsr |-> Frame.cpsr, pc |-> Frame.pc, r0 |-> Frame.r0,
                     r1 |-> Frame.r1, rest |-> Frame.rest]
<1>1. mode \in Modes
  BY DEF IInv, TypeOK, InFrame
<1>2. sp[mode] = 17
  BY <1>1 DEF IInv, Framed, InFrame
<1> QED
  BY <1>1, <1>2 DEF IInv, Framed, Frame, Context, Block

LEMMA InitIInv == Init => IInv
<1> SUFFICES ASSUME Init PROVE IInv
  OBVIOUS
<1>1. TypeOK /\ Memory /\ Framed
  BY DEF Init, TypeOK, Memory, Framed, Block, InFrame
<1> QED
  BY <1>1 DEF Init, IInv, Passed, Located

LEMMA UserIInv ==
  ASSUME IInv, UserStep
  PROVE  IInv'
<1> PICK c \in Contexts :
      /\ pc' = c.pc /\ cpsr' = c.cpsr
      /\ reg' = [r0 |-> c.r0, r1 |-> c.r1, rest |-> c.rest]
  BY DEF UserStep
<1>1. c \in [cpsr : Int, pc : Addresses, r0 : Int, r1 : Int, rest : Int]
  OBVIOUS
<1>2. mode = "USR" /\ UNCHANGED <<mode, at, sp, lr, spsr, stack>> /\ at = "user"
  BY DEF UserStep, IInv, TypeOK
<1>3. TypeOK'
  BY <1>1, <1>2 DEF IInv, TypeOK
<1>4. Memory' /\ Framed' /\ Passed'
  BY <1>2 DEF IInv, Memory, Framed, Passed, InFrame
<1>5. Located'
  BY <1>1, <1>2 DEF Located, Ctx
<1> QED
  BY <1>3, <1>4, <1>5 DEF IInv

\* The exception itself leaves the registers where the handler finds them.
LEMMA EnterCtx ==
  ASSUME IInv, NEW m \in Modes, Enter(m)
  PROVE  Ctx' = IF m = "SVC" THEN [Ctx EXCEPT !.pc = @ + 4] ELSE Ctx
<1>1. /\ mode = "USR" /\ mode' = m /\ at' = "save" /\ reg' = reg
      /\ spsr'[m] = cpsr /\ lr'[m] = pc + 4 /\ pc \in Int
  BY DEF Enter, IInv, TypeOK
<1>2. Ctx = [cpsr |-> cpsr, pc |-> pc,
             r0 |-> reg.r0, r1 |-> reg.r1, rest |-> reg.rest]
  BY <1>1 DEF Ctx
<1>3. Ctx' = [cpsr |-> cpsr, pc |-> IF m = "IRQ" THEN (pc + 4) - 4 ELSE (pc + 4) - 0,
              r0 |-> reg.r0, r1 |-> reg.r1, rest |-> reg.rest]
  BY <1>1 DEF Ctx
<1> QED
  BY <1>1, <1>2, <1>3

LEMMA EnterIInv ==
  ASSUME IInv, NEW m \in Modes, Enter(m),
         m = "SVC" => pc + 4 \in Addresses
  PROVE  IInv'
<1>1. at' = "save" /\ mode' = m /\ mode = "USR" /\ pc \in Int /\ at = "user"
  BY DEF Enter, IInv, TypeOK
<1>2. TypeOK'
  BY DEF Enter, IInv, TypeOK
<1>3. Memory'
  BY DEF Enter, IInv, Memory
<1>4. Framed' /\ Passed'
  BY <1>1 DEF Enter, IInv, Framed, Passed, InFrame
<1>5. Located'
  <2>1. Ctx.pc = pc /\ pc \in Addresses /\ pc - 4 \in Addresses
    BY <1>1 DEF Ctx, IInv, Located
  <2>2. Ctx'.pc = IF m = "SVC" THEN pc + 4 ELSE pc
    BY <1>1, <2>1, EnterCtx DEF Ctx
  <2> QED
    BY <1>1, <2>1, <2>2 DEF Located
<1> QED
  BY <1>2, <1>3, <1>4, <1>5 DEF IInv

\* What Save puts on the stack.
LEMMA SaveFrame ==
  ASSUME IInv, Save
  PROVE  /\ mode \in Modes /\ mode' = mode /\ at = "save"
         /\ Ctx \in Context
         /\ stack' = PutFrame(Ctx, 17)
         /\ sp' = [m \in Modes |-> IF m = mode THEN 17 ELSE 0]
         /\ lr' = [lr EXCEPT ![mode] = Ctx.pc]
         /\ spsr[mode] \in Int /\ reg' = [reg EXCEPT !.r0 = spsr[mode]]
<1>1. mode \in Modes /\ sp[mode] = 0 /\ mode' = mode /\ at = "save"
  BY DEF IInv, TypeOK, Framed, Save
<1>2. Correction[mode] = IF mode = "IRQ" THEN 4 ELSE 0
  BY <1>1 DEF Correction
<1>3. Ctx = [cpsr |-> spsr[mode], pc |-> lr[mode] - Correction[mode],
             r0 |-> reg.r0, r1 |-> reg.r1, rest |-> reg.rest]
  BY <1>1, <1>2 DEF Ctx
<1>4. Ctx \in Context
  BY <1>1, <1>2, <1>3 DEF IInv, TypeOK, Context
<1>5. stack' = PutFrame(Ctx, 17) /\ lr' = [lr EXCEPT ![mode] = Ctx.pc]
  BY <1>1, <1>3 DEF Save
<1>6. sp' = [m \in Modes |-> IF m = mode THEN 17 ELSE 0]
  <2>1. sp = [m \in Modes |-> 0] /\ sp' = [sp EXCEPT ![mode] = 17]
    BY <1>1 DEF IInv, Framed, Save
  <2> QED
    BY <2>1
<1> QED
  BY <1>1, <1>4, <1>5, <1>6 DEF Save, IInv, TypeOK

\* A context put in the frame, by Save or by the C function.
LEMMA PutIInv ==
  ASSUME IInv, NEW c \in Context, mode \in Modes, mode' = mode,
         stack' = PutFrame(c, 17),
         sp' = [m \in Modes |-> IF m = mode THEN 17 ELSE 0],
         at' \in {"pass", "restore"}
  PROVE  /\ Memory' /\ Ctx' = c
         /\ stack'[mode][17] \in Int /\ stack'[mode][16] = c.pc /\ c.pc \in Int
         /\ stack'[mode][15] \in Block
<1>1. Memory'
  BY DEF IInv, Memory, PutFrame
<1>2. c = [cpsr |-> c.cpsr, pc |-> c.pc, r0 |-> c.r0, r1 |-> c.r1,
           rest |-> c.rest]
  BY DEF Context
<1>3. Frame' = c
  BY <1>1, <1>2, FrameThere DEF IInv
<1>4. Ctx' = c
  BY <1>3 DEF Ctx
<1>5. /\ stack'[mode][17] = c.cpsr
      /\ stack'[mode][16] = c.pc
      /\ stack'[mode][15] = [r0 |-> c.r0, r1 |-> c.r1, rest |-> c.rest]
  BY DEF IInv, Memory, PutFrame
<1> QED
  BY <1>1, <1>4, <1>5 DEF Context, Block

LEMMA SaveIInv ==
  ASSUME IInv, Save
  PROVE  IInv' /\ Ctx' = Ctx
<1> USE SaveFrame
<1>1. UNCHANGED <<mode, pc, cpsr, spsr>> /\ at' = "pass"
  BY DEF Save
<1>2. /\ Memory' /\ Ctx' = Ctx
      /\ stack'[mode][17] \in Int /\ stack'[mode][16] = Ctx.pc /\ Ctx.pc \in Int
      /\ stack'[mode][15] \in Block
  BY <1>1, PutIInv
<1>3. TypeOK'
  BY <1>1, <1>2 DEF IInv, TypeOK
<1>4. lr'[mode] = Ctx.pc
  BY DEF IInv, TypeOK
<1>5. Framed'
  BY <1>1, <1>2, <1>4 DEF Framed, InFrame
<1>6. Located'
  BY <1>1, <1>2 DEF IInv, Located
<1> QED
  BY <1>1, <1>2, <1>3, <1>5, <1>6 DEF IInv, Passed

LEMMA PassIInv ==
  ASSUME IInv, Pass
  PROVE  IInv' /\ Ctx' = Ctx
<1>1. sp[mode] = 17 /\ mode \in Modes /\ Ctx = Frame /\ Frame.pc = lr[mode]
  <2>1. sp[mode] = 17 /\ mode \in Modes
    BY FrameTyped DEF Pass, InFrame
  <2> QED
    BY <2>1 DEF IInv, Framed, Frame, Pass, Ctx
<1>2. UNCHANGED <<mode, pc, cpsr, sp, lr, spsr, stack>> /\ at = "pass" /\ at' = "call"
  BY DEF Pass
<1>3. Frame' = Frame /\ Ctx' = Frame
  BY <1>1, <1>2 DEF Frame, Ctx
<1>4. Code[lr[mode] - 4] \in Int
  BY <1>1, <1>2 DEF IInv, Located
<1>5. TypeOK'
  <2>1. reg \in Block /\ sp[mode] \in Int
    BY <1>1 DEF IInv, TypeOK, Block
  <2>2. reg' = [r0 |-> sp[mode], r1 |-> Code[lr[mode] - 4], rest |-> reg.rest]
    BY <2>1 DEF Pass, Block
  <2>3. reg' \in Block
    BY <1>4, <2>1, <2>2 DEF Block
  <2> QED
    BY <1>1, <1>2, <2>3 DEF IInv, TypeOK, Block
<1>6. Memory' /\ Framed'
  BY <1>2 DEF IInv, Memory, Framed, InFrame
<1>7. Passed' /\ Located'
  BY <1>1, <1>2, <1>3 DEF Pass, Passed, Located, IInv, TypeOK
<1> QED
  BY <1>1, <1>3, <1>5, <1>6, <1>7 DEF IInv

LEMMA HandlerIInv ==
  ASSUME IInv, NEW contexts, Handler(contexts), at \in {"reset", "call"},
         \A c \in contexts : /\ c \in Context
                             /\ c.pc \in Addresses /\ c.pc - 4 \in Addresses
  PROVE  IInv'
<1>1. sp[mode] = 17 /\ mode \in Modes
  BY FrameTyped DEF InFrame
<1>2. PICK c \in contexts : stack' = PutFrame(c, 17)
  BY <1>1 DEF Handler
<1>3. PICK w \in Words : /\ reg' = [r0 |-> w, r1 |-> w, rest |-> w]
                         /\ lr' = [lr EXCEPT ![mode] = w]
  BY DEF Handler
<1>4. UNCHANGED <<mode, pc, cpsr, sp, spsr>> /\ at' = "restore"
  BY DEF Handler
<1>5. sp' = [m \in Modes |-> IF m = mode THEN 17 ELSE 0]
  BY <1>4 DEF IInv, Framed
<1>6. /\ Memory' /\ Ctx' = c
      /\ stack'[mode][17] \in Int /\ stack'[mode][16] = c.pc /\ c.pc \in Int
      /\ stack'[mode][15] \in Block
  BY <1>1, <1>2, <1>4, <1>5, PutIInv
<1>7. TypeOK'
  BY <1>1, <1>3, <1>4 DEF IInv, TypeOK
<1>8. Framed'
  BY <1>4, <1>5, <1>6 DEF Framed, InFrame
<1> QED
  BY <1>4, <1>6, <1>7, <1>8 DEF IInv, Passed, Located

LEMMA RestoreIInv ==
  ASSUME IInv, Restore
  PROVE  IInv' /\ Ctx' = Ctx
<1>1. /\ sp[mode] = 17 /\ mode \in Modes /\ Frame \in Context
      /\ Frame = [cpsr |-> Frame.cpsr, pc |-> Frame.pc, r0 |-> Frame.r0,
                  r1 |-> Frame.r1, rest |-> Frame.rest]
  BY FrameTyped DEF Restore, InFrame
<1>2. Ctx = Frame
  BY <1>1 DEF Ctx, Restore
<1>3. Ctx' = Frame
  BY <1>1 DEF Ctx, Restore
<1>4. sp' = [m \in Modes |-> 0]
  <2>1. sp = [m \in Modes |-> IF m = mode THEN 17 ELSE 0]
    BY <1>1 DEF IInv, Framed, Restore
  <2>2. sp' = [sp EXCEPT ![mode] = 0]
    BY <1>1, <2>1 DEF Restore
  <2> QED
    BY <2>1, <2>2
<1>5. TypeOK'
  BY <1>1, <1>4 DEF IInv, TypeOK, Restore, Context
<1>6. Memory' /\ Framed' /\ Passed'
  BY <1>1, <1>4 DEF IInv, Memory, Framed, Passed, Restore, InFrame
<1>7. Located'
  BY <1>2, <1>3 DEF IInv, Located, Restore
<1> QED
  BY <1>2, <1>3, <1>5, <1>6, <1>7 DEF IInv
-----------------------------------------------------------------------------
LEMMA NextIInv == IInv /\ [Next]_vars => IInv'
<1> SUFFICES ASSUME IInv, [Next]_vars PROVE IInv'
  OBVIOUS
<1>1. \A c \in Contexts : /\ c \in Context
                          /\ c.pc \in Addresses /\ c.pc - 4 \in Addresses
  BY DEF Context
<1>2. CASE Reset
  BY <1>1, <1>2, HandlerIInv DEF Reset
<1>3. CASE UserStep
  BY <1>3, UserIInv
<1>4. CASE Trap
  BY <1>4, EnterIInv DEF Trap
<1>5. CASE Interrupt
  BY <1>5, EnterIInv DEF Interrupt
<1>6. CASE Abort
  <2>1. mode = "USR" /\ at = "user" /\ mode' = "ABT" /\ at' = "stopped"
    BY <1>6 DEF Abort, IInv, TypeOK
  <2>2. TypeOK' /\ Memory' /\ Framed' /\ Passed'
    BY <1>6, <2>1 DEF Abort, IInv, TypeOK, Memory, Framed, Passed, InFrame
  <2>3. Located'
    BY <1>6, <2>1 DEF Abort, IInv, Located, Ctx
  <2> QED
    BY <2>2, <2>3 DEF IInv
<1>7. CASE Save
  BY <1>7, SaveIInv
<1>8. CASE Pass
  BY <1>8, PassIInv
<1>9. CASE Handle
  <2>1. Frame \in Context /\ Frame = Ctx
    BY <1>9, FrameTyped DEF Handle, InFrame, Ctx
  <2>2. Frame.pc \in Addresses /\ Frame.pc - 4 \in Addresses
    BY <1>9, <2>1 DEF Handle, IInv, Located
  <2> QED
    BY <1>1, <1>9, <2>1, <2>2, HandlerIInv DEF Handle
<1>10. CASE Restore
  BY <1>10, RestoreIInv
<1>11. CASE UNCHANGED vars
  BY <1>11 DEF IInv, TypeOK, Memory, Framed, Located, Passed, Ctx, Frame,
               InFrame, vars
<1> QED
  BY <1>2, <1>3, <1>4, <1>5, <1>6, <1>7, <1>8, <1>9, <1>10, <1>11
     DEF Next, Stopped

LEMMA Invariant == Spec => []IInv
  BY InitIInv, NextIInv, PTL DEF Spec

\* The state of the machine keeps its shape.
THEOREM Typed == Spec => []TypeOK
<1>1. IInv => TypeOK
  BY DEF IInv
<1> QED
  BY <1>1, Invariant, PTL

\* No sequence of interrupts and system calls, however long, leaves anything
\* on the stacks of the kernel (lolevel.s).
THEOREM StacksBalanced == Spec => []Balanced
<1>1. IInv => Balanced
  BY DEF IInv, Framed, Balanced
<1> QED
  BY <1>1, Invariant, PTL

\* The operand the C function gets is that of the svc the process executed.
THEOREM OperandPassed == Spec => []Passed
<1>1. IInv => Passed
  BY DEF IInv
<1> QED
  BY <1>1, Invariant, PTL

\* The way in and the way out lose no register of the process.
THEOREM RegistersKept == Spec => Transparent
<1> DEFINE Kept == \/ UserStep
                   \/ at \in {"reset", "call"}
                   \/ Ctx' = IF mode = "USR" /\ mode' = "SVC"
                             THEN [Ctx EXCEPT !.pc = @ + 4] ELSE Ctx
<1>1. IInv /\ [Next]_vars => [Kept]_vars
  <2> SUFFICES ASSUME IInv, Next PROVE Kept
    OBVIOUS
  <2>1. CASE Reset \/ Handle
    BY <2>1 DEF Reset, Handle
  <2>2. CASE Trap \/ Interrupt
    BY <2>2, EnterCtx DEF Trap, Interrupt, Enter
  <2>3. CASE Abort \/ Stopped
    <3>1. /\ mode \notin Modes /\ mode' = "ABT"
          /\ UNCHANGED <<pc, cpsr, reg, lr, spsr>>
      BY <2>3 DEF Abort, Stopped, vars
    <3> QED
      BY <3>1 DEF Ctx
  <2>4. CASE Save \/ Pass \/ Restore
    <3>1. Ctx' = Ctx
      BY <2>4, SaveIInv, PassIInv, RestoreIInv
    <3>2. mode # "USR"
      BY <2>4 DEF Save, Pass, Restore, IInv, TypeOK
    <3> QED
      BY <3>1, <3>2
  <2> QED
    BY <2>1, <2>2, <2>3, <2>4 DEF Next
<1> QED
  BY <1>1, Invariant, PTL DEF Spec, Transparent
=============================================================================

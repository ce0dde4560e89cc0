------------------------------- MODULE Kernel -------------------------------
(***************************************************************************)
(* The process side of the kernel of kernel/hilevel.c: the table of        *)
(* process control blocks, the scheduler, and the system calls that create,*)
(* replace, end and switch processes.                                      *)
(*                                                                         *)
(* Handlers run in SVC or IRQ mode with IRQs masked (lolevel.s), so every  *)
(* handler is one atomic action; preemption happens between them, as the   *)
(* action TimerIRQ.  The C globals keep their names.  An array of pcb_t is *)
(* one function per field: status, age, base_priority, stack_top, pid and  *)
(* saved (pcb[i].ctx).  ctx is the live register file that lolevel.s hands *)
(* to the handler by address and restores from afterwards.                 *)
(*                                                                         *)
(* A register file keeps what can go wrong: pc (the program image it runs),*)
(* sp, and r0 (gpr[0], the result the last system call left).  A stack is  *)
(* one token in mem, indexed by the address of its top.                    *)
(*                                                                         *)
(* A definition named _slip is the next one with a plausible mistake in it;*)
(* the specification never uses it.                                        *)
(***************************************************************************)
EXTENDS Integers, FiniteSets

CONSTANTS
  NUM_PCBS,     \* length of pcb[] (32 in the code)
  Images,       \* entry points that load() or W.c pass to exec
  Priority,     \* Images -> the base priority exec gives the image
  Console,      \* the image main_console
  NULL,         \* the pc of a register file that was never written
  AGE_MOD,      \* ages are uint32_t: AGE_MOD is 2^32
  STACK_SIZE,   \* bytes per stack (0x1000 in the code)
  TOS_CONSOLE,  \* address of the linker symbol tos_console
  Lengths,      \* byte counts passed to write
  Depths,       \* how far below its stack top a program's sp may be
  Contents,     \* what a stack may hold
  Blank         \* the content memset(.., 0, ..) leaves

(***************************************************************************)
(* image.ld reserves NUM_PCBS stacks above tos_console; tos_procs is the   *)
(* end of that region.  &tos_procs is a uint32_t*, so adding               *)
(* free_pid * STACK_SIZE to it moves by 4 * STACK_SIZE bytes per process.  *)
(***************************************************************************)
TOS_PROCS == TOS_CONSOLE + NUM_PCBS * STACK_SIZE
StackTop_slip(p) == TOS_PROCS + p
StackTop(p) == TOS_PROCS + p * (4 * STACK_SIZE)

Pids == 0 .. NUM_PCBS - 1

\* The largest base priority any process can have (the console's is 1).
MaxBase == CHOOSE m \in {1} \cup {Priority[i] : i \in Images} :
              \A i \in Images : Priority[i] <= m

ASSUME KernelAssumption ==
  /\ NUM_PCBS \in Nat \ {0}
  /\ Console \notin Images
  /\ NULL \notin Images \cup {Console}
  /\ Priority \in [Images -> Nat \ {0}]
  /\ MaxBase \in Nat /\ 1 <= MaxBase /\ \A i \in Images : Priority[i] <= MaxBase
  /\ STACK_SIZE \in Nat \ {0}
  /\ TOS_CONSOLE \in Nat \ {0}
  /\ AGE_MOD \in Nat /\ AGE_MOD > NUM_PCBS + MaxBase
  /\ Lengths \subseteq Int
  /\ Depths \subseteq 0 .. STACK_SIZE
  /\ 0 \in Depths
  /\ Blank \in Contents

VARIABLES
  tail_pid,        \* pid of the last PCB in use
  executing,       \* pid of the PCB being executed
  progs_running,   \* how many programs the kernel believes it runs
  scheduler_mode,  \* "ROUND_ROBIN" or "PRIORITY"
  pid,             \* pcb[i].pid
  status,          \* pcb[i].status
  age,             \* pcb[i].age
  base_priority,   \* pcb[i].base_priority
  stack_top,       \* pcb[i].stack_top
  saved,           \* pcb[i].ctx
  ctx,             \* the live register file
  mem              \* contents of the stack below each stack top

table == <<tail_pid, pid, base_priority, stack_top>>
vars == <<tail_pid, executing, progs_running, scheduler_mode, pid, status, age,
          base_priority, stack_top, saved, ctx, mem>>

Alive == {"READY", "EXECUTING"}
InUse == {i \in Pids : i <= tail_pid}
LiveIn(st) == {i \in InUse : st[i] \in Alive}
Live == LiveIn(status)

\* Address 0 is what stack_top holds in a PCB that memset has cleared.
Tops == {0, TOS_CONSOLE} \cup {StackTop(p) : p \in Pids}

Contexts == [pc : Images \cup {Console, NULL}, sp : Int, r0 : Int]

ZeroContext == [pc |-> NULL, sp |-> 0, r0 |-> 0]
BootContext == [pc |-> Console, sp |-> TOS_CONSOLE, r0 |-> 0]

-----------------------------------------------------------------------------
(***************************************************************************)
(* hilevel_handler_rst: one PCB, the console's, executing.  The other PCBs *)
(* are zero, and a zero status is STATUS_READY.                            *)
(***************************************************************************)
Init ==
  /\ tail_pid = 0
  /\ executing = 0
  /\ progs_running = 1
  /\ scheduler_mode = "PRIORITY"
  /\ pid = [p \in Pids |-> 0]
  /\ status = [p \in Pids |-> IF p = 0 THEN "EXECUTING" ELSE "READY"]
  /\ age = [p \in Pids |-> 0]
  /\ base_priority = [p \in Pids |-> IF p = 0 THEN 1 ELSE 0]
  /\ stack_top = [p \in Pids |-> IF p = 0 THEN TOS_CONSOLE ELSE 0]
  /\ saved = [p \in Pids |-> IF p = 0 THEN BootContext ELSE ZeroContext]
  /\ ctx = BootContext
  /\ mem = [t \in Tops |-> Blank]

-----------------------------------------------------------------------------
(***************************************************************************)
(* The scheduler.                                                          *)
(***************************************************************************)

\* The sum cannot wrap and fits the int it is assigned to: see AgeBound.
get_priority(p) == age[p] + base_priority[p]

\* p goes before q: higher priority, or the same one and a lower index.
Before(p, q) ==
  \/ get_priority(p) > get_priority(q)
  \/ get_priority(p) = get_priority(q) /\ p <= q

\* The loop keeps the first PCB of highest priority, and 0 if none is alive.
\* SchedulerLoops checks that the loop computes this.
find_next_proc_slip(alive) ==
  IF alive = {} THEN 0
  ELSE CHOOSE p \in alive :
         \A q \in alive : get_priority(p) > get_priority(q)
                           \/ (get_priority(p) = get_priority(q) /\ p >= q)
find_next_proc(alive) ==
  IF alive = {} THEN 0
  ELSE CHOOSE p \in alive : \A q \in alive : Before(p, q)

\* The first live PCB above the executing one, and 0 if there is none.
next_alive_prog(alive) ==
  LET above == {p \in alive : p > executing}
  IN  IF above = {} THEN 0 ELSE CHOOSE p \in above : \A q \in above : p <= q

\* age++ on a uint32_t.
Older_slip(a) == a
Older(a) == IF a + 1 = AGE_MOD THEN 0 ELSE a + 1

\* The inner "pid_t next_proc" of the ROUND_ROBIN branch hides the outer one,
\* which keeps its initial 0.
Choice(alive) == IF scheduler_mode = "PRIORITY" THEN find_next_proc(alive) ELSE 0

(***************************************************************************)
(* scheduler( ctx ) as called with status st, n programs running and       *)
(* registers c: those are what the handler has computed so far.            *)
(***************************************************************************)
Marked_slip(next, st) == [st EXCEPT ![next] = "EXECUTING"]
Marked(next, st) ==
  LET left == IF st[executing] = "TERMINATED" THEN "TERMINATED" ELSE "READY"
  IN  [st EXCEPT ![executing] = left, ![next] = "EXECUTING"]

\* update_ages, then the reset of the age of the PCB switched to.
Aged == [p \in Pids |-> IF p \in InUse /\ scheduler_mode = "PRIORITY"
                       THEN Older(age[p]) ELSE age[p]]
Ages_slip(next) == Aged
Ages(next) == [Aged EXCEPT ![next] = 0]

SwitchTo_slip(next, st, c) ==
  /\ saved' = [saved EXCEPT ![next] = c]
  /\ ctx' = saved[next]
  /\ status' = Marked(next, st)
  /\ age' = Ages(next)
  /\ executing' = next
SwitchTo(next, st, c) ==
  /\ saved' = [saved EXCEPT ![executing] = c]
  /\ ctx' = saved'[next]
  /\ status' = Marked(next, st)
  /\ age' = Ages(next)
  /\ executing' = next

scheduler(st, n, c) ==
  /\ progs_running' = n
  /\ UNCHANGED <<table, scheduler_mode, mem>>
  /\ \/ /\ n > 1
        /\ SwitchTo(Choice(LiveIn(st)), st, c)
     \/ /\ n <= 1
        /\ status' = st
        /\ ctx' = c
        /\ UNCHANGED <<executing, age, saved>>

-----------------------------------------------------------------------------
(***************************************************************************)
(* Handlers.  r0 is set before the scheduler copies the registers away, so *)
(* a result reaches the process that made the call.                        *)
(***************************************************************************)
Result(r) == [ctx EXCEPT !.r0 = r]

\* The timer interrupt (the only source the kernel enables).
TimerIRQ == scheduler(status, progs_running, ctx)

Yield == scheduler(status, progs_running, ctx)

\* --progs_running, but never below 1.
OneLess_slip == progs_running - 1
OneLess == IF progs_running - 1 < 1 THEN 1 ELSE progs_running - 1

Exit_slip ==
  scheduler([status EXCEPT ![executing] = "TERMINATED"], progs_running, ctx)
Exit == scheduler([status EXCEPT ![executing] = "TERMINATED"], OneLess, ctx)

\* kill(): any PCB that is not TERMINATED counts as a process, one beyond
\* tail_pid included.
Kill(p) ==
  \/ /\ status[p] \in Alive
     /\ scheduler([status EXCEPT ![p] = "TERMINATED"], OneLess, Result(1))
  \/ /\ status[p] \notin Alive
     /\ ctx' = Result(-1)
     /\ UNCHANGED <<table, executing, progs_running, scheduler_mode, status, age,
                    saved, mem>>

Exec(image) ==
  /\ ctx' = [ctx EXCEPT !.pc = image, !.sp = stack_top[executing]]
  /\ base_priority' = [base_priority EXCEPT ![executing] = Priority[image]]
  /\ mem' = [mem EXCEPT ![stack_top[executing]] = Blank]
  /\ age' = [age EXCEPT ![executing] = 0]
  /\ UNCHANGED <<tail_pid, executing, progs_running, scheduler_mode, pid, status,
                 stack_top, saved>>

\* find_empty_pcb finds the first TERMINATED PCB.
Empty == {i \in InUse : status[i] = "TERMINATED"}
find_empty_pcb == CHOOSE p \in Empty : \A q \in Empty : p <= q

(***************************************************************************)
(* The rest of fork() once free is chosen.  memset clears stack_top[free]  *)
(* before the stack is copied, so the copy lands below address 0; the      *)
(* stack offset is taken from the parent's saved sp, not from its live one.*)
(***************************************************************************)
Cleared(free) == [stack_top EXCEPT ![free] = 0]

ChildContext_slip(free) == [ctx EXCEPT !.r0 = 0]
ChildContext(free) ==
  LET copied == [saved EXCEPT ![free] = ctx]
      sp_offset == Cleared(free)[executing] - copied[executing].sp
  IN  [ctx EXCEPT !.sp = StackTop(free) - sp_offset, !.r0 = 0]

\* The parent is set aside with the child's pid as its result.
Paused_slip(free) == [saved EXCEPT ![free] = ChildContext(free), ![executing] = ctx]
Paused(free) ==
  [saved EXCEPT ![free] = ChildContext(free), ![executing] = Result(free)]

ForkInto(free) ==
  /\ mem' = [mem EXCEPT ![Cleared(free)[free]] = mem[Cleared(free)[executing]]]
  /\ stack_top' = [stack_top EXCEPT ![free] = StackTop(free)]
  /\ pid' = [pid EXCEPT ![free] = free]
  /\ age' = [age EXCEPT ![free] = 0]
  /\ base_priority' = [base_priority EXCEPT ![free] = 0]
  /\ saved' = Paused(free)
  /\ ctx' = saved'[free]
  /\ status' = [status EXCEPT ![executing] = "READY", ![free] = "EXECUTING"]
  /\ executing' = free
  /\ progs_running' = progs_running + 1
  /\ UNCHANGED scheduler_mode

Fork ==
  \/ /\ Empty # {}
     /\ ForkInto(find_empty_pcb)
     /\ UNCHANGED tail_pid
  \/ /\ Empty = {}
     /\ tail_pid + 1 \in Pids
     /\ ForkInto(tail_pid + 1)
     /\ tail_pid' = tail_pid + 1

(***************************************************************************)
(* fork() with the table full: ++tail_pid is not checked, and the handler  *)
(* writes pcb[NUM_PCBS], which is outside the array.  What memory holds    *)
(* afterwards is undefined, so the model records the index and stops.      *)
(***************************************************************************)
ForkBeyondTable ==
  /\ Empty = {}
  /\ tail_pid + 1 \notin Pids
  /\ tail_pid' = tail_pid + 1
  /\ UNCHANGED <<executing, progs_running, scheduler_mode, pid, status, age,
                 base_priority, stack_top, saved, ctx, mem>>

GetPid ==
  /\ ctx' = Result(pid[executing])
  /\ UNCHANGED <<table, executing, progs_running, scheduler_mode, status, age, saved, mem>>

\* The bytes go to UART0, which the model leaves out.
Write(n) ==
  /\ ctx' = Result(n)
  /\ UNCHANGED <<table, executing, progs_running, scheduler_mode, status, age, saved, mem>>

SwitchSched(mode) ==
  /\ scheduler_mode' = CASE mode = 1 -> "ROUND_ROBIN"
                         [] mode = 2 -> "PRIORITY"
                         [] OTHER -> scheduler_mode
  /\ UNCHANGED <<table, executing, progs_running, status, age, saved, ctx, mem>>

\* The executing program calls and returns within its own stack, and leaves
\* something there.
UserStep(depth, content) ==
  /\ ctx' = [ctx EXCEPT !.sp = stack_top[executing] - depth]
  /\ mem' = [mem EXCEPT ![stack_top[executing]] = content]
  /\ UNCHANGED <<table, executing, progs_running, scheduler_mode, status, age, saved>>

-----------------------------------------------------------------------------
(***************************************************************************)
(* Any process may make any call; kill takes any index of the table.       *)
(***************************************************************************)
Calls ==
  \/ TimerIRQ
  \/ Yield
  \/ Exit
  \/ Fork
  \/ GetPid
  \/ \E n \in Lengths : Write(n)
  \/ \E p \in Pids : Kill(p)
  \/ \E image \in Images : Exec(image)
  \/ \E mode \in 0 .. 2 : SwitchSched(mode)
  \/ \E depth \in Depths, content \in Contents : UserStep(depth, content)

Next == tail_pid \in Pids /\ (Calls \/ ForkBeyondTable)

Spec == Init /\ [][Next]_vars
=============================================================================

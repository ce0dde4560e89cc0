-------------------------- MODULE KernelProperties --------------------------
(***************************************************************************)
(* What the process side of the kernel keeps, and under which use of it.   *)
(***************************************************************************)
EXTENDS Kernel

-----------------------------------------------------------------------------
(***************************************************************************)
(* Under Spec: any process makes any call.                                 *)
(***************************************************************************)

\* Type invariant.  progs_running never drops below 1 (hilevel.c:264, 300).
TypeOK ==
  /\ tail_pid \in 0 .. NUM_PCBS
  /\ executing \in InUse
  /\ progs_running \in Nat \ {0}
  /\ scheduler_mode \in {"ROUND_ROBIN", "PRIORITY"}
  /\ pid \in [Pids -> Pids]
  /\ status \in [Pids -> {"READY", "EXECUTING", "TERMINATED"}]
  /\ age \in [Pids -> 0 .. AGE_MOD - 1]
  /\ base_priority \in [Pids -> 0 .. MaxBase]
  /\ stack_top \in [Pids -> Tops]
  /\ saved \in [Pids -> Contexts]
  /\ ctx \in Contexts
  /\ mem \in [Tops -> Contents]

\* No PCB but the current one is marked EXECUTING, whatever the processes do:
\* fork, exit, kill and the scheduler all move the mark (hilevel.c:117-126,
\* 240-254).
OneExecuting == \A p \in Pids : status[p] = "EXECUTING" => p = executing

\* Ageing bounds waiting: under any mix of calls the priority of a live
\* process stays below MaxBase + NUM_PCBS, so it is passed over fewer than that
\* many times between two turns, and uint32_t ages and the int they are compared
\* as cannot overflow (hilevel.c:53-81, 125).
AgeBound == \A p \in Live : get_priority(p) < MaxBase + NUM_PCBS

\* A turn goes to the process that goes before every other one, and whoever is
\* passed over gains one, whichever call makes the kernel switch: so AgeBound limits
\* how often a process is passed over (hilevel.c:57-81, 101-126).
PassedOver ==
  [][scheduler_mode = "PRIORITY" /\ executing' # executing /\ executing' \in Live
       => \A p \in (Live \cap Live') \ {executing'} :
            /\ Before(executing', p)
            /\ get_priority(p)' = get_priority(p) + 1]_vars

\* Only fork makes a TERMINATED process live again: a switch by priority always
\* finds a live process and never takes PCB 0 for want of one.  For progs_running may
\* exceed the live processes, once the last of them has ended, but never by more
\* than one (hilevel.c:67, 104, 249-255, 264, 300).
NobodyRevived ==
  [][scheduler_mode = "PRIORITY" /\ progs_running' <= progs_running
       => Live' \subseteq Live]_vars

\* The stacks of two live processes never overlap (hilevel.c:242).
StacksDisjoint ==
  \A p, q \in Live :
    p # q => \/ stack_top[p] <= stack_top[q] - STACK_SIZE
             \/ stack_top[q] <= stack_top[p] - STACK_SIZE

-----------------------------------------------------------------------------
(***************************************************************************)
(* Under WellUsedSpec.  The kernel relies on its users for three things it *)
(* does not check:                                                         *)
(*   - the table has room for a fork;                                      *)
(*   - kill names a PCB in use, other than the console's (pid 0);          *)
(*   - a process ends itself only while two others remain, for with only   *)
(*     one other the scheduler would not leave the ended one.              *)
(***************************************************************************)
MayEnd(p) == p # 0 /\ (p = executing => progs_running > 2)

WellUsedNext ==
  \/ TimerIRQ
  \/ Yield
  \/ MayEnd(executing) /\ Exit
  \/ Fork
  \/ GetPid
  \/ \E n \in Lengths : Write(n)
  \/ \E p \in InUse : MayEnd(p) /\ Kill(p)
  \/ \E image \in Images : Exec(image)
  \/ \E mode \in 0 .. 2 : SwitchSched(mode)
  \/ \E depth \in Depths, content \in Contents : UserStep(depth, content)

WellUsedSpec == Init /\ [][WellUsedNext]_vars

\* progs_running counts the live processes, and the process that runs is one
\* of them: the guard of the scheduler (hilevel.c:104) then means what its
\* comment says, "If more programs than just the console".
Books ==
  /\ progs_running = Cardinality(Live)
  /\ executing \in Live
  /\ status[executing] = "EXECUTING"

\* The stack pointer of every live process, running or set aside, is in that
\* process's own stack: the relocation done by fork and the reset done by exec
\* never leave one process on the stack of another (hilevel.c:238-243, 287).
Registers(p) == IF p = executing THEN ctx ELSE saved[p]
SpInOwnStack ==
  \A p \in Live : stack_top[p] - Registers(p).sp \in 0 .. STACK_SIZE

\* The kernel implements one virtual processor per live process: switching
\* between contexts (hilevel.c:117, 123), fork's two returns and the results
\* of calls that also reschedule never mix up registers.
Virtual == INSTANCE VirtualProcessors WITH
  Procs <- Pids, First <- 0, Boot <- BootContext,
  live <- Live, running <- executing, regs <- [p \in Live |-> Registers(p)]
VirtualSpec == Virtual!Spec

(***************************************************************************)
(* Under FairSpec: well used, always in PRIORITY mode, and the periodic    *)
(* timer, enabled at reset and unmasked in user mode, keeps interrupting.  *)
(***************************************************************************)
FairSpec ==
  /\ Init
  /\ [][WellUsedNext /\ scheduler_mode' = "PRIORITY"]_vars
  /\ WF_vars(TimerIRQ)

\* Every live process gets the processor, however many others are forked,
\* killed or reprioritised meanwhile (hilevel.c:58-81).
Served == \A p \in Pids : p \in Live ~> (executing = p \/ p \notin Live)

-----------------------------------------------------------------------------
(***************************************************************************)
(* Under ProgramSpec: the calls the programs of user/ make, in the order   *)
(* they make them.  The console (and every child until its exec) runs      *)
(* main_console: it forks, kills, and never exits.  A child, which got 0   *)
(* from fork, calls exec.  Programs yield (libc's send and receive), exit  *)
(* and fork (W.c); switch_sched is a call libc offers them.                *)
(***************************************************************************)
InConsole == ctx.pc = Console
IsChild == InConsole /\ ctx.r0 = 0 /\ executing # 0

ProgramCalls ==
  \/ TimerIRQ
  \/ ~InConsole /\ (Yield \/ Exit)
  \/ ~InConsole /\ (\E mode \in 1 .. 2 : SwitchSched(mode))
  \/ ~IsChild /\ (Fork \/ ForkBeyondTable)
  \/ InConsole /\ ~IsChild /\ \E p \in Pids \ {0} : Kill(p)
  \/ IsChild /\ \E image \in Images : Exec(image)
  \/ \E depth \in Depths, content \in Contents : UserStep(depth, content)

ProgramNext == tail_pid \in Pids /\ ProgramCalls

ProgramSpec == Init /\ [][ProgramNext]_vars

\* libc.h:83, exit: "perform exit, i.e., terminate process with status x".
ExitTerminates == status[executing] # "TERMINATED"

\* hilevel.c:234, fork: "Replicate state of parent in child".
ChildReplicatesParent ==
  [][Fork => /\ mem'[stack_top'[executing']] = mem[stack_top[executing]]
             /\ stack_top'[executing'] - ctx'.sp = stack_top[executing] - ctx.sp]_vars

\* hilevel.c:83-87: next_alive_prog is the round robin scheduler's choice.
RoundRobinTakesNext ==
  [][scheduler_mode = "ROUND_ROBIN" /\ progs_running > 1 /\ TimerIRQ
       => executing' = next_alive_prog(Live)]_vars
=============================================================================

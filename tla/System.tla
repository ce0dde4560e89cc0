------------------------------- MODULE System -------------------------------
(***************************************************************************)
(* The system at work: the console starts and ends the programs P1 and P2, *)
(* the kernel runs them on its one processor, and they talk over a         *)
(* channel.  The process table and the scheduler are those of Kernel, the  *)
(* channels and programs those of Handshake.  A program takes a step while *)
(* its process executes; exit and yield are the kernel's.                  *)
(*                                                                         *)
(* The results of channel calls are in reply alone, not in ctx.r0 too.     *)
(***************************************************************************)
EXTENDS Handshake, FiniteSets

CONSTANTS NUM_PCBS, Images, Priority, Console, NULL, AGE_MOD, STACK_SIZE,
          TOS_CONSOLE, Lengths, Depths, Contents, Blank

VARIABLES tail_pid, executing, progs_running, scheduler_mode, pid, status, age,
          base_priority, stack_top, saved, ctx, mem

K == INSTANCE Kernel

ASSUME SystemAssumption ==
  /\ Procs = K!Pids \ {0}
  /\ Images = {"P1", "P2"}
  /\ K!KernelAssumption

kernel == <<tail_pid, executing, progs_running, scheduler_mode, pid, status, age,
            base_priority, stack_top, saved, ctx, mem>>
system == <<kernel, handshake>>

SysInit == K!Init /\ Init

(***************************************************************************)
(* A process in the image of the console is a shell, unless it is the child*)
(* of one: fork has given it 0, and it is about to call exec.              *)
(***************************************************************************)
IsChild == executing # 0 /\ ctx.pc = Console /\ ctx.r0 = 0
Shell == ctx.pc = Console /\ ~IsChild

\* execute: a shell forks, if the table has room (see ForkBeyondTable).
Execute ==
  /\ Shell
  /\ K!Fork
  /\ UNCHANGED handshake

\* The child of a shell replaces itself.
Child(p) ==
  /\ executing = p
  /\ IsChild
  /\ \E image \in Images : K!Exec(image) /\ Start(p, image)

\* terminate: a shell names a process there is, perhaps itself.
Terminate(p) ==
  /\ Shell
  /\ p \in K!Live
  /\ K!Kill(p)
  /\ Killed(p)

(***************************************************************************)
(* A step of the program that executes.  exit returns just when the kernel *)
(* still has the process as the executing one, because the scheduler does  *)
(* nothing if it counts one program.                                       *)
(***************************************************************************)
Ended == {"none", "refused", "exited", "unserved"}
Run(p) ==
  /\ executing = p
  /\ Proc(p)
  /\ \/ /\ at'[p] \in Ended
        /\ K!Exit
        /\ at'[p] = "none" => executing' # p
        /\ at'[p] = "refused" => executing' = p
     \/ at'[p] \notin Ended /\ UNCHANGED kernel

(***************************************************************************)
(* The last exit of a program returns to it and it to its caller.  exec has*)
(* changed pc and sp and not lr, so that is the place in main_console after*)
(* the call of exec: the process, though TERMINATED, becomes a shell.  The *)
(* 1 is whatever the shell leaves in r0 before it makes a call.            *)
(***************************************************************************)
FallBack(p) ==
  /\ executing = p
  /\ ctx.pc # Console
  /\ Leave(p)
  /\ ctx' = [ctx EXCEPT !.pc = Console, !.r0 = 1]
  /\ UNCHANGED <<tail_pid, executing, progs_running, scheduler_mode, pid, status, age,
                 base_priority, stack_top, saved, mem>>

\* A look at the channel that finds nothing to do ends in yield.
Poll(p) ==
  /\ executing = p
  /\ \/ call[p].at = "blocked" /\ OwnMessage(p)
     \/ call[p].at = "waiting" /\ check(call[p].c) # call[p].end
  /\ K!Yield
  /\ UNCHANGED handshake

Interrupt == K!TimerIRQ /\ UNCHANGED handshake

SysNext ==
  \/ Interrupt \/ Execute
  \/ \E p \in Procs : Child(p) \/ Terminate(p) \/ Run(p) \/ FallBack(p) \/ Poll(p)

\* The timer keeps interrupting, and a process that gets the processor again and
\* again gets something done: a time slice is longer than a system call.
SysSpec ==
  /\ SysInit /\ [][SysNext]_system
  /\ WF_system(Interrupt)
  /\ \A p \in Procs : SF_system(Run(p))

-----------------------------------------------------------------------------
\* Process table and programs agree.  A process in the middle of a program is that
\* program, in the live registers or those set aside, and its PCB is alive, unless it
\* executes, TERMINATED, after an exit that returned.  And no other process is in the
\* image of a program, but one that executes, TERMINATED, after its last exit.  So no
\* PCB that fork, exec, kill, exit, the scheduler or the return into the console takes
\* up still holds what was left in it (hilevel.c:116-126, 189-197, 234-256, 268, 286,
\* 299).
Image(p) == (IF p = executing THEN ctx ELSE saved[p]).pc
Holds(p) == p \in K!Live \/ p = executing
Coupled ==
  \A p \in Procs :
    /\ at[p] \in Running => /\ Holds(p) /\ Image(p) = prog[p]
                            /\ p \in K!Live <=> at[p] # "refused"
    /\ Holds(p) /\ Image(p) # Console /\ at[p] \notin Running
         => at[p] \in {"exited", "unserved"} /\ p \notin K!Live

\* The kernel counts the live processes right.
Counted == progs_running = Cardinality(K!Live)

\* The kernel runs the programs as if each had a processor, as long as it counts
\* right: what Handshake says of P1 and P2 is true of them under this scheduler,
\* and one that can always go on does, with yields, exits, kills and reused pids
\* (hilevel.c:57-128, libc.c:203-268).  A fork by a process whose last exit has
\* returned makes the count wrong: then the kernel may switch no more with several
\* processes alive (hilevel.c:104, 250, 265-267).
ProgramsSpec == Spec /\ \A p \in Procs : WF_handshake(Counted /\ Proc(p))

\* Once a P1 and a P2 are connected, while the kernel counts right, both come to
\* their end, unless a program that asked for an end is killed (P1.c:14-19,
\* P2.c:21-26, libc.c:203-268, hilevel.c:57-128).
Terminates ==
  \A p \in Procs : (Matched /\ at[p] \in Running /\ ~killed /\ Counted)
                     ~> (at[p] \notin Running \/ killed)
=============================================================================

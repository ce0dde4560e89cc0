--------------------------- MODULE SchedulerLoops ---------------------------
(***************************************************************************)
(* The three searches of the process table, as the loops of hilevel.c, one *)
(* step per iteration.  They start from an arbitrary table and end with    *)
(* what the definitions of the same name in Kernel say, which is what lets *)
(* Kernel take a whole handler as one step.                                *)
(***************************************************************************)
EXTENDS Kernel

CONSTANTS
  SomeAges,    \* ages and base priorities of the tables tried
  SomeBases

ASSUME LoopsAssumption ==
  /\ SomeAges \subseteq 0 .. AGE_MOD - 1
  /\ SomeBases \subseteq 0 .. MaxBase

VARIABLES
  search,        \* the function that runs
  i,             \* its loop counter (next_val in next_alive_prog)
  pri,           \* find_next_proc: priority last computed
  highest_pri,   \* find_next_proc: the highest so far
  found,         \* the pid that would be returned
  returned       \* whether it has been

loop == <<search, i, pri, highest_pri, found, returned>>
loopVars == <<vars, loop>>

Searches == {"find_next_proc", "next_alive_prog", "find_empty_pcb"}

SomeTable ==
  /\ tail_pid \in Pids
  /\ executing \in InUse
  /\ status \in [Pids -> {"READY", "EXECUTING", "TERMINATED"}]
  /\ age \in [Pids -> SomeAges]
  /\ base_priority \in [Pids -> SomeBases]
  /\ progs_running = 2
  /\ scheduler_mode = "PRIORITY"
  /\ pid = [p \in Pids |-> p]
  /\ stack_top = [p \in Pids |-> StackTop(p)]
  /\ saved = [p \in Pids |-> ZeroContext]
  /\ ctx = ZeroContext
  /\ mem = [t \in Tops |-> Blank]

LoopInit ==
  /\ SomeTable
  /\ search \in Searches
  /\ i = IF search = "next_alive_prog" THEN executing + 1 ELSE 0
  /\ pri = -1
  /\ highest_pri = -1
  /\ found = IF search = "find_empty_pcb" THEN -1 ELSE 0
  /\ returned = FALSE

\* pri keeps the value of the last live PCB when PCB i is not alive.
NextPri == IF status[i] \in Alive THEN get_priority(i) ELSE pri

Improves_slip(p) == p >= highest_pri
Improves(p) == p > highest_pri

FindNextProc ==
  /\ search = "find_next_proc"
  /\ i <= tail_pid
  /\ pri' = NextPri
  /\ \/ /\ Improves(NextPri)
        /\ highest_pri' = NextPri
        /\ found' = i
     \/ /\ ~Improves(NextPri)
        /\ UNCHANGED <<highest_pri, found>>
  /\ i' = i + 1
  /\ UNCHANGED <<search, returned>>

\* next_alive_prog and find_empty_pcb return from inside the loop.
Wanted(p) == IF search = "find_empty_pcb" THEN status[p] = "TERMINATED"
                                          ELSE status[p] \in Alive

FirstMatch ==
  /\ search # "find_next_proc"
  /\ i <= tail_pid
  /\ \/ /\ Wanted(i)
        /\ found' = i
        /\ returned' = TRUE
        /\ UNCHANGED i
     \/ /\ ~Wanted(i)
        /\ i' = i + 1
        /\ UNCHANGED <<found, returned>>
  /\ UNCHANGED <<search, pri, highest_pri>>

LoopEnd ==
  /\ i > tail_pid
  /\ returned' = TRUE
  /\ UNCHANGED <<search, i, pri, highest_pri, found>>

LoopNext ==
  /\ ~returned
  /\ FindNextProc \/ FirstMatch \/ LoopEnd
  /\ UNCHANGED vars

LoopSpec == LoopInit /\ [][LoopNext]_loopVars

\* What find_next_proc, next_alive_prog and find_empty_pcb return for any table
\* is what Kernel takes them to return: ties go to the lowest pid, a TERMINATED
\* PCB never inherits the priority computed for the one before it, and nothing
\* found is 0, 0 and -1 (hilevel.c:58-74, 88-96, 188-197).
Expected ==
  CASE search = "find_next_proc" -> find_next_proc(Live)
    [] search = "next_alive_prog" -> next_alive_prog(Live)
    [] OTHER -> IF Empty = {} THEN -1 ELSE find_empty_pcb
LoopsAgree == returned => found = Expected
=============================================================================

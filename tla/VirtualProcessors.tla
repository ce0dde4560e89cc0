-------------------------- MODULE VirtualProcessors -------------------------
(***************************************************************************)
(* What the kernel promises its processes: every live process has a        *)
(* processor of its own.  One process runs at a time; only it can change   *)
(* its registers, and a process that was set aside finds them exactly as   *)
(* it left them, apart from the result of the call it had made.            *)
(***************************************************************************)
EXTENDS Integers

CONSTANTS Procs,   \* names a process can have
          First,   \* the process that exists at boot
          Boot     \* its registers

VARIABLES live, running, regs

vars == <<live, running, regs>>

Init ==
  /\ live = {First}
  /\ running = First
  /\ regs = [p \in {First} |-> Boot]

Keep(S) == \A p \in S : regs'[p] = regs[p]

\* Someone live runs next.
Dispatch == running' \in live'

\* The running process computes, or a call returns to it.
Run ==
  /\ UNCHANGED <<live, running>>
  /\ DOMAIN regs' = live
  /\ Keep(live \ {running})

Switch ==
  /\ UNCHANGED <<live, regs>>
  /\ Dispatch

\* The child starts where the parent is, and runs first.  Each can tell which
\* of the two it is.
Fork ==
  \E child \in Procs \ live :
    /\ live' = live \cup {child}
    /\ running' = child
    /\ DOMAIN regs' = live'
    /\ Keep(live \ {running})
    /\ regs'[running] = [regs[running] EXCEPT !.r0 = child]
    /\ regs'[child].pc = regs[running].pc
    /\ regs'[child].r0 = 0
    /\ child > 0

\* The running process ends itself.
Leave ==
  /\ live' = live \ {running}
  /\ Dispatch
  /\ DOMAIN regs' = live'
  /\ Keep(live')

\* The running process ends another one and is told that it succeeded.
EndOther ==
  \E p \in live \ {running} :
    /\ live' = live \ {p}
    /\ Dispatch
    /\ DOMAIN regs' = live'
    /\ Keep(live' \ {running})
    /\ regs'[running] = [regs[running] EXCEPT !.r0 = 1]

Next == Run \/ Switch \/ Fork \/ Leave \/ EndOther

Spec == Init /\ [][Next]_vars
=============================================================================

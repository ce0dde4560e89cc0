----------------------------- MODULE Handshake ------------------------------
(***************************************************************************)
(* The programs P1 and P2 of user/, which exchange one message each way    *)
(* over channel 1.  Any process may be told to run either of them, ended   *)
(* at any time, and told again: that is how the console uses them.         *)
(***************************************************************************)
EXTENDS Channels

ASSUME HandshakeAssumption == Chids = {1} /\ Messages = {5, 12}

VARIABLES prog,   \* which program each process runs
          at,     \* where it is in it
          got,    \* its rec_res
          killed  \* history: was a program ended from outside after its chanend?

handshake == <<chan, call, reply, prog, at, got, killed>>

\* "exited" and "unserved" are behind the last exit.
Running == {"start", "connected", "refused", "first", "second"}

Init ==
  /\ ChannelsInit
  /\ prog = [p \in Procs |-> "none"]
  /\ at = [p \in Procs |-> "none"]
  /\ got = [p \in Procs |-> 0]
  /\ killed = FALSE

\* p goes from one place to the next.
Step(p, from, to) ==
  /\ at[p] = from
  /\ at' = [at EXCEPT ![p] = to]
  /\ UNCHANGED <<prog, killed>>

Start(p, image) ==
  /\ at[p] \notin Running
  /\ at' = [at EXCEPT ![p] = "start"]
  /\ prog' = [prog EXCEPT ![p] = image]
  /\ got' = [got EXCEPT ![p] = 0]
  /\ Answer(p, 0)
  /\ UNCHANGED <<chan, call, killed>>

\* p runs no program any more.
Gone(p) ==
  /\ at' = [at EXCEPT ![p] = "none"]
  /\ prog' = [prog EXCEPT ![p] = "none"]
  /\ got' = [got EXCEPT ![p] = 0]
  /\ Abandon(p)

Killed(p) ==
  /\ Gone(p)
  /\ killed' = (killed \/ at[p] \in {"connected", "first", "second"})

Connect(p) ==
  /\ Step(p, "start", "connected")
  /\ chanend(p, 1)
  /\ UNCHANGED got

(***************************************************************************)
(* chanend gives -1 and the program calls exit, which ends it or, if the   *)
(* kernel has nothing else to run, returns.  Then the program goes on over *)
(* channel -1.  chan[-1] is the end of pcb[31], where no pid of a program  *)
(* stands while that PCB is unused: send and receive both fail, receive    *)
(* with -1, and what is left to do is the exit at the end.                 *)
(***************************************************************************)
Refused(p) ==
  /\ at[p] = "connected"
  /\ reply[p] = -1
  /\ \/ Gone(p) /\ UNCHANGED killed
     \/ Step(p, "connected", "refused") /\ UNCHANGED <<ipc, got>>

Onward(p) ==
  /\ Step(p, "refused", "unserved")
  /\ got' = [got EXCEPT ![p] = -1]
  /\ UNCHANGED ipc

\* The last exit returns too, and the program to whoever started it.
Leave(p) ==
  /\ at[p] \in {"exited", "unserved"}
  /\ Gone(p)
  /\ UNCHANGED killed

P1(p) ==
  \/ /\ reply[p] # -1
     /\ Step(p, "connected", "first")
     /\ Send(p, 1, 12)
     /\ UNCHANGED got
  \/ /\ Step(p, "first", "second")
     /\ Receive(p, 1)
     /\ UNCHANGED got
  \/ /\ Idle(p)
     /\ Step(p, "second", "exited")
     /\ got' = [got EXCEPT ![p] = reply[p]]
     /\ UNCHANGED ipc

P2(p) ==
  \/ /\ reply[p] # -1
     /\ Step(p, "connected", "first")
     /\ Receive(p, 1)
     /\ UNCHANGED got
  \/ /\ Step(p, "first", "second")
     /\ got' = [got EXCEPT ![p] = reply[p]]
     /\ Send(p, 1, 5)
  \/ /\ Idle(p)
     /\ Step(p, "second", "exited")
     /\ UNCHANGED <<ipc, got>>

Proc(p) ==
  \/ Connect(p)
  \/ Refused(p)
  \/ Onward(p)
  \/ prog[p] = "P1" /\ P1(p)
  \/ prog[p] = "P2" /\ P2(p)
  \/ Library(p) /\ UNCHANGED <<prog, at, got, killed>>

User(p) == Killed(p) \/ Leave(p) \/ \E image \in {"P1", "P2"} : Start(p, image)

Next == \E p \in Procs : User(p) \/ Proc(p)

Spec == Init /\ [][Next]_handshake

-----------------------------------------------------------------------------
\* Type invariant of the two programs and their channel.
TypeOK ==
  /\ ChannelsTypeOK
  /\ prog \in [Procs -> {"none", "P1", "P2"}]
  /\ at \in [Procs -> Running \cup {"none", "exited", "unserved"}]
  /\ got \in [Procs -> Messages \cup {-1, 0}]
  /\ killed \in BOOLEAN

\* A program that got an end and has come to its last exit has the message of the
\* other one, in whatever order programs are started, connect, post and poll,
\* whoever is killed when, whichever pids are used again, and whether or not an
\* exit returns (P1.c:12-19, P2.c:19-26, hilevel.c:363).
Exchanged ==
  \A p \in Procs : at[p] = "exited" => got[p] = IF prog[p] = "P1" THEN 5 ELSE 12

\* A P1 and a P2 are connected.  Nothing disconnects an end (hilevel.c:332-350).
Matched ==
  /\ chan[1].pids_connected = 2
  /\ prog[chan[1].end[1]] # prog[chan[1].end[2]]
=============================================================================

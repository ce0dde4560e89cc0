------------------------------ MODULE Channels ------------------------------
(***************************************************************************)
(* Channels between processes: the IPC handlers of hilevel.c and the       *)
(* blocking send and receive that libc.c builds from them.                 *)
(*                                                                         *)
(* A handler is atomic.  A library call is not: it is a sequence of system *)
(* calls, between any two of which other processes run, so each system call*)
(* is a step.  Three calls are not: getpid and which_end, which read what  *)
(* only the calling process itself could change, and yield, which changes  *)
(* no channel.                                                             *)
(*                                                                         *)
(* chan[c].end[e] is p1 or p2; on[e] and data[e] are the flag and the value*)
(* for end e (data_on_chan_to_p1, data_for_p1, ...).  A process inside send*)
(* or receive has its place in call; reply is its r0.  A definition named  *)
(* _slip is the next one with a plausible mistake, which nothing uses.     *)
(***************************************************************************)
EXTENDS Integers

CONSTANTS Procs,    \* pids of the processes that use channels
          Chids,    \* channels they use
          Messages  \* ints they send

ASSUME ChannelsAssumption ==
  /\ Procs \subseteq Nat \ {0}   \* pid 0 is the console, which uses none
  /\ Chids \subseteq Nat         \* so that -1 is no channel
  /\ Messages \subseteq Nat \ {0}

VARIABLES chan, call, reply

ipc == <<chan, call, reply>>

Ends == {1, 2}
Other(e) == 3 - e

\* What memset, or the zeroed memory at boot, leaves in a chan_t.
NoChannel ==
  [end |-> [e \in Ends |-> 0], pids_connected |-> 0,
   on |-> [e \in Ends |-> FALSE], data |-> [e \in Ends |-> 0]]

NoCall == [at |-> "none", c |-> 0, end |-> 0]

ChannelsInit ==
  /\ chan = [c \in Chids |-> NoChannel]
  /\ call = [p \in Procs |-> NoCall]
  /\ reply = [p \in Procs |-> 0]

-----------------------------------------------------------------------------
(***************************************************************************)
(* Handlers, as called by p.                                               *)
(***************************************************************************)
Answer(p, r) == reply' = [reply EXCEPT ![p] = r]

chanend_slip(p, c) ==
  /\ UNCHANGED call
  /\ Answer(p, c)
  /\ LET n == chan[c].pids_connected + 1
     IN  chan' = [chan EXCEPT ![c].pids_connected = n, ![c].end[IF n = 1 THEN 1 ELSE 2] = p]
chanend(p, c) ==
  /\ UNCHANGED call
  /\ \/ /\ chan[c].pids_connected = 2
        /\ Answer(p, -1)
        /\ UNCHANGED chan
     \/ /\ chan[c].pids_connected = 1
        /\ chan' = [chan EXCEPT ![c].end[2] = p, ![c].pids_connected = 2]
        /\ Answer(p, c)
     \/ /\ chan[c].pids_connected \notin {1, 2}
        /\ chan' = [chan EXCEPT ![c] = [NoChannel EXCEPT !.end[1] = p,
                                                         !.pids_connected = 1]]
        /\ Answer(p, c)

which_end(p, c) ==
  CASE p = chan[c].end[1] -> 1
    [] p # chan[c].end[1] /\ p = chan[c].end[2] -> 2
    [] OTHER -> -1

check(c) ==
  CASE ~chan[c].on[1] /\ ~chan[c].on[2] -> 0
    [] chan[c].on[1] /\ ~chan[c].on[2] -> 1
    [] ~chan[c].on[1] /\ chan[c].on[2] -> 2
    [] OTHER -> -1

\* A message overwrites one that has not been received.
IpcSend_slip(p, c, m) ==
  LET to == IF p = chan[c].end[1] THEN 2 ELSE 1
  IN  chan' = [chan EXCEPT ![c].on[to] = TRUE, ![c].data[to] = m]
IpcSend(p, c, m) ==
  LET to == Other(which_end(p, c))
  IN  \/ /\ which_end(p, c) \in Ends
         /\ chan' = [chan EXCEPT ![c].on[to] = TRUE, ![c].data[to] = m]
      \/ /\ which_end(p, c) \notin Ends
         /\ UNCHANGED chan

IpcReceive_slip(p, c) ==
  /\ Answer(p, IF which_end(p, c) \in Ends THEN chan[c].data[which_end(p, c)] ELSE -1)
  /\ UNCHANGED chan
IpcReceive(p, c) ==
  LET e == which_end(p, c)
  IN  \/ /\ e \in Ends
         /\ chan' = [chan EXCEPT ![c].on[e] = FALSE]
         /\ Answer(p, chan[c].data[e])
      \/ /\ e \notin Ends
         /\ Answer(p, -1)
         /\ UNCHANGED chan

-----------------------------------------------------------------------------
(***************************************************************************)
(* send and receive.  The program's step makes the first system call.      *)
(***************************************************************************)
Idle(p) == call[p].at = "none"
Goto(p, at, c, e) == call' = [call EXCEPT ![p] = [at |-> at, c |-> c, end |-> e]]
Return(p) == call' = [call EXCEPT ![p] = NoCall]

\* send puts the message on the channel; r0 is not looked at.
Send(p, c, m) ==
  /\ Idle(p)
  /\ IpcSend(p, c, m)
  /\ LET e == which_end(p, c)
     IN  \/ e \in Ends /\ Goto(p, "blocked", c, e)
         \/ e \notin Ends /\ UNCHANGED call
  /\ UNCHANGED reply

OwnMessage(p) == check(call[p].c) = Other(call[p].end)

\* While the message is on the channel send yields and looks again.  The look
\* before the loop, which complains if the message is gone, has the same outcome.
SendBlocked_slip(p) ==
  /\ call[p].at = "blocked"
  /\ check(call[p].c) = 0
  /\ Return(p)
  /\ UNCHANGED <<chan, reply>>
SendBlocked(p) ==
  /\ call[p].at = "blocked"
  /\ ~OwnMessage(p)
  /\ Return(p)
  /\ UNCHANGED <<chan, reply>>

Receive_slip(p, c) ==
  /\ Idle(p)
  /\ Goto(p, "take", c, which_end(p, c))
  /\ UNCHANGED <<chan, reply>>
Receive(p, c) ==
  /\ Idle(p)
  /\ LET e == which_end(p, c)
     IN  \/ e \in Ends /\ Goto(p, "waiting", c, e)
         \/ e \notin Ends /\ Goto(p, "take", c, e)
  /\ UNCHANGED <<chan, reply>>

\* While the channel does not hold just a message for p, receive yields and
\* looks again.
ReceiveWaiting(p) ==
  /\ call[p].at = "waiting"
  /\ check(call[p].c) = call[p].end
  /\ Goto(p, "take", call[p].c, call[p].end)
  /\ UNCHANGED <<chan, reply>>

ReceiveTake(p) ==
  /\ call[p].at = "take"
  /\ IpcReceive(p, call[p].c)
  /\ Return(p)

\* p is ended by exit or by kill, perhaps in the middle of a call, and another
\* process may get its pid.  No handler tells the channels.
Abandon(p) == Return(p) /\ Answer(p, 0) /\ UNCHANGED chan

Library(p) ==
  SendBlocked(p) \/ ReceiveWaiting(p) \/ ReceiveTake(p)

-----------------------------------------------------------------------------
(***************************************************************************)
(* What users of channels keep.                                            *)
(***************************************************************************)
\* Type invariant; no more than two ends are ever connected (hilevel.c:332-350).
ChannelsTypeOK ==
  /\ chan \in [Chids -> [end : [Ends -> Procs \cup {0}], pids_connected : 0 .. 2,
                         on : [Ends -> BOOLEAN], data : [Ends -> Messages \cup {0}]]]
  /\ call \in [Procs -> [at : {"none", "blocked", "waiting", "take"},
                         c : Chids \cup {0}, end : {-1, 0, 1, 2}]]
  /\ reply \in [Procs -> Messages \cup Chids \cup {-1, 0}]

\* A channel never has both flags up, the state in which both receivers wait
\* for ever (hilevel.c:420-423).
NotBothOn == \A c \in Chids : ~(chan[c].on[1] /\ chan[c].on[2])

\* No message is overwritten: a process sends to an end only when the message
\* before it has been received there, which the handler does not check and the
\* blocking of send has to bring about (hilevel.c:363-370, libc.c:203, 219).
NoOverwrite ==
  [][\A p \in Procs, e \in Ends :
       /\ Idle(p)
       /\ call'[p].at = "blocked"
       /\ call'[p].end = e
       => ~chan[call'[p].c].on[Other(e)]]_ipc
=============================================================================

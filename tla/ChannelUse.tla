----------------------------- MODULE ChannelUse -----------------------------
(***************************************************************************)
(* Channels under arbitrary use: any process makes any channel call, in    *)
(* any order, on any channel, and may be ended in the middle of it and its *)
(* pid given to another.                                                   *)
(***************************************************************************)
EXTENDS Channels

Use(p) ==
  \/ \E c \in Chids : Idle(p) /\ chanend(p, c)
  \/ \E c \in Chids, m \in Messages : Send(p, c, m)
  \/ \E c \in Chids : Receive(p, c)
  \/ Library(p)

Init == ChannelsInit

Next == \E p \in Procs : Use(p) \/ Abandon(p)

Spec == Init /\ [][Next]_ipc

-----------------------------------------------------------------------------
\* Once a process is an end of a channel it stays that end, whoever tries to
\* connect later: what which_end tells a process stays true, which lets send and
\* receive ask once, and lets their model leave that call out (hilevel.c:328-353,
\* libc.c:195, 241).
EndsStay ==
  [][\A p \in Procs, c \in Chids :
       which_end(p, c) \in Ends => which_end(p, c)' = which_end(p, c)]_ipc

\* A process that is no end of a channel cannot touch the messages on it
\* (hilevel.c:363-374, 385-397).
OutsidersHarmless ==
  [][\A p \in Procs, c \in Chids :
       /\ Use(p) \/ Abandon(p)
       /\ which_end(p, c) \notin Ends
       /\ chan'[c].pids_connected = chan[c].pids_connected
       => chan'[c] = chan[c]]_ipc
=============================================================================

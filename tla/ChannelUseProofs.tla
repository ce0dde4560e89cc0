-------------------------- MODULE ChannelUseProofs --------------------------
(***************************************************************************)
(* Channels under arbitrary use, for any number of processes and channels. *)
(* The invariant adds to the types that a channel gets its ends in order,  *)
(* which is why no later user can take the place of an earlier one.        *)
(***************************************************************************)
EXTENDS ChannelUse, ChannelsProofs

OnChannel == \A p \in Procs : call[p].at # "none" => call[p].c \in Chids

IInv == ChannelsTypeOK /\ EndsSet /\ OnChannel
-----------------------------------------------------------------------------
LEMMA InitIInv == Init => IInv
<1> SUFFICES ASSUME Init PROVE IInv
  OBVIOUS
<1>1. \A c \in Chids : chan[c] = NoChannel
  BY DEF Init, ChannelsInit
<1>2. chan \in [Chids -> Channel]
  BY Fresh DEF Init, ChannelsInit
<1>3. EndsSet
  BY <1>1 DEF EndsSet, NoChannel, Ends
<1>4. OnChannel /\ ChannelsTypeOK
  BY <1>2 DEF OnChannel, ChannelsTypeOK, Channel, Init, ChannelsInit, NoCall
<1> QED
  BY <1>3, <1>4 DEF IInv

\* A step of one process, seen from one channel.
LEMMA StepIInv ==
  ASSUME IInv, NEW p \in Procs, Use(p) \/ Abandon(p)
  PROVE  /\ IInv'
         /\ \/ \E c \in Chids : chanend(p, c)
            \/ \A k \in Chids : /\ chan'[k].end = chan[k].end
                                /\ chan'[k].pids_connected = chan[k].pids_connected
<1> USE DEF IInv
<1>1. ASSUME NEW c \in Chids, Idle(p), chanend(p, c)
      PROVE  IInv'
  <2>1. call' = call
    BY <1>1 DEF chanend
  <2> QED
    BY <1>1, <2>1, ChanendTyped DEF OnChannel
<1> DEFINE Same == \A k \in Chids :
             /\ chan'[k].end = chan[k].end
             /\ chan'[k].pids_connected = chan[k].pids_connected
<1>2. ASSUME ChannelsTypeOK', Same, OnChannel'
      PROVE  IInv'
  BY <1>2 DEF EndsSet
<1>3. ASSUME NEW c \in Chids, NEW m \in Messages, Send(p, c, m)
      PROVE  IInv' /\ Same
  <2>1. OnChannel'
    BY <1>3 DEF Send, Goto, OnChannel, ChannelsTypeOK
  <2> QED
    BY <1>2, <1>3, <2>1, SendTyped
<1>4. ASSUME NEW c \in Chids, Receive(p, c)
      PROVE  IInv' /\ Same
  <2>1. OnChannel'
    BY <1>4 DEF Receive, Goto, OnChannel, ChannelsTypeOK
  <2>2. ChannelsTypeOK' /\ Same
    BY <1>4, ReceiveTyped
  <2> QED
    BY <1>2, <2>1, <2>2
<1>5. CASE Library(p)
  <2>1. CASE SendBlocked(p) \/ ReceiveWaiting(p)
    <3>1. OnChannel'
      BY <2>1 DEF SendBlocked, ReceiveWaiting, Return, Goto, NoCall, OnChannel,
                  ChannelsTypeOK
    <3>2. ChannelsTypeOK' /\ Same
      BY <2>1, BlockedWaitingTyped
    <3> QED
      BY <1>2, <3>1, <3>2
  <2>2. CASE ReceiveTake(p)
    <3>1. call[p].c \in Chids
      BY <2>2 DEF ReceiveTake, OnChannel
    <3>2. OnChannel'
      BY <2>2 DEF ReceiveTake, Return, NoCall, OnChannel, ChannelsTypeOK
    <3>3. ChannelsTypeOK' /\ Same
      BY <2>2, <3>1, TakeTyped
    <3> QED
      BY <1>2, <3>2, <3>3
  <2> QED
    BY <1>5, <2>1, <2>2 DEF Library
<1>6. CASE Abandon(p)
  <2>1. OnChannel'
    BY <1>6 DEF Abandon, Return, NoCall, OnChannel, ChannelsTypeOK
  <2>2. ChannelsTypeOK' /\ Same
    BY <1>6, AbandonTyped
  <2> QED
    BY <1>2, <2>1, <2>2
<1> QED
  BY <1>1, <1>3, <1>4, <1>5, <1>6 DEF Use

LEMMA NextIInv == IInv /\ [Next]_ipc => IInv'
<1>1. CASE UNCHANGED ipc
  BY <1>1 DEF ipc, IInv, ChannelsTypeOK, EndsSet, OnChannel
<1> QED
  BY <1>1, StepIInv DEF Next

LEMMA Invariant == Spec => []IInv
  BY InitIInv, NextIInv, PTL DEF Spec

\* The channels and the calls on them keep their types, and no channel has more
\* than two ends, however they are used (hilevel.c:327-442).
THEOREM ChannelsTyped == Spec => []ChannelsTypeOK
<1>1. IInv => ChannelsTypeOK
  BY DEF IInv
<1> QED
  BY <1>1, Invariant, PTL

\* What which_end has told a process stays true, however many others try to
\* connect, and through the death of the process itself (hilevel.c:327-353).
THEOREM EndsStayPut == Spec => EndsStay
<1> DEFINE Stay == \A p \in Procs, c \in Chids :
             which_end(p, c) \in Ends => which_end(p, c)' = which_end(p, c)
<1>1. IInv /\ [Next]_ipc => [Stay]_ipc
  <2> SUFFICES ASSUME IInv, Next,
                      NEW p \in Procs, NEW c \in Chids, which_end(p, c) \in Ends
               PROVE  which_end(p, c)' = which_end(p, c)
    OBVIOUS
  <2>1. p # 0 /\ chan \in [Chids -> Channel]
    BY ChannelsAssumption DEF IInv, ChannelsTypeOK, Channel
  <2>2. ASSUME chan'[c].end = chan[c].end
        PROVE  which_end(p, c)' = which_end(p, c)
    BY <2>2 DEF which_end
  <2>3. PICK q \in Procs : Use(q) \/ Abandon(q)
    BY DEF Next
  <2>4. ASSUME NEW d \in Chids, chanend(q, d)
        PROVE  which_end(p, c)' = which_end(p, c)
    <3>1. CASE d # c
      BY <2>1, <2>2, <2>4, <3>1, ChanendCases DEF IInv
    <3>2. CASE d = c
      <4>1. chan[c].end[1] = p \/ chan[c].end[2] = p
        BY WhichEnd DEF Ends
      <4>2. CASE chan[c].pids_connected = 1
        <5>1. chan[c].end[1] = p
          BY <2>1, <4>1, <4>2 DEF IInv, EndsSet
        <5>2. chan' = [chan EXCEPT ![c] = WithSecond(chan[c], q)]
          BY <2>4, <3>2, <4>2, ChanendCases DEF IInv
        <5>3. chan'[c].end[1] = p
          BY <2>1, <5>1, <5>2, SecondEnd
        <5> QED
          BY <5>1, <5>3 DEF which_end
      <4>3. CASE chan[c].pids_connected # 1
        <5>1. chan[c].pids_connected # 0
          BY <2>1, <4>1 DEF IInv, EndsSet
        <5>2. UNCHANGED chan
          BY <2>4, <3>2, <4>3, <5>1, ChanendCases DEF IInv
        <5> QED
          BY <2>2, <5>2
      <4> QED
        BY <4>2, <4>3
    <3> QED
      BY <3>1, <3>2
  <2> QED
    BY <2>2, <2>3, <2>4, StepIInv
<1> QED
  BY <1>1, Invariant, PTL DEF Spec, EndsStay

\* However a process uses a channel that is not its own, the messages on it are
\* those its ends have put there (hilevel.c:355-400).
THEOREM OutsidersCannotTouch == Spec => OutsidersHarmless
<1> DEFINE Harmless == \A p \in Procs, c \in Chids :
             /\ Use(p) \/ Abandon(p)
             /\ which_end(p, c) \notin Ends
             /\ chan'[c].pids_connected = chan[c].pids_connected
             => chan'[c] = chan[c]
<1>1. IInv /\ [Next]_ipc => [Harmless]_ipc
  <2> SUFFICES ASSUME IInv, NEW p \in Procs, NEW c \in Chids,
                      Use(p) \/ Abandon(p), which_end(p, c) \notin Ends,
                      chan'[c].pids_connected = chan[c].pids_connected
               PROVE  chan'[c] = chan[c]
    OBVIOUS
  <2>1. chan \in [Chids -> Channel]
    BY DEF IInv, ChannelsTypeOK, Channel
  <2>2. ASSUME NEW d \in Chids, chanend(p, d)
        PROVE  chan'[c] = chan[c]
    <3>1. CASE UNCHANGED chan \/ d # c
      BY <2>1, <2>2, <3>1, ChanendCases DEF IInv
    <3>2. ASSUME d = c, chan' = [chan EXCEPT ![c] = WithSecond(chan[c], p)],
                 chan[c].pids_connected = 1
          PROVE  FALSE
      BY <2>1, <3>2, SecondEnd
    <3>3. ASSUME d = c, chan' = [chan EXCEPT ![c] = WithFirst(p)],
                 chan[c].pids_connected = 0
          PROVE  FALSE
      BY <2>1, <3>3, FirstEnd
    <3> QED
      BY <2>2, <3>1, <3>2, <3>3, ChanendCases DEF IInv
  <2>3. ASSUME NEW d \in Chids, NEW m \in Messages, Send(p, d, m)
        PROVE  chan'[c] = chan[c]
    <3>1. CASE d = c
      BY <2>3, <3>1 DEF Send, IpcSend
    <3>2. CASE d # c
      BY <2>1, <2>3, <3>2 DEF Send, IpcSend
    <3> QED
      BY <3>1, <3>2
  <2>4. CASE ReceiveTake(p)
    <3> DEFINE d == call[p].c
    <3>1. CASE d = c
      BY <2>4, <3>1 DEF ReceiveTake, IpcReceive
    <3>2. CASE d # c
      BY <2>1, <2>4, <3>2 DEF ReceiveTake, IpcReceive
    <3> QED
      BY <3>1, <3>2
  <2> QED
    BY <2>2, <2>3, <2>4
       DEF Use, Library, SendBlocked, ReceiveWaiting, Receive, Abandon
<1> QED
  BY <1>1, Invariant, PTL DEF Spec, OutsidersHarmless
=============================================================================

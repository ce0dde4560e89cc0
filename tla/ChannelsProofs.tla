--------------------------- MODULE ChannelsProofs ---------------------------
(***************************************************************************)
(* What the handlers of Channels and the library keep, whoever calls them, *)
(* for any processes, channels and messages.                               *)
(***************************************************************************)
EXTENDS Channels, TLAPS

Channel == [end : [Ends -> Procs \cup {0}], pids_connected : 0 .. 2,
            on : [Ends -> BOOLEAN], data : [Ends -> Messages \cup {0}]]

\* The ends of a channel that has them are its first two users.
EndsSet ==
  \A c \in Chids :
    /\ chan[c].pids_connected = 0 => chan[c].end[1] = 0 /\ chan[c].end[2] = 0
    /\ chan[c].pids_connected = 1 => chan[c].end[2] = 0

USE ChannelsAssumption
-----------------------------------------------------------------------------
LEMMA WhichEnd ==
  ASSUME NEW p, NEW c
  PROVE  /\ which_end(p, c) \in Ends \cup {-1}
         /\ which_end(p, c) = 1 <=> p = chan[c].end[1]
         /\ which_end(p, c) = 2 <=> p # chan[c].end[1] /\ p = chan[c].end[2]
         /\ which_end(p, c) \in Ends => chan[c].end[which_end(p, c)] = p
  BY DEF which_end, Ends

LEMMA OtherEnd == \A e \in Ends : Other(e) \in Ends /\ Other(Other(e)) = e
  BY DEF Ends, Other

\* What chanend makes of a channel with one end, and of one with none.
WithSecond(r, p) == [r EXCEPT !.end[2] = p, !.pids_connected = 2]
WithFirst(p) == [NoChannel EXCEPT !.end[1] = p, !.pids_connected = 1]

LEMMA SecondEnd ==
  ASSUME NEW p \in Procs, NEW r \in Channel
  PROVE  /\ WithSecond(r, p) \in Channel
         /\ WithSecond(r, p).pids_connected = 2
         /\ WithSecond(r, p).end[1] = r.end[1] /\ WithSecond(r, p).end[2] = p
         /\ WithSecond(r, p).on = r.on /\ WithSecond(r, p).data = r.data
<1> SUFFICES ASSUME NEW new, new = WithSecond(r, p)
             PROVE  /\ new \in Channel
                    /\ new.pids_connected = 2
                    /\ new.end[1] = r.end[1] /\ new.end[2] = p
                    /\ new.on = r.on /\ new.data = r.data
  OBVIOUS
<1>1. new.end \in [Ends -> Procs \cup {0}]
  BY DEF Channel, WithSecond
<1>2. new.pids_connected = 2 /\ new.on = r.on /\ new.data = r.data
  BY DEF Channel, WithSecond
<1>3. new = [end |-> new.end, pids_connected |-> new.pids_connected,
             on |-> new.on, data |-> new.data]
  BY DEF Channel, WithSecond
<1>4. new.end[1] = r.end[1] /\ new.end[2] = p
  BY DEF Channel, Ends, WithSecond
<1> QED
  BY <1>1, <1>2, <1>3, <1>4 DEF Channel

LEMMA Fresh ==
  /\ NoChannel \in Channel
  /\ NoChannel.end[2] = 0
  /\ \A e \in Ends : ~NoChannel.on[e] /\ NoChannel.data[e] = 0
<1>1. NoChannel.end \in [Ends -> Procs \cup {0}]
  BY DEF NoChannel
<1>2. NoChannel.on \in [Ends -> BOOLEAN]
  BY DEF NoChannel
<1>3. NoChannel.data \in [Ends -> Messages \cup {0}]
  BY DEF NoChannel
<1>4. NoChannel = [end |-> NoChannel.end, pids_connected |-> 0,
                   on |-> NoChannel.on, data |-> NoChannel.data]
  BY DEF NoChannel
<1>5. NoChannel \in Channel
  BY <1>1, <1>2, <1>3, <1>4 DEF Channel
<1> QED
  BY <1>5 DEF NoChannel, Ends

LEMMA FirstEnd ==
  ASSUME NEW p \in Procs
  PROVE  /\ WithFirst(p) \in Channel
         /\ WithFirst(p).pids_connected = 1
         /\ WithFirst(p).end[1] = p /\ WithFirst(p).end[2] = 0
         /\ \A e \in Ends : ~WithFirst(p).on[e] /\ WithFirst(p).data[e] = 0
<1> SUFFICES ASSUME NEW new, new = WithFirst(p)
             PROVE  /\ new \in Channel
                    /\ new.pids_connected = 1
                    /\ new.end[1] = p /\ new.end[2] = 0
                    /\ \A e \in Ends : ~new.on[e] /\ new.data[e] = 0
  OBVIOUS
<1>1. new.end \in [Ends -> Procs \cup {0}]
  BY Fresh DEF Channel, WithFirst
<1>2. /\ new.pids_connected = 1
      /\ new.on = NoChannel.on /\ new.data = NoChannel.data
  BY Fresh DEF Channel, WithFirst
<1>3. new = [end |-> new.end, pids_connected |-> new.pids_connected,
             on |-> new.on, data |-> new.data]
  BY Fresh DEF Channel, WithFirst
<1>4. new.end[1] = p /\ new.end[2] = 0
  BY Fresh DEF Channel, Ends, WithFirst
<1> QED
  BY <1>1, <1>2, <1>3, <1>4, Fresh DEF Channel

\* The three outcomes of chanend.
LEMMA ChanendCases ==
  ASSUME ChannelsTypeOK, NEW p \in Procs, NEW c \in Chids, chanend(p, c)
  PROVE  \/ /\ chan[c].pids_connected = 2
            /\ UNCHANGED chan /\ Answer(p, -1)
         \/ /\ chan[c].pids_connected = 1
            /\ chan' = [chan EXCEPT ![c] = WithSecond(chan[c], p)] /\ Answer(p, c)
         \/ /\ chan[c].pids_connected = 0
            /\ chan' = [chan EXCEPT ![c] = WithFirst(p)] /\ Answer(p, c)
<1>1. chan \in [Chids -> Channel] /\ chan[c].pids_connected \in 0 .. 2
  BY DEF ChannelsTypeOK, Channel
<1>2. CASE chan[c].pids_connected = 1
  BY <1>1, <1>2 DEF chanend, WithSecond
<1>3. CASE chan[c].pids_connected = 0
  BY <1>1, <1>3 DEF chanend, WithFirst
<1>4. CASE chan[c].pids_connected = 2
  BY <1>1, <1>4 DEF chanend
<1> QED
  BY <1>1, <1>2, <1>3, <1>4

LEMMA ChanendTyped ==
  ASSUME ChannelsTypeOK, EndsSet, NEW p \in Procs, NEW c \in Chids, chanend(p, c)
  PROVE  ChannelsTypeOK' /\ EndsSet'
<1>1. chan \in [Chids -> Channel]
  BY DEF ChannelsTypeOK, Channel
<1>2. reply' \in [Procs -> Messages \cup Chids \cup {-1, 0}] /\ call' = call
  BY DEF chanend, Answer, ChannelsTypeOK
<1>3. chan' \in [Chids -> Channel] /\ EndsSet'
  <2>1. WithFirst(p) \in Channel
        /\ WithFirst(p).pids_connected = 1 /\ WithFirst(p).end[2] = 0
    BY FirstEnd
  <2>2. /\ WithSecond(chan[c], p) \in Channel
        /\ WithSecond(chan[c], p).pids_connected = 2
    BY <1>1, SecondEnd
  <2>3. CASE UNCHANGED chan
    BY <1>1, <2>3 DEF EndsSet
  <2>4. CASE chan' = [chan EXCEPT ![c] = WithSecond(chan[c], p)]
    <3> PICK new \in Channel : new = WithSecond(chan[c], p)
      BY <2>2
    <3> QED
      BY <1>1, <2>2, <2>4 DEF EndsSet
  <2>5. CASE chan' = [chan EXCEPT ![c] = WithFirst(p)]
    <3> PICK new \in Channel : new = WithFirst(p)
      BY <2>1
    <3> QED
      BY <1>1, <2>1, <2>5 DEF EndsSet
  <2> QED
    BY <2>3, <2>4, <2>5, ChanendCases
<1> QED
  BY <1>2, <1>3 DEF ChannelsTypeOK, Channel

\* A message changes no end.
LEMMA SendTyped ==
  ASSUME ChannelsTypeOK, NEW p \in Procs, NEW c \in Chids, NEW m \in Messages,
         Send(p, c, m)
  PROVE  /\ ChannelsTypeOK'
         /\ \A k \in Chids : /\ chan'[k].end = chan[k].end
                             /\ chan'[k].pids_connected = chan[k].pids_connected
<1>1. chan \in [Chids -> Channel]
  BY DEF ChannelsTypeOK, Channel
<1>2. /\ chan' \in [Chids -> Channel]
      /\ \A k \in Chids : /\ chan'[k].end = chan[k].end
                          /\ chan'[k].pids_connected = chan[k].pids_connected
  <2>1. CASE UNCHANGED chan
    BY <1>1, <2>1
  <2>2. ASSUME NEW to \in Ends,
               chan' = [chan EXCEPT ![c].on[to] = TRUE, ![c].data[to] = m]
        PROVE  <1>2
    <3> DEFINE new == [chan[c] EXCEPT !.on[to] = TRUE, !.data[to] = m]
    <3>1. /\ new \in Channel
          /\ new.end = chan[c].end /\ new.pids_connected = chan[c].pids_connected
      BY <1>1 DEF Channel
    <3>2. chan' = [chan EXCEPT ![c] = new]
      BY <1>1, <2>2
    <3> HIDE DEF new
    <3> QED
      BY <1>1, <3>1, <3>2
  <2> QED
    BY <2>1, <2>2, OtherEnd DEF Send, IpcSend
<1>3. call' \in [Procs -> [at : {"none", "blocked", "waiting", "take"},
                           c : Chids \cup {0}, end : {-1, 0, 1, 2}]]
  BY DEF Send, Goto, ChannelsTypeOK, Ends
<1> QED
  BY <1>2, <1>3 DEF Send, ChannelsTypeOK, Channel

LEMMA ReceiveTyped ==
  ASSUME ChannelsTypeOK, NEW p \in Procs, NEW c \in Chids, Receive(p, c)
  PROVE  ChannelsTypeOK' /\ UNCHANGED chan
  BY WhichEnd DEF Receive, Goto, ChannelsTypeOK, Ends

LEMMA TakeTyped ==
  ASSUME ChannelsTypeOK, NEW p \in Procs, ReceiveTake(p), call[p].c \in Chids
  PROVE  /\ ChannelsTypeOK'
         /\ \A k \in Chids : /\ chan'[k].end = chan[k].end
                             /\ chan'[k].pids_connected = chan[k].pids_connected
<1> DEFINE c == call[p].c
           e == which_end(p, c)
<1>1. chan \in [Chids -> Channel] /\ c \in Chids
  BY DEF ChannelsTypeOK, Channel
<1>2. CASE e \notin Ends
  BY <1>2 DEF ReceiveTake, IpcReceive, Answer, Return, NoCall, ChannelsTypeOK
<1>3. CASE e \in Ends
  <2>1. chan' = [chan EXCEPT ![c].on[e] = FALSE] /\ Answer(p, chan[c].data[e])
    BY <1>3 DEF ReceiveTake, IpcReceive
  <2>2. chan[c].data[e] \in Messages \cup {0}
    BY <1>1, <1>3 DEF Channel
  <2>3. reply' \in [Procs -> Messages \cup Chids \cup {-1, 0}]
    BY <2>1, <2>2 DEF Answer, ChannelsTypeOK
  <2>4. /\ chan' \in [Chids -> Channel]
        /\ \A k \in Chids : /\ chan'[k].end = chan[k].end
                            /\ chan'[k].pids_connected = chan[k].pids_connected
    <3> HIDE DEF e, c
    <3> QED
      BY <1>1, <1>3, <2>1 DEF Channel
  <2>5. call' \in [Procs -> [at : {"none", "blocked", "waiting", "take"},
                             c : Chids \cup {0}, end : {-1, 0, 1, 2}]]
    BY DEF ReceiveTake, Return, NoCall, ChannelsTypeOK
  <2> QED
    BY <2>3, <2>4, <2>5 DEF ChannelsTypeOK, Channel
<1> QED
  BY <1>2, <1>3

LEMMA BlockedWaitingTyped ==
  ASSUME ChannelsTypeOK, NEW p \in Procs, SendBlocked(p) \/ ReceiveWaiting(p)
  PROVE  ChannelsTypeOK' /\ UNCHANGED chan
  BY DEF SendBlocked, ReceiveWaiting, Return, Goto, NoCall, ChannelsTypeOK

LEMMA AbandonTyped ==
  ASSUME ChannelsTypeOK, NEW p \in Procs, Abandon(p)
  PROVE  ChannelsTypeOK' /\ UNCHANGED chan
  BY DEF Abandon, Return, Answer, NoCall, ChannelsTypeOK
=============================================================================

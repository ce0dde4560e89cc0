---------------------------- MODULE SystemProofs ----------------------------
(***************************************************************************)
(* P1 and P2 get each other's message, for any number of processes and     *)
(* whoever is ended when: first with a processor each, then as processes   *)
(* of the kernel.                                                          *)
(*                                                                         *)
(* The invariant follows the two messages.  An end of the channel belongs  *)
(* to one process at a time, and a process that takes an end over finds    *)
(* nothing to read on it (or the channel full): so what a process that     *)
(* still has to read finds was put there by the program at the other end,  *)
(* with its flag up.  A 5 is there only when there was a 12 to answer; and *)
(* two 12s leave both flags up for ever, in which state nobody reads.      *)
(***************************************************************************)
EXTENDS System, ChannelsProofs

EndOf(p) == which_end(p, 1)
Data == chan[1].data
On == chan[1].on
Connected == chan[1].pids_connected

Call == [at : {"none", "blocked", "waiting", "take"},
         c : Chids \cup {0}, end : {-1, 0, 1, 2}]

Mine(p) == IF prog[p] = "P1" THEN 12 ELSE 5
Theirs(p) == IF prog[p] = "P1" THEN 5 ELSE 12

\* p has an end of the channel.
Engaged(p) ==
  at[p] \in {"first", "second"} \/ (at[p] = "connected" /\ reply[p] # -1)

\* p has put its message on the channel; it is in receive, or has just
\* returned; it has the message of the other one.
Posted(p) == at[p] = "second" \/ (prog[p] = "P1" /\ at[p] = "first")
Receiving(p) == at[p] = IF prog[p] = "P1" THEN "second" ELSE "first"
Taken(p) == (Receiving(p) /\ Idle(p)) \/ (prog[p] = "P2" /\ at[p] = "second")

\* One process has both ends: the pid of the first was used again.
Same == Connected = 2 /\ chan[1].end[1] = chan[1].end[2]

InCall(p) ==
  /\ ~Idle(p) => call[p].c = 1 /\ call[p].end = EndOf(p)
  /\ call[p].at \in IF Receiving(p) THEN {"none", "waiting", "take"}
                    ELSE {"none", "blocked"}
  /\ at[p] = "connected" => Idle(p)

Talks(p) ==
  \E e \in Ends :
    /\ e = EndOf(p)
    /\ Posted(p) => Data[Other(e)] = Mine(p)
    /\ ~Posted(p) => Data[Other(e)] = 0 \/ Same
    /\ ~Taken(p) /\ Data[e] # 0 => On[e]
    /\ Taken(p) \/ call[p].at = "take" => Data[e] = Theirs(p)
    /\ Receiving(p) /\ Idle(p) => reply[p] = Theirs(p)
    /\ prog[p] = "P2" /\ at[p] = "second" => got[p] = 12

Program(p) ==
  /\ at[p] \notin {"first", "second"} => Idle(p)
  /\ at[p] \in Running \cup {"exited"} => prog[p] \in {"P1", "P2"}
  /\ Engaged(p) => InCall(p) /\ Talks(p)
  /\ at[p] = "exited" => got[p] = Theirs(p)

Messenger ==
  /\ Connected # 2 \/ Same => Data[1] = 0 /\ ~On[1]
  /\ Connected = 1 => (Data[2] # 0 => On[2])
  /\ \A e \in Ends : /\ On[e] => Data[e] # 0
                     /\ Data[e] = 5 => Data[Other(e)] = 12
  /\ Data[1] = 12 /\ Data[2] = 12 => On[1] /\ On[2]

IInv == TypeOK /\ EndsSet /\ Messenger /\ \A p \in Procs : Program(p)

USE ChannelsAssumption, HandshakeAssumption
-----------------------------------------------------------------------------
(***************************************************************************)
(* What the calls do, in these terms.                                      *)
(***************************************************************************)
\* The channel as a type; the process that has an end is not pid 0.
LEMMA TheChannel ==
  ASSUME TypeOK
  PROVE  /\ chan \in [Chids -> Channel] /\ 1 \in Chids
         /\ Connected \in {0, 1, 2}
         /\ \A e \in Ends : Data[e] \in {0, 5, 12} /\ On[e] \in BOOLEAN
         /\ \A p \in Procs : p # 0 /\ EndOf(p) \in {-1, 1, 2}
  BY WhichEnd DEF TypeOK, ChannelsTypeOK, Channel, Data, On, EndOf, Connected, Ends

LEMMA TakeEffect ==
  ASSUME TypeOK, NEW p \in Procs, NEW e \in Ends,
         EndOf(p) = e, call[p].c = 1, ReceiveTake(p)
  PROVE  /\ chan'[1].end = chan[1].end /\ Connected' = Connected
         /\ \A k \in Ends : Data'[k] = Data[k]
         /\ On'[e] = FALSE /\ On'[Other(e)] = On[Other(e)]
         /\ Idle(p)' /\ reply'[p] = Data[e]
         /\ \A q \in Procs : q # p => call'[q] = call[q] /\ reply'[q] = reply[q]
<1>1. chan \in [Chids -> Channel] /\ 1 \in Chids
  BY TheChannel
<1>2. chan' = [chan EXCEPT ![1].on[e] = FALSE] /\ Answer(p, Data[e])
  BY DEF ReceiveTake, IpcReceive, EndOf, Data
<1>3. Other(e) \in Ends /\ Other(e) # e
  BY DEF Other, Ends
<1>4. /\ Idle(p)' /\ reply'[p] = Data[e]
      /\ \A q \in Procs : q # p => call'[q] = call[q] /\ reply'[q] = reply[q]
  BY <1>2 DEF ReceiveTake, Return, Answer, Idle, NoCall, TypeOK, ChannelsTypeOK
<1> QED
  BY <1>1, <1>2, <1>3, <1>4 DEF Channel, On, Data, Connected

LEMMA ChanendEffect ==
  ASSUME TypeOK, NEW p \in Procs, chanend(p, 1)
  PROVE  /\ call' = call
         /\ \A q \in Procs : q # p => reply'[q] = reply[q]
         /\ \/ /\ Connected = 2 /\ UNCHANGED chan
               /\ reply'[p] = -1
            \/ /\ Connected = 1 /\ Connected' = 2
               /\ chan'[1].end[1] = chan[1].end[1] /\ chan'[1].end[2] = p
               /\ \A e \in Ends : Data'[e] = Data[e] /\ On'[e] = On[e]
               /\ reply'[p] = 1
            \/ /\ Connected = 0 /\ Connected' = 1
               /\ chan'[1].end[1] = p /\ chan'[1].end[2] = 0
               /\ \A e \in Ends : Data'[e] = 0 /\ ~On'[e]
               /\ reply'[p] = 1
<1>1. chan \in [Chids -> Channel] /\ 1 \in Chids /\ ChannelsTypeOK
  BY TheChannel DEF TypeOK
<1>2. CASE Connected = 2
  <2>1. UNCHANGED chan /\ Answer(p, -1)
    BY <1>1, <1>2, ChanendCases DEF Connected
  <2> QED
    BY <1>2, <2>1 DEF Answer, chanend, TypeOK, ChannelsTypeOK
<1>3. CASE Connected = 1
  <2>1. chan' = [chan EXCEPT ![1] = WithSecond(chan[1], p)] /\ Answer(p, 1)
    BY <1>1, <1>3, ChanendCases DEF Connected
  <2>2. chan[1] \in Channel
    BY <1>1
  <2> QED
    BY <1>1, <1>3, <2>1, <2>2, SecondEnd DEF Connected, Data, On, Answer, chanend, TypeOK,
                              ChannelsTypeOK
<1>4. CASE Connected = 0
  <2>1. chan' = [chan EXCEPT ![1] = WithFirst(p)] /\ Answer(p, 1)
    BY <1>1, <1>4, ChanendCases DEF Connected
  <2> QED
    BY <1>1, <1>4, <2>1, FirstEnd DEF Connected, Data, On, Answer, chanend, TypeOK,
                              ChannelsTypeOK
<1> QED
  BY <1>1, <1>2, <1>3, <1>4, TheChannel

LEMMA EndsSame ==
  ASSUME chan'[1].end = chan[1].end, Connected' = Connected
  PROVE  /\ \A q \in Procs : EndOf(q)' = EndOf(q)
         /\ Same' = Same
  BY DEF EndOf, which_end, Same

\* Two processes that have ends have different ones, unless one has both.
LEMMA OneEach ==
  ASSUME NEW p, NEW q, p # q, EndOf(p) \in Ends, EndOf(q) \in Ends
  PROVE  EndOf(q) = Other(EndOf(p)) /\ ~Same
  BY WhichEnd DEF EndOf, Same, Other, Ends

\* Another process sees no more of a step than what comes to its end.
LEMMA Elsewhere ==
  ASSUME IInv, NEW q \in Procs,
         prog'[q] = prog[q], at'[q] = at[q], got'[q] = got[q],
         call'[q] = call[q], reply'[q] = reply[q],
         EndOf(q)' = EndOf(q), Same => Same',
         Engaged(q) =>
           \A e \in Ends : e = EndOf(q) =>
             /\ Data'[Other(e)] = Data[Other(e)]
             /\ \/ Data'[e] = Data[e] /\ On'[e] = On[e]
                \/ On'[e] = TRUE /\ Data[e] = 0
  PROVE  Program(q)'
<1>1. Program(q)
  BY DEF IInv
<1>2. /\ Engaged(q)' = Engaged(q) /\ InCall(q)' = InCall(q) /\ Idle(q)' = Idle(q)
      /\ Posted(q)' = Posted(q) /\ Receiving(q)' = Receiving(q)
      /\ Taken(q)' = Taken(q) /\ Mine(q)' = Mine(q) /\ Theirs(q)' = Theirs(q)
  BY DEF Engaged, InCall, Idle, Posted, Receiving, Taken, Mine, Theirs
<1>3. ASSUME Engaged(q)
      PROVE  Talks(q)'
  <2>1. PICK e \in Ends :
          /\ e = EndOf(q)
          /\ Posted(q) => Data[Other(e)] = Mine(q)
          /\ ~Posted(q) => Data[Other(e)] = 0 \/ Same
          /\ ~Taken(q) /\ Data[e] # 0 => On[e]
          /\ Taken(q) \/ call[q].at = "take" => Data[e] = Theirs(q)
          /\ Receiving(q) /\ Idle(q) => reply[q] = Theirs(q)
          /\ prog[q] = "P2" /\ at[q] = "second" => got[q] = 12
    BY <1>1, <1>3 DEF Program, Talks
  <2>2. Theirs(q) # 0
    BY DEF Theirs
  <2>3. /\ Data'[Other(e)] = Data[Other(e)]
        /\ \/ Data'[e] = Data[e] /\ On'[e] = On[e]
           \/ On'[e] = TRUE /\ ~Taken(q) /\ call[q].at # "take"
    BY <1>3, <2>1, <2>2
  <2>4. /\ e = EndOf(q)'
        /\ Posted(q) => Data'[Other(e)] = Mine(q)
        /\ ~Posted(q) => Data'[Other(e)] = 0 \/ Same'
        /\ ~Taken(q) /\ Data'[e] # 0 => On'[e]
        /\ Taken(q) \/ call'[q].at = "take" => Data'[e] = Theirs(q)
        /\ Receiving(q) /\ Idle(q) => reply'[q] = Theirs(q)
        /\ prog'[q] = "P2" /\ at'[q] = "second" => got'[q] = 12
    BY <2>1, <2>3
  <2> QED
    BY <1>2, <2>4 DEF Talks
<1> QED
  BY <1>1, <1>2, <1>3 DEF Program

\* What a process that has an end knows.
LEMMA TalksOf ==
  ASSUME IInv, NEW p \in Procs, Engaged(p)
  PROVE  /\ EndOf(p) \in Ends /\ prog[p] \in {"P1", "P2"}
         /\ Mine(p) \in Messages /\ Theirs(p) \in Messages
         /\ InCall(p)
         /\ Posted(p) => Data[Other(EndOf(p))] = Mine(p)
         /\ ~Posted(p) => Data[Other(EndOf(p))] = 0 \/ Same
         /\ ~Taken(p) /\ Data[EndOf(p)] # 0 => On[EndOf(p)]
         /\ Taken(p) \/ call[p].at = "take" => Data[EndOf(p)] = Theirs(p)
         /\ Receiving(p) /\ Idle(p) => reply[p] = Theirs(p)
         /\ prog[p] = "P2" /\ at[p] = "second" => got[p] = 12
<1>1. Program(p)
  BY DEF IInv
<1>2. prog[p] \in {"P1", "P2"} /\ Talks(p) /\ InCall(p)
  BY <1>1 DEF Program, Engaged, Running
<1>3. Mine(p) \in Messages /\ Theirs(p) \in Messages
  BY DEF Mine, Theirs
<1> QED
  BY <1>2, <1>3 DEF Talks

\* A program posts its message.
LEMMA PostKeeps ==
  ASSUME IInv, NEW p \in Procs, Engaged(p), ~Posted(p),
         prog[p] = "P2" => Taken(p),
         prog[p] = "P1" => ~Taken(p),
         Send(p, 1, Mine(p)),
         \A q \in Procs : q # p => /\ prog'[q] = prog[q] /\ at'[q] = at[q]
                                   /\ got'[q] = got[q]
  PROVE  Messenger' /\ \A q \in Procs : q # p => Program(q)'
<1>0. PICK e \in Ends, m \in Messages : e = EndOf(p) /\ m = Mine(p)
  BY TalksOf
<1> DEFINE o == Other(e)
<1>1. o \in Ends /\ Other(o) = e /\ o # e
  BY DEF Other, Ends
<1>2. /\ chan'[1].end = chan[1].end /\ Connected' = Connected
      /\ On'[o] = TRUE /\ Data'[o] = m
      /\ On'[e] = On[e] /\ Data'[e] = Data[e]
      /\ \A q \in Procs : q # p => call'[q] = call[q]
      /\ reply' = reply
  <2>1. chan \in [Chids -> Channel] /\ 1 \in Chids
    BY TheChannel DEF IInv
  <2>2. chan' = [chan EXCEPT ![1].on[o] = TRUE, ![1].data[o] = m]
    BY <1>0 DEF Send, IpcSend, EndOf
  <2> HIDE DEF o
  <2>3. /\ chan'[1].end = chan[1].end
        /\ chan'[1].pids_connected = chan[1].pids_connected
        /\ chan'[1].on = [chan[1].on EXCEPT ![o] = TRUE]
        /\ chan'[1].data = [chan[1].data EXCEPT ![o] = m]
    BY <2>1, <2>2 DEF Channel
  <2>4. /\ chan[1].on \in [Ends -> BOOLEAN]
        /\ chan[1].data \in [Ends -> Messages \cup {0}]
    BY <2>1 DEF Channel
  <2>5. On'[o] = TRUE /\ Data'[o] = m /\ On'[e] = On[e] /\ Data'[e] = Data[e]
    BY <1>1, <2>3, <2>4 DEF On, Data
  <2>6. reply' = reply /\ \A q \in Procs : q # p => call'[q] = call[q]
    BY DEF Send, Goto, IInv, TypeOK, ChannelsTypeOK
  <2> QED
    BY <2>3, <2>5, <2>6 DEF Connected
<1>3. /\ Data[o] = 0 \/ Same
      /\ m \in {5, 12}
      /\ m = 5 => Data[e] = 12
      /\ m = 12 => (Data[e] # 0 => On[e])
  BY <1>0, TalksOf DEF Mine, Theirs
<1>4. \A q \in Procs : EndOf(q)' = EndOf(q)
  BY <1>2, EndsSame
<1>5. Same' = Same
  BY <1>2, EndsSame
<1>6. ASSUME NEW q \in Procs, q # p
      PROVE  Program(q)'
  <2>1. ASSUME Engaged(q)
        PROVE  EndOf(q) = o /\ ~Same
    BY <1>0, <1>6, <2>1, TalksOf, OneEach
  <2>2. Engaged(q) =>
          \A k \in Ends : k = EndOf(q) =>
            /\ Data'[Other(k)] = Data[Other(k)]
            /\ \/ Data'[k] = Data[k] /\ On'[k] = On[k]
               \/ On'[k] = TRUE /\ Data[k] = 0
    BY <1>1, <1>2, <1>3, <2>1
  <2>3. call'[q] = call[q] /\ reply'[q] = reply[q]
    BY <1>2, <1>6
  <2> HIDE DEF o
  <2> QED
    BY <1>4, <1>5, <1>6, <2>2, <2>3, Elsewhere
<1>7. Messenger'
  <2>1. Connected \in {1, 2} /\ (Connected = 1 => e = 1)
    BY <1>0, TheChannel, WhichEnd DEF IInv, EndsSet, EndOf, Connected, Ends
  <2>2. Same => e = 1
    BY <1>0, WhichEnd DEF Same, EndOf, Ends
  <2>3. (e = 1 /\ o = 2) \/ (e = 2 /\ o = 1)
    BY <1>0 DEF Ends, Other
  <2> HIDE DEF o
  <2>4. Messenger
    BY DEF IInv
  <2>5. e = 1 \/ (Connected = 2 /\ ~Same)
    BY <2>1, <2>2, <2>3
  <2>6. CASE e = 1
    BY <1>2, <1>3, <1>5, <2>1, <2>3, <2>4, <2>6 DEF Messenger, Ends, Other
  <2>7. CASE e = 2
    BY <1>2, <1>3, <1>5, <2>1, <2>2, <2>3, <2>4, <2>7 DEF Messenger, Ends, Other
  <2> QED
    BY <2>3, <2>6, <2>7
<1> QED
  BY <1>6, <1>7

\* A step that leaves the channel alone disturbs nobody else.
LEMMA QuietKeeps ==
  ASSUME IInv, NEW p \in Procs, UNCHANGED chan,
         \A q \in Procs : q # p => /\ prog'[q] = prog[q] /\ at'[q] = at[q]
                                   /\ got'[q] = got[q] /\ call'[q] = call[q]
                                   /\ reply'[q] = reply[q]
  PROVE  /\ Messenger' /\ Same' = Same /\ Data' = Data /\ On' = On
         /\ \A q \in Procs : EndOf(q)' = EndOf(q)
         /\ \A q \in Procs : q # p => Program(q)'
<1>1. /\ Connected' = Connected /\ chan'[1].end = chan[1].end
      /\ Data' = Data /\ On' = On
  BY DEF Connected, Data, On
<1>2. Same' = Same /\ \A q \in Procs : EndOf(q)' = EndOf(q)
  BY <1>1, EndsSame
<1>3. Messenger'
  BY <1>1, <1>2 DEF IInv, Messenger
<1>4. ASSUME NEW q \in Procs, q # p
      PROVE  Program(q)'
  BY <1>1, <1>2, <1>4, Elsewhere
<1> QED
  BY <1>1, <1>2, <1>3, <1>4

\* A process that gets an end finds nothing posted on the other one, nor, if it
\* gets both, on its own.
LEMMA ConnectKeeps ==
  ASSUME IInv, NEW p \in Procs, Connect(p)
  PROVE  Messenger' /\ \A q \in Procs : Program(q)'
<1>1. /\ at[p] = "start" /\ prog' = prog /\ got' = got
      /\ at' = [at EXCEPT ![p] = "connected"]
      /\ at \in [Procs -> Running \cup {"none", "exited", "unserved"}]
      /\ chanend(p, 1) /\ TypeOK
  BY DEF Connect, Step, IInv, TypeOK
<1>2. at'[p] = "connected" /\ \A q \in Procs : q # p => at'[q] = at[q]
  BY <1>1
<1>3. /\ call' = call /\ \A q \in Procs : q # p => reply'[q] = reply[q]
      /\ Idle(p) /\ Idle(p)'
      /\ prog[p] \in {"P1", "P2"}
  BY <1>1, ChanendEffect DEF IInv, Program, Running, Idle
<1>4. CASE Connected = 2
  <2>1. UNCHANGED chan /\ reply'[p] = -1
    BY <1>1, <1>4, ChanendEffect
  <2>2. Program(p)'
    BY <1>2, <1>3, <1>1, <2>1 DEF Program, Engaged
  <2> QED
    BY <1>1, <1>2, <1>3, <2>1, <2>2, QuietKeeps
<1>5. CASE Connected = 1
  <2>1. /\ Connected' = 2 /\ reply'[p] = 1
        /\ chan'[1].end[1] = chan[1].end[1] /\ chan'[1].end[2] = p
        /\ \A e \in Ends : Data'[e] = Data[e] /\ On'[e] = On[e]
    BY <1>1, <1>5, ChanendEffect
  <2>2. /\ chan[1].end[2] = 0 /\ Data[1] = 0 /\ ~On[1] /\ ~Same
        /\ Data[2] # 0 => On[2]
        /\ 1 \in Ends /\ 2 \in Ends
    BY <1>5 DEF IInv, EndsSet, Messenger, Connected, Same, Ends
  <2>3. EndOf(p)' \in Ends /\ (EndOf(p)' = 1 <=> Same')
    BY <2>1 DEF EndOf, which_end, Same, Ends
  <2>4. Messenger'
    BY <2>1, <2>2, <2>3 DEF IInv, Messenger, Ends, Other
  <2>5. Program(p)'
    <3> PICK e \in Ends : e = EndOf(p)'
      BY <2>3
    <3>1. /\ Data'[Other(e)] = 0 \/ Same'
          /\ Data'[e] # 0 => On'[e]
      BY <2>1, <2>2, <2>3 DEF Ends, Other
    <3>2. /\ ~Posted(p)' /\ ~Taken(p)' /\ ~Receiving(p)' /\ call'[p].at = "none"
      BY <1>2, <1>3 DEF Posted, Taken, Receiving, Idle
    <3>3. Talks(p)'
      BY <1>2, <3>1, <3>2 DEF Talks
    <3>4. InCall(p)'
      BY <1>3, <3>2 DEF InCall
    <3> QED
      BY <1>1, <1>2, <1>3, <3>3, <3>4 DEF Program
  <2>6. ASSUME NEW q \in Procs, q # p
        PROVE  Program(q)'
    <3>1. EndOf(q)' = EndOf(q)
      <4>1. q # 0
        BY <1>1, TheChannel
      <4> QED
        BY <2>1, <2>2, <2>6, <4>1 DEF EndOf, which_end
    <3>2. \A e \in Ends : Other(e) \in Ends
      BY OtherEnd
    <3> QED
      BY <1>1, <1>2, <1>3, <2>1, <2>2, <2>6, <3>1, <3>2, Elsewhere
  <2> QED
    BY <2>4, <2>5, <2>6
<1>6. CASE Connected = 0
  <2>1. /\ Connected' = 1 /\ reply'[p] = 1
        /\ chan'[1].end[1] = p /\ chan'[1].end[2] = 0
        /\ \A e \in Ends : Data'[e] = 0 /\ ~On'[e]
    BY <1>1, <1>6, ChanendEffect
  <2>2. Messenger'
    BY <2>1 DEF Messenger, Ends, Other
  <2>3. EndOf(p)' = 1 /\ 1 \in Ends /\ Other(1) \in Ends
    BY <2>1 DEF EndOf, which_end, Ends, Other
  <2>4. Program(p)'
    <3>1. /\ ~Posted(p)' /\ ~Taken(p)' /\ ~Receiving(p)' /\ call'[p].at = "none"
      BY <1>2, <1>3 DEF Posted, Taken, Receiving, Idle
    <3>2. Talks(p)'
      BY <1>2, <2>1, <2>3, <3>1 DEF Talks
    <3>3. InCall(p)'
      BY <1>3, <3>1 DEF InCall
    <3> QED
      BY <1>1, <1>2, <1>3, <3>2, <3>3 DEF Program
  <2>5. ASSUME NEW q \in Procs, q # p
        PROVE  Program(q)'
    <3>1. ~Engaged(q)
      <4>1. q # 0 /\ chan[1].end[1] = 0 /\ chan[1].end[2] = 0
        BY <1>1, <1>6, TheChannel DEF IInv, EndsSet, Connected
      <4>2. EndOf(q) \notin Ends
        BY <4>1 DEF EndOf, which_end, Ends
      <4> QED
        BY <4>2, TalksOf
    <3>2. ~Engaged(q)' /\ Idle(q)' = Idle(q)
      BY <1>2, <1>3, <2>5, <3>1 DEF Engaged, Idle
    <3>3. Program(q)
      BY DEF IInv
    <3> QED
      BY <1>1, <1>2, <2>5, <3>2, <3>3 DEF Program, Theirs
  <2> QED
    BY <2>2, <2>4, <2>5
<1> QED
  BY <1>1, <1>4, <1>5, <1>6, TheChannel

\* What a process finds in receive is the message of the other program.
LEMMA WaitingKeeps ==
  ASSUME IInv, NEW p \in Procs, ReceiveWaiting(p),
         UNCHANGED <<prog, at, got, killed>>
  PROVE  Messenger' /\ \A q \in Procs : Program(q)'
<1>1. /\ call[p].at = "waiting" /\ check(call[p].c) = call[p].end
      /\ call' = [call EXCEPT ![p] =
                    [at |-> "take", c |-> call[p].c, end |-> call[p].end]]
      /\ chan' = chan /\ reply' = reply /\ call \in [Procs -> Call]
  BY DEF ReceiveWaiting, Goto, IInv, TypeOK, ChannelsTypeOK, Call
<1>2. /\ call'[p] = [at |-> "take", c |-> call[p].c, end |-> call[p].end]
      /\ \A q \in Procs : q # p => call'[q] = call[q]
  BY <1>1
<1>3. Messenger' /\ Same' = Same /\ Data' = Data /\ On' = On
      /\ EndOf(p)' = EndOf(p)
      /\ \A q \in Procs : q # p => Program(q)'
  BY <1>1, <1>2, QuietKeeps
<1>4. ~Idle(p) /\ Engaged(p) /\ Receiving(p) /\ ~Taken(p)
  <2>1. Program(p) /\ ~Idle(p)
    BY <1>1 DEF IInv, Idle
  <2>2. Engaged(p)
    BY <2>1 DEF Program, Engaged
  <2> QED
    BY <1>1, <2>1, <2>2 DEF Program, InCall, Taken, Receiving
<1>5. PICK e \in Ends : e = EndOf(p)
  BY <1>4, TalksOf
<1>6. call[p].c = 1 /\ call[p].end = e
  BY <1>4, <1>5, TalksOf DEF InCall
<1>7. On[e] /\ ~On[Other(e)]
  <2>1. check(1) = e
    BY <1>1, <1>6
  <2> QED
    BY <1>5, <2>1 DEF check, On, Ends, Other
<1>8. Data[e] = Theirs(p)
  <2>1. Data[e] \in {5, 12} /\ Other(e) \in Ends
    BY <1>5, <1>7, TheChannel, OtherEnd DEF IInv, Messenger
  <2>2. CASE prog[p] = "P1"
    <3>1. Posted(p) /\ Data[Other(e)] = 12
      BY <1>4, <1>5, <2>2, TalksOf DEF Receiving, Posted, Mine
    <3>2. Data[e] # 12
      BY <1>5, <1>7, <3>1 DEF IInv, Messenger, Ends, Other
    <3> QED
      BY <2>1, <2>2, <3>2 DEF Theirs
  <2>3. CASE prog[p] = "P2"
    <3>1. ~Posted(p) /\ (Data[Other(e)] = 0 \/ Same)
      BY <1>4, <1>5, <2>3, TalksOf DEF Receiving, Posted
    <3>2. Data[e] # 5
      <4>1. CASE Data[Other(e)] = 0
        BY <1>5, <4>1 DEF IInv, Messenger
      <4>2. CASE Same
        BY <1>5, <4>2 DEF IInv, Messenger, Same, EndOf, which_end, Ends
      <4> QED
        BY <3>1, <4>1, <4>2
    <3> QED
      BY <2>1, <2>3, <3>2 DEF Theirs
  <2> QED
    BY <1>4, <2>2, <2>3, TalksOf
<1>9. Program(p)'
  <2>1. /\ Engaged(p)' = Engaged(p) /\ Posted(p)' = Posted(p)
        /\ Receiving(p)' = Receiving(p) /\ Taken(p)' = Taken(p)
        /\ Mine(p)' = Mine(p) /\ Theirs(p)' = Theirs(p) /\ ~Idle(p)'
    BY <1>1, <1>2, <1>4 DEF Engaged, Posted, Receiving, Taken, Mine, Theirs, Idle
  <2>2. Talks(p)'
    BY <1>3, <1>4, <1>5, <1>8, <2>1, TalksOf DEF Talks
  <2>3. InCall(p)'
    <3>1. InCall(p)
      BY <1>4, TalksOf
    <3>2. call'[p].at = "take" /\ call'[p].c = 1 /\ call'[p].end = EndOf(p)'
      BY <1>2, <1>3, <1>5, <1>6
    <3> QED
      BY <1>4, <2>1, <3>1, <3>2 DEF InCall
  <2> QED
    BY <1>4, <2>1, <2>2, <2>3 DEF IInv, Program
<1> QED
  BY <1>3, <1>9

\* A process that takes its message out leaves the other direction alone.
LEMMA TakeKeeps ==
  ASSUME IInv, NEW p \in Procs, ReceiveTake(p),
         UNCHANGED <<prog, at, got, killed>>
  PROVE  Messenger' /\ \A q \in Procs : Program(q)'
<1>1. call[p].at = "take" /\ ~Idle(p)
  BY DEF ReceiveTake, Idle
<1>2. Engaged(p) /\ Receiving(p) /\ ~Taken(p)
  <2>1. Program(p)
    BY DEF IInv
  <2>2. Engaged(p)
    BY <1>1, <2>1 DEF Program, Engaged
  <2> QED
    BY <1>1, <2>1, <2>2 DEF Program, InCall, Taken, Receiving
<1>3. PICK e \in Ends : e = EndOf(p)
  BY <1>2, TalksOf
<1>4. call[p].c = 1 /\ Data[e] = Theirs(p)
  BY <1>1, <1>2, <1>3, TalksOf DEF InCall
<1>5. /\ chan'[1].end = chan[1].end /\ Connected' = Connected
      /\ \A k \in Ends : Data'[k] = Data[k]
      /\ On'[e] = FALSE /\ On'[Other(e)] = On[Other(e)]
      /\ Idle(p)' /\ reply'[p] = Data[e]
      /\ \A q \in Procs : q # p => call'[q] = call[q] /\ reply'[q] = reply[q]
  BY <1>3, <1>4, TakeEffect DEF IInv
<1>6. Same' = Same /\ \A q \in Procs : EndOf(q)' = EndOf(q)
  BY <1>5, EndsSame
<1>7. ASSUME NEW q \in Procs, q # p
      PROVE  Program(q)'
  <2>1. ASSUME Engaged(q)
        PROVE  EndOf(q) = Other(e)
    BY <1>2, <1>3, <1>7, <2>1, TalksOf, OneEach
  <2>2. Engaged(q) =>
          \A k \in Ends : k = EndOf(q) =>
            Data'[Other(k)] = Data[Other(k)] /\ Data'[k] = Data[k] /\ On'[k] = On[k]
    BY <1>5, <2>1, OtherEnd
  <2> QED
    BY <1>5, <1>6, <1>7, <2>2, Elsewhere
<1>8. Messenger'
  <2>1. Theirs(p) # 0 /\ (Data[1] = 12 => Data[2] # 12)
    <3>1. CASE prog[p] = "P1"
      BY <1>2, <1>3, <1>4, <3>1, TalksOf DEF Theirs, Mine, Receiving, Posted, Ends, Other
    <3>2. CASE prog[p] = "P2"
      <4>1. Data[Other(e)] = 0 \/ Same
        BY <1>2, <1>3, <3>2, TalksOf DEF Receiving, Posted
      <4> QED
        BY <1>3, <3>2, <4>1 DEF IInv, Messenger, Theirs, Ends, Other
    <3> QED
      BY <1>2, <3>1, <3>2, TalksOf
  <2>2. Connected = 2 /\ ~Same
    <3>1. CASE e = 1
      BY <1>4, <2>1, <3>1 DEF IInv, Messenger
    <3>2. CASE e = 2
      <4>1. p # 0 /\ p = chan[1].end[2] /\ p # chan[1].end[1]
        BY <1>3, <3>2, TheChannel DEF IInv, EndOf, which_end
      <4> QED
        BY <4>1, TheChannel DEF IInv, EndsSet, Connected, Same
    <3> QED
      BY <1>3, <3>1, <3>2 DEF Ends
  <2> QED
    BY <1>3, <1>5, <1>6, <2>1, <2>2 DEF IInv, Messenger, Ends, Other
<1>9. Program(p)'
  <2>1. /\ Engaged(p)' = Engaged(p) /\ Posted(p)' = Posted(p)
        /\ Receiving(p)' = Receiving(p)
        /\ Mine(p)' = Mine(p) /\ Theirs(p)' = Theirs(p) /\ Taken(p)'
    BY <1>2, <1>5 DEF Engaged, Posted, Receiving, Taken, Mine, Theirs, Idle
  <2>2. Engaged(p)'
    BY <1>2 DEF Engaged, Receiving
  <2>3. Talks(p)'
    <3>1. Other(e) \in Ends /\ Data'[e] = Data[e] /\ Data'[Other(e)] = Data[Other(e)]
      BY <1>3, <1>5, OtherEnd
    <3>2. /\ Posted(p) => Data[Other(e)] = Mine(p)
          /\ ~Posted(p) => Data[Other(e)] = 0 \/ Same
          /\ prog[p] = "P2" /\ at[p] = "second" => got[p] = 12
      BY <1>2, <1>3, TalksOf
    <3>3. /\ e = EndOf(p)' /\ Data'[e] = Theirs(p) /\ reply'[p] = Theirs(p)
          /\ prog' = prog /\ at' = at /\ got' = got
      BY <1>3, <1>4, <1>5, <1>6, <3>1
    <3> QED
      BY <1>6, <2>1, <3>1, <3>2, <3>3 DEF Talks
  <2>4. InCall(p)'
    BY <1>2, <1>5, <2>1 DEF InCall, Idle
  <2> QED
    BY <1>2, <1>5, <2>1, <2>3, <2>4 DEF IInv, Program
<1> QED
  BY <1>7, <1>8, <1>9

\* send returns.
LEMMA BlockedKeeps ==
  ASSUME IInv, NEW p \in Procs, SendBlocked(p),
         UNCHANGED <<prog, at, got, killed>>
  PROVE  Messenger' /\ \A q \in Procs : Program(q)'
<1>1. /\ call[p].at = "blocked" /\ chan' = chan /\ reply' = reply /\ Idle(p)'
      /\ \A q \in Procs : q # p => call'[q] = call[q]
  BY DEF SendBlocked, Return, Idle, NoCall, IInv, TypeOK, ChannelsTypeOK
<1>2. Program(p) /\ ~Idle(p)
  BY <1>1 DEF IInv, Idle
<1>3. Engaged(p) /\ ~Receiving(p)
  <2>1. Engaged(p)
    BY <1>2 DEF Program, Engaged
  <2> QED
    BY <1>1, <1>2, <2>1 DEF Program, InCall
<1>4. /\ Messenger' /\ Same' = Same /\ Data' = Data /\ On' = On
      /\ EndOf(p)' = EndOf(p)
      /\ \A q \in Procs : q # p => Program(q)'
  BY <1>1, QuietKeeps
<1>5. /\ Engaged(p)' = Engaged(p) /\ Posted(p)' = Posted(p)
      /\ Receiving(p)' = Receiving(p) /\ Taken(p)' = Taken(p)
      /\ Mine(p)' = Mine(p) /\ Theirs(p)' = Theirs(p)
  BY <1>1, <1>3 DEF Engaged, Posted, Receiving, Taken, Mine, Theirs
<1>6. Talks(p)'
  <2>1. PICK e \in Ends : e = EndOf(p)
    BY <1>3, TalksOf
  <2> QED
    BY <1>1, <1>3, <1>4, <1>5, <2>1, TalksOf DEF Talks, Idle
<1>7. InCall(p)'
  BY <1>1, <1>3, <1>5 DEF InCall, Idle
<1>8. Program(p)'
  BY <1>1, <1>2, <1>3, <1>5, <1>6, <1>7 DEF Program
<1> QED
  BY <1>4, <1>8

\* The programs post.
LEMMA PostProgram ==
  ASSUME IInv, NEW p \in Procs,
         \/ /\ prog[p] = "P1" /\ reply[p] # -1 /\ got'[p] = got[p]
            /\ Step(p, "connected", "first")
         \/ /\ prog[p] = "P2" /\ got'[p] = reply[p]
            /\ Step(p, "first", "second"),
         \A q \in Procs : q # p => got'[q] = got[q],
         Send(p, 1, Mine(p))
  PROVE  Messenger' /\ \A q \in Procs : Program(q)'
<1>1. /\ at[p] \in {"connected", "first"} /\ prog' = prog
      /\ prog[p] = "P1" => at[p] = "connected" /\ reply[p] # -1 /\ at'[p] = "first"
      /\ prog[p] = "P2" => at[p] = "first" /\ at'[p] = "second"
      /\ prog[p] \in {"P1", "P2"}
      /\ \A q \in Procs : q # p => at'[q] = at[q]
  BY DEF Step, IInv, TypeOK
<1>2. Idle(p)
  BY DEF Send
<1>3. Engaged(p) /\ ~Posted(p) /\ (prog[p] = "P2" <=> Taken(p))
  BY <1>1, <1>2 DEF Engaged, Posted, Taken, Receiving
<1>4. Messenger' /\ \A q \in Procs : q # p => Program(q)'
  BY <1>1, <1>3, PostKeeps
<1>5. PICK e \in Ends : e = EndOf(p)
  BY <1>3, TalksOf
<1>6. /\ chan'[1].end = chan[1].end /\ Connected' = Connected
      /\ Data'[Other(e)] = Mine(p) /\ On'[e] = On[e] /\ Data'[e] = Data[e]
      /\ call'[p] = [at |-> "blocked", c |-> 1, end |-> e]
      /\ reply' = reply
  <2> DEFINE o == Other(e)
  <2>1. chan \in [Chids -> Channel] /\ 1 \in Chids /\ o \in Ends /\ o # e
    BY TheChannel DEF IInv, Ends, Other
  <2>2. /\ chan' = [chan EXCEPT ![1].on[o] = TRUE, ![1].data[o] = Mine(p)]
        /\ reply' = reply
        /\ call' = [call EXCEPT ![p] = [at |-> "blocked", c |-> 1, end |-> e]]
    BY <1>5 DEF Send, IpcSend, EndOf, Goto
  <2> HIDE DEF o
  <2>3. /\ chan'[1].end = chan[1].end
        /\ chan'[1].pids_connected = chan[1].pids_connected
        /\ chan'[1].on = [chan[1].on EXCEPT ![o] = TRUE]
        /\ chan'[1].data = [chan[1].data EXCEPT ![o] = Mine(p)]
    BY <2>1, <2>2 DEF Channel
  <2>4. /\ chan[1].on \in [Ends -> BOOLEAN]
        /\ chan[1].data \in [Ends -> Messages \cup {0}]
    BY <2>1 DEF Channel
  <2>5. Data'[o] = Mine(p) /\ On'[e] = On[e] /\ Data'[e] = Data[e]
    BY <2>1, <2>3, <2>4 DEF On, Data
  <2>6. call'[p] = [at |-> "blocked", c |-> 1, end |-> e]
    BY <2>2 DEF IInv, TypeOK, ChannelsTypeOK
  <2> QED
    BY <2>2, <2>3, <2>5, <2>6 DEF Connected, o
<1>7. EndOf(p)' = e
  BY <1>5, <1>6, EndsSame
<1>8. /\ Posted(p)' /\ ~Receiving(p)' /\ ~Idle(p)' /\ call'[p].at = "blocked"
      /\ Mine(p)' = Mine(p) /\ Theirs(p)' = Theirs(p)
      /\ Taken(p)' = Taken(p)
  BY <1>1, <1>3, <1>6 DEF Posted, Receiving, Idle, Mine, Theirs, Taken
<1>9. prog[p] = "P2" => got'[p] = 12
  BY <1>1, <1>2, <1>3, TalksOf DEF Receiving, Theirs
<1>10. Talks(p)'
  BY <1>1, <1>3, <1>5, <1>6, <1>7, <1>8, <1>9, TalksOf DEF Talks
<1>11. InCall(p)'
  BY <1>1, <1>6, <1>7, <1>8 DEF InCall
<1>12. Program(p)'
  BY <1>1, <1>10, <1>11 DEF Program
<1> QED
  BY <1>4, <1>12

\* The programs begin to receive.
LEMMA ReceiveProgram ==
  ASSUME IInv, NEW p \in Procs, UNCHANGED got, Receive(p, 1),
         \/ /\ prog[p] = "P1" /\ Step(p, "first", "second")
         \/ /\ prog[p] = "P2" /\ reply[p] # -1 /\ Step(p, "connected", "first")
  PROVE  Messenger' /\ \A q \in Procs : Program(q)'
<1>1. /\ at[p] \in {"connected", "first"} /\ prog' = prog
      /\ prog[p] = "P1" => at[p] = "first" /\ at'[p] = "second"
      /\ prog[p] = "P2" => at[p] = "connected" /\ reply[p] # -1 /\ at'[p] = "first"
      /\ prog[p] \in {"P1", "P2"}
      /\ \A q \in Procs : q # p => at'[q] = at[q]
  BY DEF Step, IInv, TypeOK
<1>2. Idle(p) /\ chan' = chan /\ reply' = reply
  BY DEF Receive
<1>3. Engaged(p) /\ (Posted(p) <=> prog[p] = "P1") /\ ~Taken(p)
  BY <1>1, <1>2 DEF Engaged, Posted, Taken, Receiving
<1>4. PICK e \in Ends : e = EndOf(p)
  BY <1>3, TalksOf
<1>5. /\ call'[p] = [at |-> "waiting", c |-> 1, end |-> e]
      /\ \A q \in Procs : q # p => call'[q] = call[q]
  BY <1>4 DEF Receive, Goto, EndOf, IInv, TypeOK, ChannelsTypeOK
<1>6. /\ Messenger' /\ Same' = Same /\ Data' = Data /\ On' = On
      /\ EndOf(p)' = EndOf(p)
      /\ \A q \in Procs : q # p => Program(q)'
  BY <1>1, <1>2, <1>5, QuietKeeps
<1>7. /\ Posted(p)' = Posted(p) /\ Receiving(p)' /\ ~Idle(p)' /\ ~Taken(p)'
      /\ call'[p].at = "waiting"
      /\ Mine(p)' = Mine(p) /\ Theirs(p)' = Theirs(p)
  BY <1>1, <1>5 DEF Posted, Receiving, Idle, Mine, Theirs, Taken
<1>8. Talks(p)'
  BY <1>1, <1>3, <1>4, <1>6, <1>7, TalksOf DEF Talks
<1>9. InCall(p)'
  BY <1>1, <1>4, <1>5, <1>6, <1>7 DEF InCall
<1>10. Program(p)'
  BY <1>1, <1>8, <1>9 DEF Program
<1> QED
  BY <1>6, <1>10

\* The programs end.
LEMMA ExitProgram ==
  ASSUME IInv, NEW p \in Procs, Idle(p), UNCHANGED ipc,
         Step(p, "second", "exited"),
         \/ prog[p] = "P1" /\ got'[p] = reply[p]
         \/ prog[p] = "P2" /\ got'[p] = got[p],
         \A q \in Procs : q # p => got'[q] = got[q]
  PROVE  Messenger' /\ \A q \in Procs : Program(q)'
<1>1. /\ at[p] = "second" /\ at'[p] = "exited" /\ prog' = prog
      /\ \A q \in Procs : q # p => at'[q] = at[q]
  BY DEF Step, IInv, TypeOK
<1>2. chan' = chan /\ call' = call /\ reply' = reply
  BY DEF ipc
<1>3. Messenger' /\ \A q \in Procs : q # p => Program(q)'
  BY <1>1, <1>2, QuietKeeps
<1>4. got'[p] = Theirs(p)
  BY <1>1, TalksOf DEF Engaged, Receiving, Theirs
<1>5. Program(p)'
  BY <1>1, <1>2, <1>4 DEF Program, Engaged, Theirs, Idle
<1> QED
  BY <1>3, <1>5

\* A program that got no end does nothing the others see.
LEMMA UnservedKeeps ==
  ASSUME IInv, NEW p \in Procs, UNCHANGED ipc,
         at[p] \in {"connected", "refused"}, at'[p] \in {"refused", "unserved"},
         UNCHANGED prog,
         \A q \in Procs : q # p => at'[q] = at[q] /\ got'[q] = got[q]
  PROVE  Messenger' /\ \A q \in Procs : Program(q)'
<1>1. chan' = chan /\ call' = call /\ reply' = reply
  BY DEF ipc
<1>2. Messenger' /\ \A q \in Procs : q # p => Program(q)'
  BY <1>1, QuietKeeps
<1>3. Idle(p) /\ prog[p] \in {"P1", "P2"}
  BY DEF IInv, Program, Running
<1>4. Program(p)'
  BY <1>1, <1>3 DEF Program, Engaged, Idle
<1> QED
  BY <1>2, <1>4

\* A process begins a program, or is gone.
LEMMA OutsideKeeps ==
  ASSUME IInv, NEW p \in Procs,
         Gone(p) \/ \E image \in {"P1", "P2"} : Start(p, image)
  PROVE  Messenger' /\ \A q \in Procs : Program(q)'
<1>1. /\ chan' = chan
      /\ at'[p] \in {"none", "start"}
      /\ at'[p] = "start" => prog'[p] \in {"P1", "P2"}
      /\ \A q \in Procs : q # p => /\ prog'[q] = prog[q] /\ at'[q] = at[q]
                                   /\ got'[q] = got[q] /\ call'[q] = call[q]
                                   /\ reply'[q] = reply[q]
  BY DEF Gone, Start, Abandon, Return, Answer, IInv, TypeOK, ChannelsTypeOK
<1>2. Idle(p)'
  <2>1. CASE Gone(p)
    BY <2>1 DEF Gone, Abandon, Return, NoCall, Idle, IInv, TypeOK, ChannelsTypeOK
  <2>2. CASE \E image \in {"P1", "P2"} : Start(p, image)
    BY <2>2 DEF Start, Running, IInv, Program, Idle
  <2> QED
    BY <2>1, <2>2
<1>3. Messenger' /\ \A q \in Procs : q # p => Program(q)'
  BY <1>1, QuietKeeps
<1>4. Program(p)'
  BY <1>1, <1>2 DEF Program, Engaged, Running
<1> QED
  BY <1>3, <1>4

-----------------------------------------------------------------------------
(***************************************************************************)
(* The types, and the whole invariant.                                     *)
(***************************************************************************)
\* What a step of the two programs leaves of the types.
LEMMA TypedStep ==
  ASSUME TypeOK, ChannelsTypeOK', NEW p \in Procs,
         prog' \in [Procs -> {"none", "P1", "P2"}],
         at' \in [Procs -> Running \cup {"none", "exited", "unserved"}],
         got' \in [Procs -> Messages \cup {-1, 0}],
         killed' \in BOOLEAN
  PROVE  TypeOK'
  BY DEF TypeOK

\* The channel's ends stay set up in order when they stay what they are.
LEMMA EndsStaySet ==
  ASSUME EndsSet,
         \A k \in Chids : /\ chan'[k].end = chan[k].end
                          /\ chan'[k].pids_connected = chan[k].pids_connected
  PROVE  EndsSet'
  BY DEF EndsSet

LEMMA InitIInv == Init => IInv
<1> SUFFICES ASSUME Init PROVE IInv
  OBVIOUS
<1>1. chan[1] = NoChannel /\ \A c \in Chids : chan[c] = NoChannel
  BY DEF Init, ChannelsInit
<1>2. TypeOK
  <2>1. chan \in [Chids -> Channel]
    BY Fresh DEF Init, ChannelsInit
  <2> QED
    BY <2>1 DEF Init, ChannelsInit, TypeOK, ChannelsTypeOK, Channel, NoCall
<1>3. EndsSet
  BY <1>1 DEF EndsSet, NoChannel, Ends
<1>4. Messenger
  <2>1. Connected = 0 /\ \A e \in Ends : Data[e] = 0 /\ ~On[e]
    BY <1>1 DEF NoChannel, Connected, Data, On
  <2> QED
    BY <2>1 DEF Messenger, Ends, Other
<1>5. ASSUME NEW p \in Procs
      PROVE  Program(p)
  BY DEF Init, ChannelsInit, NoCall, Program, Engaged, Idle, Running
<1> QED
  BY <1>2, <1>3, <1>4, <1>5 DEF IInv

\* A program's step keeps the invariant.
LEMMA ProcIInv ==
  ASSUME IInv, NEW p \in Procs, Proc(p)
  PROVE  IInv'
<1> USE DEF IInv
<1>1. TypeOK /\ ChannelsTypeOK /\ EndsSet /\ 1 \in Chids
  BY DEF TypeOK
<1>2. CASE Connect(p)
  <2>1. ChannelsTypeOK' /\ EndsSet'
    BY <1>1, <1>2, ChanendTyped DEF Connect
  <2>2. TypeOK'
    BY <1>1, <1>2, <2>1 DEF Connect, Step, TypeOK, Running
  <2> QED
    BY <1>2, <2>1, <2>2, ConnectKeeps
<1>3. CASE Gone(p) /\ UNCHANGED killed
  <2>1. ChannelsTypeOK' /\ UNCHANGED chan
    BY <1>1, <1>3, AbandonTyped DEF Gone
  <2>2. TypeOK'
    BY <1>1, <1>3, <2>1 DEF Gone, TypeOK
  <2>3. EndsSet'
    BY <1>1, <2>1 DEF EndsSet
  <2> QED
    BY <1>3, <2>2, <2>3, OutsideKeeps
<1>11. CASE \/ Step(p, "connected", "refused") /\ UNCHANGED <<ipc, got>>
            \/ Onward(p)
  <2>1. /\ UNCHANGED <<ipc, prog, killed>>
        /\ at[p] \in {"connected", "refused"}
        /\ \/ at' = [at EXCEPT ![p] = "refused"] /\ got' = got
           \/ at' = [at EXCEPT ![p] = "unserved"] /\ got' = [got EXCEPT ![p] = -1]
    BY <1>11 DEF Onward, Step
  <2>2. TypeOK' /\ EndsSet'
    BY <1>1, <2>1 DEF ipc, ChannelsTypeOK, EndsSet, TypeOK, Running
  <2>3. /\ at'[p] \in {"refused", "unserved"}
        /\ \A q \in Procs : q # p => at'[q] = at[q] /\ got'[q] = got[q]
    BY <1>1, <2>1 DEF TypeOK
  <2> QED
    BY <2>1, <2>2, <2>3, UnservedKeeps
<1>4. CASE prog[p] = "P1" /\ reply[p] # -1 /\ Step(p, "connected", "first")
           /\ Send(p, 1, 12) /\ UNCHANGED got
  <2>1. ChannelsTypeOK' /\ EndsSet'
    BY <1>1, <1>4, SendTyped, EndsStaySet
  <2>2. TypeOK'
    BY <1>1, <1>4, <2>1 DEF Step, TypeOK, Running
  <2>3. Mine(p) = 12
    BY <1>4 DEF Mine
  <2> QED
    BY <1>4, <2>1, <2>2, <2>3, PostProgram
<1>5. CASE prog[p] = "P1" /\ Step(p, "first", "second") /\ Receive(p, 1)
           /\ UNCHANGED got
  <2>1. ChannelsTypeOK' /\ UNCHANGED chan
    BY <1>1, <1>5, ReceiveTyped
  <2>2. TypeOK' /\ EndsSet'
    BY <1>1, <1>5, <2>1 DEF Step, TypeOK, Running, EndsSet
  <2> QED
    BY <1>5, <2>2, ReceiveProgram
<1>6. CASE prog[p] = "P1" /\ Idle(p) /\ Step(p, "second", "exited")
           /\ got' = [got EXCEPT ![p] = reply[p]] /\ UNCHANGED ipc
  <2>1. ChannelsTypeOK' /\ EndsSet'
    BY <1>1, <1>6 DEF ipc, ChannelsTypeOK, EndsSet
  <2>2. reply[p] \in Messages
    BY <1>6, TalksOf DEF Step, Engaged, Receiving
  <2>3. TypeOK'
    BY <1>1, <1>6, <2>1, <2>2 DEF Step, TypeOK, Running
  <2>4. got'[p] = reply[p] /\ \A q \in Procs : q # p => got'[q] = got[q]
    BY <1>1, <1>6 DEF TypeOK
  <2> QED
    BY <1>6, <2>1, <2>3, <2>4, ExitProgram
<1>7. CASE prog[p] = "P2" /\ reply[p] # -1 /\ Step(p, "connected", "first")
           /\ Receive(p, 1) /\ UNCHANGED got
  <2>1. ChannelsTypeOK' /\ UNCHANGED chan
    BY <1>1, <1>7, ReceiveTyped
  <2>2. TypeOK' /\ EndsSet'
    BY <1>1, <1>7, <2>1 DEF Step, TypeOK, Running, EndsSet
  <2> QED
    BY <1>7, <2>2, ReceiveProgram
<1>8. CASE prog[p] = "P2" /\ Step(p, "first", "second")
           /\ got' = [got EXCEPT ![p] = reply[p]] /\ Send(p, 1, 5)
  <2>1. ChannelsTypeOK' /\ EndsSet'
    BY <1>1, <1>8, SendTyped, EndsStaySet
  <2>2. reply[p] \in Messages
    BY <1>8, TalksOf DEF Step, Engaged, Receiving, Send
  <2>3. TypeOK'
    BY <1>1, <1>8, <2>1, <2>2 DEF Step, TypeOK, Running
  <2>4. got'[p] = reply[p] /\ \A q \in Procs : q # p => got'[q] = got[q]
    BY <1>1, <1>8 DEF TypeOK
  <2>5. Mine(p) = 5
    BY <1>8 DEF Mine
  <2> QED
    BY <1>8, <2>1, <2>3, <2>4, <2>5, PostProgram
<1>9. CASE prog[p] = "P2" /\ Idle(p) /\ Step(p, "second", "exited")
           /\ UNCHANGED <<ipc, got>>
  <2>1. TypeOK' /\ EndsSet'
    BY <1>1, <1>9 DEF ipc, ChannelsTypeOK, EndsSet, Step, TypeOK, Running
  <2> QED
    BY <1>9, <2>1, ExitProgram
<1>10. CASE Library(p) /\ UNCHANGED <<prog, at, got, killed>>
  <2>1. CASE SendBlocked(p) \/ ReceiveWaiting(p)
    <3>1. ChannelsTypeOK' /\ UNCHANGED chan
      BY <1>1, <2>1, BlockedWaitingTyped
    <3>2. TypeOK' /\ EndsSet'
      BY <1>1, <1>10, <3>1 DEF TypeOK, EndsSet
    <3> QED
      BY <1>10, <2>1, <3>2, BlockedKeeps, WaitingKeeps
  <2>2. CASE ReceiveTake(p)
    <3>1. call[p].c \in Chids
      <4>1. Program(p) /\ ~Idle(p)
        BY <2>2 DEF ReceiveTake, Idle
      <4> QED
        BY <1>1, <4>1 DEF Program, InCall, Engaged
    <3>2. ChannelsTypeOK' /\ EndsSet'
      BY <1>1, <2>2, <3>1, TakeTyped, EndsStaySet
    <3>3. TypeOK'
      BY <1>1, <1>10, <3>2 DEF TypeOK
    <3> QED
      BY <1>10, <2>2, <3>2, <3>3, TakeKeeps
  <2> QED
    BY <1>10, <2>1, <2>2 DEF Library
<1> QED
  BY <1>2, <1>3, <1>4, <1>5, <1>6, <1>7, <1>8, <1>9, <1>10, <1>11 DEF Proc, Refused, P1, P2

\* So does what is done to it from outside.
LEMMA UserIInv ==
  ASSUME IInv, NEW p \in Procs, User(p)
  PROVE  IInv'
<1>1. TypeOK /\ ChannelsTypeOK /\ EndsSet
  BY DEF IInv, TypeOK
<1>2. Gone(p) \/ \E image \in {"P1", "P2"} : Start(p, image)
  BY DEF User, Killed, Leave
<1>3. ChannelsTypeOK' /\ UNCHANGED chan
  <2>1. CASE Gone(p)
    BY <1>1, <2>1, AbandonTyped DEF Gone
  <2>2. CASE \E image \in {"P1", "P2"} : Start(p, image)
    BY <1>1, <2>2 DEF Start, Answer, ChannelsTypeOK
  <2> QED
    BY <1>2, <2>1, <2>2
<1>4. TypeOK'
  <2>1. CASE Killed(p) \/ Leave(p)
    BY <1>1, <1>3, <2>1 DEF Killed, Leave, Gone, TypeOK
  <2>2. ASSUME NEW image \in {"P1", "P2"}, Start(p, image)
        PROVE  TypeOK'
    BY <1>1, <1>3, <2>2 DEF Start, TypeOK, Running
  <2> QED
    BY <2>1, <2>2 DEF User
<1>5. EndsSet'
  BY <1>1, <1>3 DEF EndsSet
<1> QED
  BY <1>2, <1>4, <1>5, OutsideKeeps DEF IInv

LEMMA NextIInv == IInv /\ [Next]_handshake => IInv'
<1> SUFFICES ASSUME IInv, [Next]_handshake PROVE IInv'
  OBVIOUS
<1>1. CASE UNCHANGED handshake
  BY <1>1 DEF handshake, IInv, TypeOK, ChannelsTypeOK, EndsSet, Messenger, Program, Engaged,
              InCall, Talks, Posted, Receiving, Taken, Same, Mine, Theirs, Idle, Data, On,
              Connected, EndOf, which_end
<1> QED
  BY <1>1, ProcIInv, UserIInv DEF Next

LEMMA Invariant == Spec => []IInv
  BY InitIInv, NextIInv, PTL DEF Spec

\* The programs and their channel keep their types, whoever runs them
\* (P1.c:3-20, P2.c:10-27, hilevel.c:327-442).
THEOREM HandshakeTyped == Spec => []TypeOK
<1>1. IInv => TypeOK
  BY DEF IInv
<1> QED
  BY <1>1, Invariant, PTL

\* A program that got an end and has come to its last exit has the other one's
\* message, for any number of processes started, ended and started again in any
\* order, and exits that return (P1.c:12-19, P2.c:19-26, hilevel.c:363).
THEOREM MessagesExchanged == Spec => []Exchanged
<1>1. IInv => Exchanged
  BY DEF IInv, Program, Exchanged, Theirs
<1> QED
  BY <1>1, Invariant, PTL

-----------------------------------------------------------------------------
(***************************************************************************)
(* The same programs, run by the kernel.  What it does is known from       *)
(* KernelProofs, of the kernel KP; K is the same kernel.                   *)
(***************************************************************************)
KP == INSTANCE KernelProofs

LEMMA KernelAssumed == KP!KernelAssumption
BY SystemAssumption
   DEF K!KernelAssumption, KP!KernelAssumption, K!MaxBase, KP!MaxBase

LEMMA SamePids ==
  K!Pids = KP!Pids /\ K!Live = KP!Live /\ K!Live' = KP!Live'
BY DEF K!Pids, KP!Pids, K!Live, KP!Live, K!LiveIn, KP!LiveIn, K!InUse, KP!InUse,
       K!Alive, KP!Alive

LEMMA SameScheduler ==
  ASSUME NEW st, NEW n, NEW c, K!scheduler(st, n, c)
  PROVE  KP!scheduler(st, n, c)
BY DEF K!scheduler, KP!scheduler, K!table, KP!table, K!SwitchTo, KP!SwitchTo,
       K!Choice, KP!Choice, K!find_next_proc, KP!find_next_proc, K!Before, KP!Before,
       K!get_priority, KP!get_priority, K!LiveIn, KP!LiveIn, K!InUse, KP!InUse,
       K!Pids, KP!Pids, K!Alive, KP!Alive, K!Marked, KP!Marked, K!Ages, KP!Ages,
       K!Aged, KP!Aged, K!Older, KP!Older

LEMMA SameFork == K!Fork => KP!Fork
BY DEF K!Fork, KP!Fork, K!Empty, KP!Empty, K!find_empty_pcb, KP!find_empty_pcb,
       K!InUse, KP!InUse, K!Pids, KP!Pids, K!ForkInto, KP!ForkInto, K!Cleared, KP!Cleared,
       K!Paused, KP!Paused, K!ChildContext, KP!ChildContext, K!Result, KP!Result,
       K!StackTop, KP!StackTop, K!TOS_PROCS, KP!TOS_PROCS

LEMMA SameExec == ASSUME NEW image, K!Exec(image) PROVE KP!Exec(image)
BY DEF K!Exec, KP!Exec

\* TimerIRQ and yield, exit, and a kill that finds its process.
LEMMA SameSwitch == K!TimerIRQ \/ K!Yield => KP!TimerIRQ
BY SameScheduler DEF K!TimerIRQ, KP!TimerIRQ, K!Yield

LEMMA SameExit == K!Exit => KP!Exit
BY SameScheduler DEF K!Exit, KP!Exit, K!OneLess, KP!OneLess

LEMMA SameKill ==
  ASSUME NEW p \in K!Live, K!Kill(p)
  PROVE  /\ K!scheduler([status EXCEPT ![p] = "TERMINATED"], KP!OneLess, KP!Result(1))
         /\ KP!Kill(p)
<1>1. status[p] \in K!Alive
  BY DEF K!Live, K!LiveIn
<1>2. K!scheduler([status EXCEPT ![p] = "TERMINATED"], KP!OneLess, KP!Result(1))
  BY <1>1 DEF K!Kill, K!OneLess, KP!OneLess, K!Result, KP!Result
<1> QED
  BY <1>1, <1>2, SameScheduler DEF KP!Kill, K!Alive, KP!Alive

-----------------------------------------------------------------------------
(***************************************************************************)
(* Process table and programs agree.  The console is always there, so the  *)
(* scheduler always finds a process.  The process that executes is a live  *)
(* one, or the kernel counts one process and does not leave it; and then it*)
(* is not the child of a fork.                                             *)
(***************************************************************************)
Booked ==
  /\ KP!TypeOK /\ KP!AgeInv /\ KP!StackInv
  /\ tail_pid \in KP!Pids
  /\ 0 \in KP!Live
Resumed ==
  /\ Image(0) = Console
  /\ executing \in KP!Live \/ (progs_running = 1 /\ ~IsChild)

SysIInv == Booked /\ Resumed /\ Coupled /\ IInv

\* What every step has to show of the table.
Placed ==
  /\ tail_pid \in KP!Pids /\ 0 \in KP!Live
  /\ Resumed /\ Coupled

\* Every step of the system is one of the programs, or none: Execute, Poll and
\* the timer do not touch them.
LEMMA SysHandshake == [SysNext]_system => [Next]_handshake
BY SystemAssumption, Zenon
   DEF SysNext, system, Next, User, Interrupt, Execute, Child, Terminate, Run, FallBack, Poll

\* It is a step of the kernel, or only the executing process does something.
LEMMA SysKernel ==
  ASSUME Booked, [SysNext]_system
  PROVE  \/ [KP!Next]_(KP!vars)
         \/ \E p \in Procs : FallBack(p)
<1>1. tail_pid \in KP!Pids
  BY DEF Booked
<1>2. CASE Interrupt
  BY <1>1, <1>2, SameSwitch DEF Interrupt, KP!Next, KP!Calls
<1>3. CASE Execute
  BY <1>1, <1>3, SameFork DEF Execute, KP!Next, KP!Calls
<1>4. ASSUME NEW p \in Procs, Child(p)
      PROVE  KP!Next
  BY <1>1, <1>4, SameExec DEF Child, KP!Next, KP!Calls
<1>5. ASSUME NEW p \in Procs, Terminate(p)
      PROVE  KP!Next
  BY <1>1, <1>5, SameKill, SamePids, SystemAssumption DEF Terminate, KP!Next, KP!Calls
<1>6. ASSUME NEW p \in Procs, Run(p)
      PROVE  [KP!Next]_(KP!vars)
  BY <1>1, <1>6, SameExit DEF Run, KP!Next, KP!Calls, kernel, KP!vars
<1>7. ASSUME NEW p \in Procs, Poll(p)
      PROVE  KP!Next
  BY <1>1, <1>7, SameSwitch DEF Poll, KP!Next, KP!Calls
<1>8. CASE UNCHANGED system
  BY <1>8 DEF system, kernel, KP!vars
<1> QED
  BY <1>2, <1>3, <1>4, <1>5, <1>6, <1>7, <1>8 DEF SysNext

\* So what KernelProofs finds inductive for the kernel under any calls is kept.
LEMMA SysTable ==
  ASSUME Booked, [SysNext]_system
  PROVE  KP!TypeOK' /\ KP!AgeInv' /\ KP!StackInv'
<1>0. KP!TypeOK /\ KP!AgeInv /\ KP!StackInv
  BY DEF Booked
<1>1. CASE [KP!Next]_(KP!vars)
  <2>1. KP!TypeOK'
    BY <1>0, <1>1, KernelAssumed, KP!TypeNext
  <2> QED
    BY <1>0, <1>1, <2>1, KernelAssumed, KP!AgeNext, KP!StackNext
<1>2. ASSUME NEW p \in Procs, FallBack(p)
      PROVE  KP!TypeOK' /\ KP!AgeInv' /\ KP!StackInv'
  <2>1. /\ UNCHANGED <<tail_pid, executing, progs_running, scheduler_mode, pid, status, age,
                       base_priority, stack_top, saved, mem>>
        /\ ctx' = [ctx EXCEPT !.pc = Console, !.r0 = 1]
    BY <1>2 DEF FallBack
  <2>2. KP!TypeOK'
    <3>1. ctx' \in KP!Contexts
      <4> DEFINE c == [pc |-> Console, sp |-> ctx.sp, r0 |-> 1]
      <4>1. ctx = [pc |-> ctx.pc, sp |-> ctx.sp, r0 |-> ctx.r0] /\ ctx.sp \in Int
        BY <1>0 DEF KP!TypeOK, KP!Contexts
      <4>2. ctx' = c
        BY <2>1, <4>1
      <4> QED
        BY <4>1, <4>2 DEF KP!Contexts
    <3>2. KP!Contexts' = KP!Contexts /\ KP!Tops' = KP!Tops /\ KP!InUse' = KP!InUse
      BY <2>1 DEF KP!InUse
    <3> QED
      BY <1>0, <2>1, <3>1, <3>2 DEF KP!TypeOK
  <2>3. KP!AgeInv' /\ KP!StackInv'
    BY <1>0, <2>1 DEF KP!AgeInv, KP!AgeLevels, KP!Waiting, KP!get_priority, KP!Live,
                      KP!LiveIn, KP!InUse, KP!StackInv, KP!OwnTop
  <2> QED
    BY <2>2, <2>3
<1> QED
  BY <1>1, <1>2, SysKernel

\* A program takes a step only while it runs.
LEMMA ProcRuns ==
  ASSUME IInv, NEW p \in Procs, Proc(p) \/ call[p].at \in {"blocked", "waiting"}
  PROVE  at[p] \in Running /\ prog[p] \in {"P1", "P2"}
<1>1. ~Idle(p) => at[p] \in {"first", "second"}
  BY DEF IInv, Program
<1>2. CASE Library(p) \/ call[p].at \in {"blocked", "waiting"}
  <2>1. ~Idle(p)
    BY <1>2 DEF Library, SendBlocked, ReceiveWaiting, ReceiveTake, Idle
  <2> QED
    BY <1>1, <2>1 DEF Running, IInv, Program
<1>3. CASE Connect(p) \/ Refused(p) \/ Onward(p) \/ P1(p) \/ P2(p)
  <2>1. at[p] \in Running
    BY <1>3 DEF Connect, Refused, Onward, P1, P2, Step, Running
  <2> QED
    BY <2>1 DEF IInv, Program
<1> QED
  BY <1>2, <1>3 DEF Proc

\* The scheduler leaves every process in the image it was in, and leaves the
\* executing one only for a live one.
LEMMA SchedulerKeeps ==
  ASSUME Booked, NEW st \in [KP!Pids -> KP!Statuses], NEW n \in Nat \ {0}, NEW c,
         c.pc = ctx.pc, 0 \in KP!LiveIn(st), K!scheduler(st, n, c)
  PROVE  /\ tail_pid' = tail_pid /\ progs_running' = n
         /\ KP!Live' = KP!LiveIn(st)
         /\ \A p \in KP!Pids : Image(p)' = Image(p)
         /\ \/ executing' \in KP!Live' /\ n # 1
            \/ executing' = executing /\ ctx' = c /\ n = 1
<1>1. KP!scheduler(st, n, c)
  BY SameScheduler
<1>2. tail_pid' = tail_pid /\ progs_running' = n
  BY <1>1 DEF KP!scheduler, KP!table
<1>3. /\ KP!Live' = KP!LiveIn(st)
      /\ \/ executing' \in KP!Live' /\ status'[executing'] = "EXECUTING"
         \/ n <= 1 /\ UNCHANGED executing /\ status' = st
  BY <1>1, KernelAssumed, KP!SchedulerLive DEF Booked
<1>4. ASSUME NEW p \in KP!Pids
      PROVE  Image(p)' = Image(p)
  <2>1. KP!Registers(p)' = IF p = executing THEN c ELSE KP!Registers(p)
    BY <1>1, KernelAssumed, KP!SchedulerRegisters DEF Booked
  <2> QED
    BY <2>1 DEF KP!Registers, Image
<1>5. n = 1 => executing' = executing /\ ctx' = c
  BY <1>1 DEF KP!scheduler
<1> QED
  BY <1>2, <1>3, <1>4, <1>5

\* The pids of programs are those of the table but the console's, and K and KP
\* have the same.
LEMMA ThePids ==
  ASSUME Booked
  PROVE  /\ Procs = KP!Pids \ {0} /\ 0 \in KP!Pids /\ executing \in KP!Pids
         /\ KP!Live = {p \in KP!Pids : p <= tail_pid /\ status[p] \in KP!Alive}
         /\ status \in [KP!Pids -> KP!Statuses]
         /\ progs_running \in Nat \ {0} /\ ctx \in KP!Contexts
BY SystemAssumption, SamePids
   DEF Booked, KP!TypeOK, KP!Live, KP!LiveIn, KP!InUse, KP!Statuses

\* A switch that ends nobody.
LEMMA SwitchCoupled ==
  ASSUME SysIInv, K!TimerIRQ \/ K!Yield, UNCHANGED handshake
  PROVE  Placed'
<1>0. Booked /\ Resumed /\ Coupled
  BY DEF SysIInv
<1>1. K!scheduler(status, progs_running, ctx) /\ KP!LiveIn(status) = KP!Live
  BY DEF K!TimerIRQ, K!Yield, KP!Live
<1>2. /\ tail_pid' = tail_pid /\ KP!Live' = KP!Live /\ progs_running' = progs_running
      /\ \A p \in KP!Pids : Image(p)' = Image(p)
      /\ \/ executing' \in KP!Live' /\ progs_running # 1
         \/ executing' = executing /\ ctx' = ctx
  BY <1>0, <1>1, ThePids, SchedulerKeeps DEF Booked
<1>3. Resumed'
  BY <1>0, <1>2, ThePids DEF Resumed, IsChild
<1>4. Coupled'
  <2>1. \A q \in Procs : Holds(q)' <=> Holds(q)
    BY <1>0, <1>2, SamePids DEF Holds, Resumed
  <2> QED
    BY <1>0, <1>2, <2>1, ThePids, SamePids DEF Coupled, handshake
<1> QED
  BY <1>0, <1>2, <1>3, <1>4 DEF Booked, Placed

\* A process ends, killed by a shell or by itself, and its program with it; or its
\* exit returns.
LEMMA EndCoupled ==
  ASSUME SysIInv, NEW p \in Procs, NEW c, c.pc = ctx.pc, c.r0 # 0 \/ c.pc # Console,
         K!scheduler([status EXCEPT ![p] = "TERMINATED"], KP!OneLess, c),
         \A q \in Procs \ {p} : at'[q] = at[q] /\ prog'[q] = prog[q],
         at'[p] \in Running => /\ at'[p] = "refused" /\ executing' = p
                               /\ Image(p) = prog'[p],
         at'[p] \notin Running => \/ at'[p] \in {"exited", "unserved"}
                                  \/ executing' # p
                                  \/ Image(p) = Console
  PROVE  Placed'
<1>0. Booked /\ Resumed /\ Coupled
  BY DEF SysIInv
<1> DEFINE st == [status EXCEPT ![p] = "TERMINATED"]
<1>1. st \in [KP!Pids -> KP!Statuses] /\ KP!LiveIn(st) = KP!Live \ {p}
  BY <1>0, ThePids DEF KP!Statuses, KP!Live, KP!LiveIn, KP!InUse, KP!Alive
<1>2. 0 \in KP!Live \ {p}
  BY <1>0, ThePids DEF Booked
<1>3. KP!OneLess \in Nat \ {0} /\ (progs_running = 1 => KP!OneLess = 1)
  BY <1>0, ThePids DEF KP!OneLess
<1>4. /\ tail_pid' = tail_pid /\ KP!Live' = KP!Live \ {p} /\ progs_running' = KP!OneLess
      /\ \A q \in KP!Pids : Image(q)' = Image(q)
      /\ \/ executing' \in KP!Live' /\ KP!OneLess # 1
         \/ executing' = executing /\ ctx' = c /\ KP!OneLess = 1
  <2> HIDE DEF st
  <2> QED
    BY <1>0, <1>1, <1>2, <1>3, SchedulerKeeps DEF st
<1>5. Resumed'
  BY <1>0, <1>2, <1>4, ThePids DEF Resumed, IsChild
<1>6. ASSUME NEW q \in Procs, q # p
      PROVE  Holds(q)' <=> Holds(q)
  BY <1>0, <1>3, <1>4, <1>6, SamePids DEF Holds, Resumed
<1>7. Coupled'
  <2> SUFFICES ASSUME NEW q \in Procs
               PROVE  /\ at'[q] \in Running => /\ Holds(q)' /\ Image(q)' = prog'[q]
                                               /\ q \in KP!Live' <=> at'[q] # "refused"
                      /\ Holds(q)' /\ Image(q)' # Console /\ at'[q] \notin Running
                           => at'[q] \in {"exited", "unserved"} /\ q \notin KP!Live'
    BY SamePids DEF Coupled
  <2>1. Image(q)' = Image(q)
    BY <1>0, <1>4, ThePids
  <2>2. CASE q # p
    BY <1>0, <1>4, <1>6, <2>1, <2>2, SamePids DEF Coupled
  <2>3. CASE q = p
    <3>1. q \notin KP!Live' /\ (Holds(q)' <=> executing' = p)
      BY <1>4, <2>3, SamePids DEF Holds
    <3> QED
      BY <2>1, <2>3, <3>1
  <2> QED
    BY <2>2, <2>3
<1> QED
  BY <1>0, <1>2, <1>4, <1>5, <1>7 DEF Booked, Placed

\* A shell forks: the child, under whatever pid, is a shell until its exec, and if
\* the caller was not alive it is now.
LEMMA ExecuteCoupled ==
  ASSUME SysIInv, Execute
  PROVE  Placed'
<1>0. Booked /\ Resumed /\ Coupled /\ IInv
  BY DEF SysIInv
<1>1. ctx.pc = Console /\ K!Fork /\ UNCHANGED <<at, prog>>
  BY DEF Execute, Shell, handshake
<1>2. PICK free \in KP!Pids \ KP!Live :
        /\ KP!ForkInto(free) /\ tail_pid' \in KP!Pids
        /\ KP!Live' = KP!Live \cup {free, executing}
  BY <1>0, <1>1, SameFork, KernelAssumed, KP!ForkLive DEF Booked
<1>3. /\ \A q \in KP!Pids \ {free} : Image(q)' = Image(q)
      /\ Image(free)' = Console
  BY <1>0, <1>1, <1>2, KernelAssumed, KP!ForkImages DEF Booked, KP!Registers, Image
<1>4. executing' = free
  BY <1>2 DEF KP!ForkInto
<1>5. Resumed'
  BY <1>0, <1>2, <1>3, <1>4, ThePids DEF Resumed, Booked
<1>6. Image(executing) = Console
  BY <1>1 DEF Image
<1>7. Coupled'
  <2> SUFFICES ASSUME NEW q \in Procs
               PROVE  /\ at[q] \in Running => /\ Holds(q)' /\ Image(q)' = prog[q]
                                              /\ q \in KP!Live' <=> at[q] # "refused"
                      /\ Holds(q)' /\ Image(q)' # Console /\ at[q] \notin Running
                           => at[q] \in {"exited", "unserved"} /\ q \notin KP!Live'
    BY <1>1, SamePids DEF Coupled
  <2>1. Holds(q)' <=> Holds(q) \/ q = free
    BY <1>2, <1>4, SamePids DEF Holds
  <2>2. /\ at[q] \in Running => /\ Holds(q) /\ Image(q) = prog[q] /\ prog[q] # Console
                                /\ q \in KP!Live <=> at[q] # "refused"
        /\ Holds(q) /\ Image(q) # Console /\ at[q] \notin Running
             => at[q] \in {"exited", "unserved"} /\ q \notin KP!Live
    <3>1. at[q] \in Running => prog[q] \in Images
      BY <1>0, SystemAssumption DEF IInv, Program
    <3> QED
      BY <1>0, <3>1, SamePids, SystemAssumption DEF Coupled, K!KernelAssumption
  <2>3. q \in KP!Pids
    BY <1>0, ThePids
  <2>4. CASE q = executing
    BY <1>2, <1>3, <1>6, <2>1, <2>2, <2>3, <2>4
  <2>5. CASE q # executing
    <3>1. Holds(q) <=> q \in KP!Live
      BY <2>5, SamePids DEF Holds
    <3> QED
      BY <1>2, <1>3, <2>1, <2>2, <2>3, <2>5, <3>1
  <2> QED
    BY <2>4, <2>5
<1> QED
  BY <1>0, <1>2, <1>5, <1>7 DEF Booked, Placed

\* The child of a shell becomes the program it is to run.
LEMMA ChildCoupled ==
  ASSUME SysIInv, NEW p \in Procs, Child(p)
  PROVE  Placed'
<1>0. Booked /\ Resumed /\ Coupled
  BY DEF SysIInv
<1>1. PICK image \in Images : K!Exec(image) /\ Start(p, image)
  BY DEF Child
<1>2. /\ executing = p /\ p \in KP!Live /\ p # 0
      /\ UNCHANGED <<tail_pid, executing, status, saved>>
      /\ ctx'.pc = image
  <2>1. executing = p /\ p \in KP!Live /\ p # 0
    BY <1>0, ThePids DEF Child, Resumed
  <2>2. ctx \in KP!Contexts
    BY <1>0, ThePids
  <2> QED
    BY <1>1, <2>1, <2>2 DEF K!Exec, KP!Contexts
<1>3. KP!Live' = KP!Live
  BY <1>2 DEF KP!Live, KP!LiveIn, KP!InUse
<1>4. /\ Image(p)' = image
      /\ \A q \in KP!Pids \ {p} : Image(q)' = Image(q)
  BY <1>2 DEF Image
<1>5. Resumed'
  BY <1>0, <1>2, <1>3, <1>4, ThePids DEF Resumed
<1>6. /\ at'[p] = "start" /\ prog'[p] = image
      /\ \A q \in Procs \ {p} : at'[q] = at[q] /\ prog'[q] = prog[q]
  BY <1>1 DEF Start, SysIInv, IInv, TypeOK
<1>7. \A q \in Procs : Holds(q)' <=> Holds(q)
  BY <1>2, <1>3, SamePids DEF Holds
<1>8. Coupled'
  <2> SUFFICES ASSUME NEW q \in Procs
               PROVE  /\ at'[q] \in Running => /\ Holds(q) /\ Image(q)' = prog'[q]
                                               /\ q \in KP!Live <=> at'[q] # "refused"
                      /\ Holds(q) /\ Image(q)' # Console /\ at'[q] \notin Running
                           => at'[q] \in {"exited", "unserved"} /\ q \notin KP!Live
    BY <1>3, <1>7, SamePids DEF Coupled
  <2>1. CASE q = p
    BY <1>2, <1>4, <1>6, <2>1, SamePids DEF Running, Holds
  <2>2. CASE q # p
    <3>1. Image(q)' = Image(q)
      BY <1>0, <1>4, <2>2, ThePids
    <3> QED BY <1>0, <1>6, <2>2, <3>1, SamePids DEF Coupled
  <2> QED BY <2>1, <2>2
<1> QED
  BY <1>0, <1>2, <1>3, <1>5, <1>8 DEF Booked, Placed

LEMMA TerminateCoupled ==
  ASSUME SysIInv, NEW p \in Procs, Terminate(p)
  PROVE  Placed'
<1>1. /\ p \in KP!Live /\ ctx.pc = Console
      /\ K!scheduler([status EXCEPT ![p] = "TERMINATED"], KP!OneLess, KP!Result(1))
  BY SamePids, SameKill DEF Terminate, Shell
<1>2. KP!Result(1).pc = ctx.pc /\ KP!Result(1).r0 = 1
  BY ThePids DEF SysIInv, KP!Contexts, KP!Result
<1>3. /\ at'[p] = "none"
      /\ \A q \in Procs \ {p} : at'[q] = at[q] /\ prog'[q] = prog[q]
  BY DEF Terminate, Killed, Gone, SysIInv, IInv, TypeOK
<1>4. executing' # p \/ Image(p) = Console
  <2>1. CASE executing = p
    BY <1>1, <2>1 DEF Image
  <2>2. CASE executing # p
    <3>1. 0 \in KP!LiveIn([status EXCEPT ![p] = "TERMINATED"])
      BY ThePids DEF SysIInv, Booked, KP!Live, KP!LiveIn, KP!InUse
    <3>2. /\ [status EXCEPT ![p] = "TERMINATED"] \in [KP!Pids -> KP!Statuses]
          /\ KP!OneLess \in Nat \ {0}
      BY ThePids DEF SysIInv, KP!Statuses, KP!OneLess
    <3>3. \/ executing' \in KP!Live'
          \/ executing' = executing
      BY <1>1, <1>2, <3>1, <3>2, SchedulerKeeps DEF SysIInv
    <3>4. KP!Live' = KP!LiveIn([status EXCEPT ![p] = "TERMINATED"])
      BY <1>1, <1>2, <3>1, <3>2, SchedulerKeeps DEF SysIInv
    <3>5. p \notin KP!LiveIn([status EXCEPT ![p] = "TERMINATED"])
      BY ThePids DEF SysIInv, KP!LiveIn, KP!Alive, KP!Statuses
    <3> QED
      BY <2>2, <3>3, <3>4, <3>5
  <2> QED
    BY <2>1, <2>2
<1>5. at'[p] \notin Running
  BY <1>3 DEF Running
<1> DEFINE c == KP!Result(1)
<1>6. c.pc = ctx.pc /\ (c.r0 # 0 \/ c.pc # Console)
  BY <1>2
<1> HIDE DEF c
<1> QED
  BY <1>1, <1>3, <1>4, <1>5, <1>6, EndCoupled DEF c

\* What a step of a program does to its place.
LEMMA ProcPlace ==
  ASSUME IInv, NEW p \in Procs, Proc(p)
  PROVE  /\ \A q \in Procs \ {p} : at'[q] = at[q] /\ prog'[q] = prog[q]
         /\ at'[p] # "none" => prog'[p] = prog[p]
         /\ at'[p] \notin Ended => at'[p] \in Running /\ at[p] # "refused"
         /\ at'[p] \in Running \cap Ended => at'[p] = "refused"
<1>1. TypeOK
  BY DEF IInv
<1>2. CASE Library(p) /\ UNCHANGED <<prog, at, got, killed>>
  <2>1. at[p] \in Running /\ at[p] # "refused"
    <3>1. ~Idle(p) => at[p] \in {"first", "second"}
      BY DEF IInv, Program
    <3>2. ~Idle(p)
      BY <1>2 DEF Library, SendBlocked, ReceiveWaiting, ReceiveTake, Idle
    <3> QED
      BY <3>1, <3>2 DEF Running
  <2> QED
    BY <1>2, <2>1 DEF Running, Ended
<1>3. CASE Gone(p)
  BY <1>1, <1>3 DEF Gone, TypeOK, Running, Ended
<1>4. CASE \/ Step(p, "connected", "refused") \/ Onward(p) \/ Connect(p)
           \/ P1(p) \/ P2(p)
  <2>1. PICK from \in {"start", "connected", "refused", "first", "second"},
             to \in {"connected", "refused", "unserved", "first", "second", "exited"} :
          /\ Step(p, from, to)
          /\ from = "refused" => to = "unserved"
    BY <1>4 DEF Onward, Connect, P1, P2
  <2> QED
    BY <1>1, <2>1 DEF Step, TypeOK, Running, Ended
<1> QED
  BY <1>2, <1>3, <1>4 DEF Proc, Refused

\* A program moves on, or exits.
LEMMA RunCoupled ==
  ASSUME SysIInv, NEW p \in Procs, Run(p)
  PROVE  Placed'
<1>0. Booked /\ Resumed /\ Coupled /\ IInv
  BY DEF SysIInv
<1>1. executing = p /\ Proc(p)
  BY DEF Run
<1>2. at[p] \in Running /\ Holds(p) /\ Image(p) = prog[p] /\ ctx.pc # Console
  <2>1. at[p] \in Running /\ prog[p] \in Images
    BY <1>0, <1>1, ProcRuns, SystemAssumption
  <2>2. Holds(p) /\ Image(p) = prog[p]
    BY <1>0, <2>1 DEF Coupled
  <2> QED
    BY <1>1, <2>1, <2>2, SystemAssumption DEF Image, K!KernelAssumption
<1>3. /\ \A q \in Procs \ {p} : at'[q] = at[q] /\ prog'[q] = prog[q]
      /\ at'[p] # "none" => prog'[p] = prog[p]
      /\ at'[p] \notin Ended => at'[p] \in Running /\ at[p] # "refused"
      /\ at'[p] \in Running \cap Ended => at'[p] = "refused"
  BY <1>0, <1>1, ProcPlace
<1>4. CASE /\ at'[p] \in Ended /\ K!Exit
           /\ at'[p] = "none" => executing' # p
           /\ at'[p] = "refused" => executing' = p
  <2>1. K!scheduler([status EXCEPT ![p] = "TERMINATED"], KP!OneLess, ctx)
    BY <1>1, <1>4 DEF K!Exit, K!OneLess, KP!OneLess
  <2>2. at'[p] \in Running => /\ at'[p] = "refused" /\ executing' = p
                              /\ Image(p) = prog'[p]
    BY <1>2, <1>3, <1>4
  <2>3. at'[p] \notin Running => \/ at'[p] \in {"exited", "unserved"}
                                 \/ executing' # p
    BY <1>4 DEF Ended, Running
  <2> QED
    BY <1>2, <1>3, <2>1, <2>2, <2>3, EndCoupled
<1>5. CASE at'[p] \notin Ended /\ UNCHANGED kernel
  <2>1. at'[p] \in Running /\ at'[p] # "refused" /\ prog'[p] = prog[p] /\ p \in KP!Live
    BY <1>0, <1>2, <1>3, <1>5, SamePids DEF Ended, Coupled
  <2>2. UNCHANGED <<tail_pid, status, executing, progs_running, saved, ctx>>
    BY <1>5 DEF kernel
  <2>3. /\ KP!Live' = KP!Live
        /\ \A q \in KP!Pids : Image(q)' = Image(q)
        /\ \A q \in Procs : Holds(q)' <=> Holds(q)
    BY <2>2, SamePids DEF KP!Live, KP!LiveIn, KP!InUse, Image, Holds
  <2>4. Resumed'
    BY <1>0, <2>2, <2>3, ThePids DEF Resumed, IsChild
  <2>5. Coupled'
    <3> SUFFICES ASSUME NEW q \in Procs
                 PROVE  /\ at'[q] \in Running => /\ Holds(q) /\ Image(q)' = prog'[q]
                                                 /\ q \in KP!Live <=> at'[q] # "refused"
                        /\ Holds(q) /\ Image(q)' # Console /\ at'[q] \notin Running
                             => at'[q] \in {"exited", "unserved"} /\ q \notin KP!Live
      BY <2>3, SamePids DEF Coupled
    <3>1. Image(q)' = Image(q)
      BY <1>0, <2>3, ThePids
    <3>2. CASE q = p
      BY <1>2, <2>1, <3>1, <3>2
    <3>3. CASE q # p
      BY <1>0, <1>3, <3>1, <3>3, SamePids DEF Coupled
    <3> QED BY <3>2, <3>3
  <2> QED
    BY <1>0, <2>2, <2>3, <2>4, <2>5 DEF Booked, Placed
<1> QED
  BY <1>4, <1>5 DEF Run

\* A process whose last exit has returned becomes a shell.
LEMMA FallBackCoupled ==
  ASSUME SysIInv, NEW p \in Procs, FallBack(p)
  PROVE  Placed'
<1>0. Booked /\ Resumed /\ Coupled
  BY DEF SysIInv
<1>1. /\ executing = p /\ ctx.pc # Console /\ at[p] \in {"exited", "unserved"}
      /\ ctx' = [ctx EXCEPT !.pc = Console, !.r0 = 1]
      /\ UNCHANGED <<tail_pid, executing, progs_running, status, saved>>
      /\ Gone(p)
  BY DEF FallBack, Leave
<1>2. /\ at'[p] = "none"
      /\ \A q \in Procs \ {p} : at'[q] = at[q] /\ prog'[q] = prog[q]
  BY <1>1 DEF Gone, SysIInv, IInv, TypeOK
<1>3. p \notin KP!Live /\ p \in KP!Pids
  BY <1>0, <1>1, ThePids, SamePids DEF Coupled, Holds, Image, Running
<1>4. /\ KP!Live' = KP!Live
      /\ \A q \in Procs : Holds(q)' <=> Holds(q)
  BY <1>1, SamePids DEF KP!Live, KP!LiveIn, KP!InUse, Holds
<1>5. ctx'.pc = Console /\ ctx'.r0 = 1
  BY <1>0, <1>1, ThePids DEF KP!Contexts
<1>6. Image(p)' = Console /\ \A q \in KP!Pids \ {p} : Image(q)' = Image(q)
  BY <1>1, <1>5 DEF Image
<1>7. Resumed'
  BY <1>0, <1>1, <1>3, <1>4, <1>5, <1>6, ThePids DEF Resumed, IsChild
<1>8. Coupled'
  <2> SUFFICES ASSUME NEW q \in Procs
               PROVE  /\ at'[q] \in Running => /\ Holds(q) /\ Image(q)' = prog'[q]
                                               /\ q \in KP!Live <=> at'[q] # "refused"
                      /\ Holds(q) /\ Image(q)' # Console /\ at'[q] \notin Running
                           => at'[q] \in {"exited", "unserved"} /\ q \notin KP!Live
    BY <1>4, SamePids DEF Coupled
  <2>1. CASE q = p
    BY <1>2, <1>6, <2>1 DEF Running
  <2>2. CASE q # p
    <3>1. Image(q)' = Image(q)
      BY <1>0, <1>6, <2>2, ThePids
    <3> QED BY <1>0, <1>2, <2>2, <3>1, SamePids DEF Coupled
  <2> QED BY <2>1, <2>2
<1> QED
  BY <1>0, <1>1, <1>4, <1>7, <1>8 DEF Booked, Placed

LEMMA SysNextIInv == SysIInv /\ [SysNext]_system => SysIInv'
<1> SUFFICES ASSUME SysIInv, [SysNext]_system PROVE SysIInv'
  OBVIOUS
<1>1. IInv'
  BY SysHandshake, NextIInv DEF SysIInv
<1>2. KP!TypeOK' /\ KP!AgeInv' /\ KP!StackInv'
  BY SysTable DEF SysIInv
<1>3. Placed'
  <2>1. CASE Interrupt
    BY <2>1, SwitchCoupled DEF Interrupt
  <2>2. CASE Execute
    BY <2>2, ExecuteCoupled
  <2>3. ASSUME NEW p \in Procs,
               Child(p) \/ Terminate(p) \/ Run(p) \/ FallBack(p) \/ Poll(p)
        PROVE  Placed'
    BY <2>3, ChildCoupled, TerminateCoupled, RunCoupled, FallBackCoupled, SwitchCoupled
       DEF Poll
  <2>4. CASE UNCHANGED system
    <3>1. UNCHANGED <<tail_pid, executing, progs_running, status, saved, ctx, at, prog>>
      BY <2>4 DEF system, kernel, handshake
    <3> QED
      BY <3>1 DEF SysIInv, Booked, Placed, Resumed, Coupled, IsChild, Image, Holds, KP!Live,
                  KP!LiveIn, KP!InUse, K!Live, K!LiveIn, K!InUse
  <2> QED
    BY <2>1, <2>2, <2>3, <2>4 DEF SysNext
<1> QED
  BY <1>1, <1>2, <1>3 DEF SysIInv, Booked, Placed

LEMMA SysKernelInit == SysInit => KP!Init
BY DEF SysInit, K!Init, KP!Init, K!BootContext, KP!BootContext, K!ZeroContext,
       KP!ZeroContext, K!Pids, KP!Pids, K!Tops, KP!Tops, K!StackTop, KP!StackTop,
       K!TOS_PROCS, KP!TOS_PROCS

LEMMA SysInitIInv == SysInit => SysIInv
<1> SUFFICES ASSUME SysInit PROVE SysIInv
  OBVIOUS
<1>1. IInv
  BY InitIInv DEF SysInit
<1>2. KP!Init
  BY SysKernelInit
<1>3. KP!TypeOK /\ KP!AgeInv /\ KP!StackInv
  BY <1>2, KernelAssumed, KP!TypeInit, KP!AgeInit, KP!StackInit
<1>4. 0 \in KP!Pids /\ KP!Live = {0}
  BY <1>2, KernelAssumed
     DEF KP!KernelAssumption, KP!Init, KP!Live, KP!LiveIn, KP!InUse, KP!Pids, KP!Alive
<1>5. executing = 0 /\ tail_pid = 0 /\ ctx.pc = Console
  BY <1>2 DEF KP!Init, KP!BootContext
<1>6. \A p \in Procs : at[p] \notin Running /\ ~Holds(p)
  BY <1>4, <1>5, SamePids, SystemAssumption DEF SysInit, Init, Running, Holds
<1> QED
  BY <1>1, <1>3, <1>4, <1>5, <1>6, SamePids
     DEF SysIInv, Booked, Resumed, Coupled, Image

LEMMA SysInvariant == SysSpec => []SysIInv
BY SysInitIInv, SysNextIInv, PTL DEF SysSpec

\* Under the kernel the programs and their channel keep their types.
THEOREM SystemTyped == SysSpec => []TypeOK
<1>1. SysIInv => TypeOK
  BY DEF SysIInv, IInv
<1> QED
  BY <1>1, SysInvariant, PTL

\* Under the kernel, preempted anywhere, killed from a shell and started again under
\* pids used before, and also when an exit returns, a program that got an end and has
\* come to its last exit has the other one's message (P1.c:12-19, P2.c:19-26,
\* hilevel.c:57-128, 262-270).
THEOREM SystemExchanged == SysSpec => []Exchanged
<1>1. SysIInv => Exchanged
  BY DEF SysIInv, IInv, Program, Exchanged, Theirs
<1> QED
  BY <1>1, SysInvariant, PTL

\* Every step of the system is a step of the programs as they are with a processor
\* each, or one they do not see: the safety part of ProgramsSpec.
THEOREM SystemRunsPrograms == SysSpec => Spec
<1>1. SysInit => Init
  BY DEF SysInit
<1> QED
  BY <1>1, SysHandshake, PTL DEF SysSpec, Spec

\* Under this use of the kernel too, where a process that has ended may execute and
\* fork, waiting is bounded and live processes have their stacks to themselves
\* (hilevel.c:53-81, 125, 242).
THEOREM SystemKeepsTable == SysSpec => [](KP!AgeBound /\ KP!StacksDisjoint)
<1>1. SysIInv => KP!AgeBound /\ KP!StacksDisjoint
  <2> SUFFICES ASSUME SysIInv PROVE KP!AgeBound /\ KP!StacksDisjoint
    OBVIOUS
  <2>1. KP!TypeOK /\ KP!AgeInv /\ KP!StackInv
    BY DEF SysIInv, Booked
  <2> QED
    BY <2>1, KernelAssumed, KP!NoWrap, KP!ApartByInv DEF KP!AgeInv, KP!AgeBound
<1> QED
  BY <1>1, SysInvariant, PTL

\* Process table and programs agree, for every size of the table: fork, exec,
\* kill, exit, the scheduler and the return into the console never leave a program
\* without its process, a process in another program, or one in a PCB's old registers
\* (hilevel.c:57-128, 183-310).
THEOREM SystemCoupled == SysSpec => []Coupled
<1>1. SysIInv => Coupled
  BY DEF SysIInv
<1> QED
  BY <1>1, SysInvariant, PTL
=============================================================================

----------------------------- MODULE DiningProofs -----------------------------
(***************************************************************************)
(* The dining philosophers share their forks, for any number of seats.     *)
(*                                                                         *)
(* The invariant follows the talk of each philosopher with the waiter: it  *)
(* rests, or its order is on the channel, or the waiter has taken the order*)
(* and decides, or the answer is on the channel.  The waiter's list of     *)
(* forks is right about every philosopher but one: the one that has just   *)
(* taken the answer the waiter is still waiting to see gone.               *)
(***************************************************************************)
EXTENDS Dining, ChannelsProofs

Call == [at : {"none", "blocked", "waiting", "take"},
         c : Chids \cup {0}, end : {-1, 0, 1, 2}]

Line(s) == chan[PhilPid(s)]
Side(s) == IF Line(s).end[1] = PhilPid(s) THEN 1 ELSE 2
OrderUp(s) == Line(s).on[Other(Side(s))]
OrderOn(s) == Line(s).data[Other(Side(s))]
AnswerUp(s) == Line(s).on[Side(s)]
AnswerOn(s) == Line(s).data[Side(s)]
CallAt(s) == call[PhilPid(s)].at

Here(s) == at[s] \notin {"unborn", "start"}
WaiterHere(s) == w_at \in {"next", "order"} \/ s < i
Born(s) == WaiterHere(s) \/ (w_at = "connect" /\ s = i)

Joined(s) ==
  /\ at[s] = "unborn" <=> ~Born(s)
  /\ \/ ~Here(s) /\ ~WaiterHere(s) /\ Line(s).pids_connected = 0
     \/ /\ Here(s) /\ ~WaiterHere(s)
        /\ Line(s).pids_connected = 1 /\ Line(s).end[1] = PhilPid(s)
     \/ /\ ~Here(s) /\ WaiterHere(s)
        /\ Line(s).pids_connected = 1 /\ Line(s).end[1] = W
     \/ /\ Here(s) /\ WaiterHere(s)
        /\ Line(s).pids_connected = 2
        /\ Line(s).end[Side(s)] = PhilPid(s) /\ Line(s).end[Other(Side(s))] = W

Wish(s) == IF eating[s] THEN FORK_RET ELSE FORK_WANT
Verdict == IF toggle THEN ORDER_ACCEPT ELSE ORDER_REJECT

Reading(s) == w_at = "order" /\ i = s /\ call[W].at = "take"
Deciding(s) == w_at = "order" /\ i = s /\ Idle(W)
Answering(s) == w_at = "next" /\ i = s /\ call[W].at = "blocked"

Expecting(s) ==
  \/ at[s] = "ordered" /\ CallAt(s) \in {"blocked", "none"}
  \/ at[s] = "waiting" /\ CallAt(s) \in {"waiting", "take"}

Rest(s) ==
  /\ at[s] # "ordered" /\ CallAt(s) = "none"
  /\ ~OrderUp(s) /\ ~AnswerUp(s)
  /\ ~Reading(s) /\ ~Deciding(s)
Ordered(s) ==
  /\ at[s] = "ordered" /\ CallAt(s) = "blocked"
  /\ OrderUp(s) /\ ~AnswerUp(s) /\ OrderOn(s) = Wish(s)
  /\ ~Deciding(s)
Taken(s) ==
  /\ Expecting(s) /\ CallAt(s) # "take"
  /\ ~OrderUp(s) /\ ~AnswerUp(s)
  /\ Deciding(s) /\ reply[W] = Wish(s)
Told(s) ==
  /\ Expecting(s)
  /\ ~OrderUp(s) /\ AnswerUp(s) /\ AnswerOn(s) = Verdict
  /\ Answering(s)

Talk(s) ==
  /\ ~Idle(PhilPid(s)) => call[PhilPid(s)].c = PhilPid(s) /\ call[PhilPid(s)].end = Side(s)
  /\ Rest(s) \/ Ordered(s) \/ Taken(s) \/ Told(s)

WaiterCall ==
  /\ ~Idle(W) => call[W].c = PhilPid(i) /\ call[W].end = Other(Side(i))
  /\ call[W].at \in CASE w_at = "order" -> {"none", "waiting", "take"}
                      [] w_at = "next" -> {"none", "blocked"}
                      [] OTHER -> {"none"}

Pending(s) == w_at = "next" /\ i = s /\ toggle /\ ~AnswerUp(s)
Listed(s) == IF Pending(s) THEN ~Holds(s) ELSE Holds(s)

List ==
  /\ w_at \in {"fork", "connect"} =>
       /\ ~toggle
       /\ \A s \in Seats : ~eating[s] /\ at[s] # "waiting" /\ (forks[s] <=> s < i)
  /\ w_at \in {"next", "order"} =>
       \A s \in Seats :
         /\ forks[Right(s)] <=> ~Listed(s) /\ ~Listed(Right(s))
         /\ ~(Listed(s) /\ Listed(Right(s)))
  /\ w_at = "next" /\ toggle => Listed(i) \/ can_eat(i)

IInv == TypeOK /\ EndsSet /\ (\A s \in Seats : Joined(s) /\ Talk(s)) /\ WaiterCall /\ List

USE ChannelsAssumption, DiningAssumption
-----------------------------------------------------------------------------
(***************************************************************************)
(* Pids, seats and channels.                                               *)
(***************************************************************************)
LEMMA Numbers ==
  /\ W \in Procs /\ W # 0
  /\ \A s \in Seats : /\ PhilPid(s) \in Procs /\ PhilPid(s) \in Chids
                      /\ PhilPid(s) # W /\ PhilPid(s) # 0
  /\ \A s, t \in Seats : PhilPid(s) = PhilPid(t) => s = t
  /\ \A c \in Chids : \E s \in Seats : c = PhilPid(s)
  /\ \A p \in Procs : p = W \/ \E s \in Seats : p = PhilPid(s)
  /\ {FORK_WANT, FORK_RET, ORDER_ACCEPT, ORDER_REJECT} = Messages
  /\ FORK_WANT # FORK_RET /\ ORDER_ACCEPT # ORDER_REJECT
  BY DEF PhilPid, Seats, FORK_WANT, FORK_RET, ORDER_ACCEPT, ORDER_REJECT

LEMMA Around ==
  /\ \A s \in Seats : Right(s) \in Seats /\ Right(s) # s
  /\ \A s, t \in Seats : Right(s) = Right(t) => s = t
  /\ \A s \in Seats : \E r \in Seats : Right(r) = s
<1>1. /\ \A s \in Seats : Right(s) \in Seats /\ Right(s) # s
      /\ \A s, t \in Seats : Right(s) = Right(t) => s = t
  BY DEF Right, Seats
<1>2. ASSUME NEW s \in Seats
      PROVE  \E r \in Seats : Right(r) = s
  <2>1. CASE s = 0
    <3>1. NUM_PHILS - 1 \in Seats /\ Right(NUM_PHILS - 1) = s
      BY <2>1 DEF Right, Seats
    <3> QED
      BY <3>1
  <2>2. CASE s # 0
    <3>1. s - 1 \in Seats /\ Right(s - 1) = s
      BY <2>2 DEF Right, Seats
    <3> QED
      BY <3>1
  <2> QED
    BY <2>1, <2>2
<1> QED
  BY <1>1, <1>2

LEMMA TheLine ==
  ASSUME TypeOK
  PROVE  /\ chan \in [Chids -> Channel]
         /\ \A s \in Seats :
              /\ Line(s) \in Channel
              /\ Side(s) \in Ends /\ Other(Side(s)) \in Ends
              /\ Other(Side(s)) # Side(s) /\ Other(Other(Side(s))) = Side(s)
<1>1. chan \in [Chids -> Channel]
  BY DEF TypeOK, ChannelsTypeOK, Channel
<1> QED
  BY <1>1, Numbers DEF Line, Side, Ends, Other

LEMMA Sides ==
  ASSUME TypeOK, NEW s \in Seats, Joined(s)
  PROVE  /\ Here(s) => which_end(PhilPid(s), PhilPid(s)) = Side(s)
         /\ WaiterHere(s) => which_end(W, PhilPid(s)) = Other(Side(s))
  BY Numbers DEF Joined, Side, Line, which_end, Other

\* Holds and Listed are Booleans; Holds spelled out, before and after a step.
LEMMA Holding ==
  ASSUME TypeOK, NEW s \in Seats
  PROVE  /\ Holds(s) \in BOOLEAN /\ Listed(s) \in BOOLEAN
         /\ Answered(s) => (Holds(s) <=> ~eating[s])
         /\ ~Answered(s) => (Holds(s) <=> eating[s])
<1>1. eating[s] \in BOOLEAN
  BY DEF TypeOK
<1>2. Answered(s) = TRUE \/ Answered(s) = FALSE
  BY DEF Answered
<1> QED
  BY <1>1, <1>2, Zenon DEF Holds, Listed

LEMMA HoldingNext ==
  ASSUME TypeOK', NEW s \in Seats
  PROVE  /\ Holds(s)' \in BOOLEAN /\ Listed(s)' \in BOOLEAN
         /\ Answered(s)' => (Holds(s)' <=> ~eating'[s])
         /\ ~Answered(s)' => (Holds(s)' <=> eating'[s])
<1>1. eating'[s] \in BOOLEAN
  BY DEF TypeOK
<1>2. Answered(s)' = TRUE \/ Answered(s)' = FALSE
  BY DEF Answered
<1> QED
  BY <1>1, <1>2, Zenon DEF Holds, Listed

-----------------------------------------------------------------------------
(***************************************************************************)
(* What a call of p on the channel of seat s does to it.                   *)
(***************************************************************************)
LEMMA SendLine ==
  ASSUME TypeOK, NEW p \in Procs, NEW s \in Seats, NEW m \in Messages, NEW e \in Ends,
         which_end(p, PhilPid(s)) = e, Send(p, PhilPid(s), m)
  PROVE  /\ Line(s)'.end = Line(s).end
         /\ Line(s)'.pids_connected = Line(s).pids_connected
         /\ Line(s)'.on[Other(e)] /\ Line(s)'.data[Other(e)] = m
         /\ Line(s)'.on[e] = Line(s).on[e] /\ Line(s)'.data[e] = Line(s).data[e]
         /\ \A t \in Seats : t # s => Line(t)' = Line(t)
         /\ call'[p] = [at |-> "blocked", c |-> PhilPid(s), end |-> e]
         /\ \A q \in Procs : q # p => call'[q] = call[q]
         /\ reply' = reply
<1> DEFINE c == PhilPid(s)
           o == Other(e)
<1>1. chan \in [Chids -> Channel] /\ c \in Chids
  BY TheLine, Numbers
<1>2. o \in Ends /\ o # e
  BY DEF Other, Ends
<1>3. chan' = [chan EXCEPT ![c].on[o] = TRUE, ![c].data[o] = m]
  BY DEF Send, IpcSend
<1>4. \A t \in Seats : t # s => PhilPid(t) # c
  BY Numbers
<1>5. /\ call'[p] = [at |-> "blocked", c |-> c, end |-> e]
      /\ \A q \in Procs : q # p => call'[q] = call[q]
      /\ reply' = reply
  BY DEF Send, Goto, TypeOK, ChannelsTypeOK
<1> HIDE DEF o, c
<1>6. /\ chan'[c].end = chan[c].end
      /\ chan'[c].pids_connected = chan[c].pids_connected
      /\ chan'[c].on = [chan[c].on EXCEPT ![o] = TRUE]
      /\ chan'[c].data = [chan[c].data EXCEPT ![o] = m]
      /\ \A d \in Chids : d # c => chan'[d] = chan[d]
  <2>1. \A d \in Chids : d # c => chan'[d] = chan[d]
    BY <1>1, <1>3
  <2>2. chan'[c] = [chan[c] EXCEPT !.on = [chan[c].on EXCEPT ![o] = TRUE],
                                  !.data = [chan[c].data EXCEPT ![o] = m]]
    BY <1>1, <1>3
  <2>3. chan[c] \in Channel
    BY <1>1
  <2> QED
    BY <2>1, <2>2, <2>3 DEF Channel
<1>7. chan[c].on \in [Ends -> BOOLEAN] /\ chan[c].data \in [Ends -> Messages \cup {0}]
  BY <1>1 DEF Channel
<1>8. /\ chan'[c].on[o] /\ chan'[c].data[o] = m
      /\ chan'[c].on[e] = chan[c].on[e] /\ chan'[c].data[e] = chan[c].data[e]
  BY <1>2, <1>6, <1>7
<1> QED
  BY <1>4, <1>5, <1>6, <1>8, Numbers DEF Line, c, o

LEMMA TakeLine ==
  ASSUME TypeOK, NEW p \in Procs, NEW s \in Seats, NEW e \in Ends,
         which_end(p, PhilPid(s)) = e, call[p].c = PhilPid(s), ReceiveTake(p)
  PROVE  /\ Line(s)'.end = Line(s).end
         /\ Line(s)'.pids_connected = Line(s).pids_connected
         /\ Line(s)'.data = Line(s).data
         /\ ~Line(s)'.on[e] /\ Line(s)'.on[Other(e)] = Line(s).on[Other(e)]
         /\ \A t \in Seats : t # s => Line(t)' = Line(t)
         /\ call'[p] = NoCall /\ reply'[p] = Line(s).data[e]
         /\ \A q \in Procs : q # p => call'[q] = call[q] /\ reply'[q] = reply[q]
<1> DEFINE c == PhilPid(s)
<1>1. chan \in [Chids -> Channel] /\ c \in Chids
  BY TheLine, Numbers
<1>2. Other(e) \in Ends /\ Other(e) # e
  BY DEF Other, Ends
<1>3. chan' = [chan EXCEPT ![c].on[e] = FALSE] /\ Answer(p, chan[c].data[e])
  BY DEF ReceiveTake, IpcReceive
<1>4. \A t \in Seats : t # s => PhilPid(t) # c
  BY Numbers
<1>5. /\ call'[p] = NoCall /\ reply'[p] = chan[c].data[e]
      /\ \A q \in Procs : q # p => call'[q] = call[q] /\ reply'[q] = reply[q]
  BY <1>3 DEF ReceiveTake, Return, Answer, TypeOK, ChannelsTypeOK
<1> HIDE DEF c
<1>6. /\ chan'[c].end = chan[c].end /\ chan'[c].data = chan[c].data
      /\ chan'[c].pids_connected = chan[c].pids_connected
      /\ chan'[c].on = [chan[c].on EXCEPT ![e] = FALSE]
      /\ \A d \in Chids : d # c => chan'[d] = chan[d]
  <2>1. \A d \in Chids : d # c => chan'[d] = chan[d]
    BY <1>1, <1>3
  <2>2. chan'[c] = [chan[c] EXCEPT !.on = [chan[c].on EXCEPT ![e] = FALSE]]
    BY <1>1, <1>3
  <2>3. chan[c] \in Channel
    BY <1>1
  <2> QED
    BY <2>1, <2>2, <2>3 DEF Channel
<1>7. chan[c].on \in [Ends -> BOOLEAN]
  BY <1>1 DEF Channel
<1>8. ~chan'[c].on[e] /\ chan'[c].on[Other(e)] = chan[c].on[Other(e)]
  BY <1>2, <1>6, <1>7
<1> QED
  BY <1>4, <1>5, <1>6, <1>8, Numbers DEF Line, c

\* What a process that polls sees of the flags of its channel.
LEMMA PollLine ==
  ASSUME TypeOK, NEW p \in Procs, NEW s \in Seats, NEW e \in Ends,
         call[p].c = PhilPid(s), call[p].end = e
  PROVE  /\ SendBlocked(p) =>
              /\ ~Line(s).on[Other(e)] \/ Line(s).on[e]
              /\ UNCHANGED <<chan, reply>>
              /\ call'[p] = NoCall
              /\ \A q \in Procs : q # p => call'[q] = call[q]
         /\ ReceiveWaiting(p) =>
              /\ Line(s).on[e] /\ ~Line(s).on[Other(e)]
              /\ UNCHANGED <<chan, reply>>
              /\ call'[p] = [at |-> "take", c |-> PhilPid(s), end |-> e]
              /\ \A q \in Procs : q # p => call'[q] = call[q]
<1>1. (e = 1 /\ Other(e) = 2) \/ (e = 2 /\ Other(e) = 1)
  BY DEF Ends, Other
<1>2. SendBlocked(p) => ~Line(s).on[Other(e)] \/ Line(s).on[e]
  BY <1>1 DEF SendBlocked, OwnMessage, check, Line
<1>3. ReceiveWaiting(p) => Line(s).on[e] /\ ~Line(s).on[Other(e)]
  BY <1>1 DEF ReceiveWaiting, check, Line
<1> QED
  BY <1>2, <1>3 DEF SendBlocked, ReceiveWaiting, Return, Goto, TypeOK, ChannelsTypeOK

-----------------------------------------------------------------------------
(***************************************************************************)
(* A seat that a step leaves alone.                                        *)
(***************************************************************************)
LEMMA SeatStays ==
  ASSUME TypeOK, NEW s \in Seats, Joined(s), Talk(s),
         Line(s)' = Line(s), at'[s] = at[s], eating'[s] = eating[s],
         call'[PhilPid(s)] = call[PhilPid(s)],
         WaiterHere(s)' <=> WaiterHere(s), Born(s)' <=> Born(s),
         Deciding(s)' => Taken(s),
         Reading(s)' => Ordered(s),
         Taken(s) => Deciding(s)' /\ reply'[W] = reply[W],
         Told(s) => Answering(s)' /\ toggle' = toggle
  PROVE  Joined(s)' /\ Talk(s)'
<1>1. /\ Side(s)' = Side(s) /\ CallAt(s)' = CallAt(s) /\ Here(s)' = Here(s)
      /\ OrderUp(s)' = OrderUp(s) /\ OrderOn(s)' = OrderOn(s)
      /\ AnswerUp(s)' = AnswerUp(s) /\ AnswerOn(s)' = AnswerOn(s)
      /\ Wish(s)' = Wish(s) /\ Expecting(s)' = Expecting(s)
  BY DEF Side, CallAt, Here, OrderUp, OrderOn, AnswerUp, AnswerOn, Wish, Expecting
<1>2. Joined(s)'
  BY <1>1 DEF Joined
<1>3. Rest(s) => Rest(s)'
  <2>1. Rest(s) => ~Taken(s) /\ ~Ordered(s)
    BY DEF Rest, Taken, Ordered
  <2> QED
    BY <1>1, <2>1 DEF Rest
<1>4. Ordered(s) => Ordered(s)'
  <2>1. Ordered(s) => ~Taken(s)
    BY DEF Taken, Ordered
  <2> QED
    BY <1>1, <2>1 DEF Ordered
<1>5. Taken(s) => Taken(s)'
  BY <1>1 DEF Taken
<1>6. Told(s) => Told(s)'
  BY <1>1 DEF Told, Verdict
<1>7. Rest(s)' \/ Ordered(s)' \/ Taken(s)' \/ Told(s)'
  BY <1>3, <1>4, <1>5, <1>6 DEF Talk
<1> QED
  BY <1>1, <1>2, <1>7 DEF Talk, Idle

\* Its flags, and what it holds and is listed with.
LEMMA HoldsStay ==
  ASSUME TypeOK, TypeOK', NEW s \in Seats,
         Line(s)' = Line(s), at'[s] = at[s], eating'[s] = eating[s],
         call'[PhilPid(s)] = call[PhilPid(s)], reply'[PhilPid(s)] = reply[PhilPid(s)]
  PROVE  /\ Holds(s)' = Holds(s) /\ AnswerUp(s)' = AnswerUp(s)
         /\ (Pending(s)' <=> Pending(s)) => Listed(s)' = Listed(s)
  BY DEF Holds, Answered, Idle, AnswerUp, Side, Listed

\* Where the waiter is in a talk says where the talk is.
LEMMA TalkWithWaiter ==
  ASSUME NEW s \in Seats, Talk(s)
  PROVE  /\ Deciding(s) => Taken(s)
         /\ Reading(s) => Ordered(s)
         /\ Answering(s) => Rest(s) \/ Ordered(s) \/ Told(s)
         /\ ~Deciding(s) => ~Taken(s)
         /\ ~Answering(s) => ~Told(s)
<1>1. /\ Deciding(s) => ~Reading(s) /\ ~Answering(s)
      /\ Reading(s) => ~Answering(s)
  BY DEF Deciding, Reading, Answering, Idle
<1> QED
  BY <1>1 DEF Talk, Rest, Ordered, Taken, Told

\* A philosopher that has an end is one that the waiter talks with if it is in a
\* call on that seat.
LEMMA InCallWithSeat ==
  ASSUME IInv, ~Idle(W)
  PROVE  /\ i \in Seats /\ WaiterHere(i)
         /\ call[W].c = PhilPid(i) /\ call[W].end = Other(Side(i))
         /\ which_end(W, PhilPid(i)) = Other(Side(i))
         /\ w_at \in {"next", "order"}
<1>1. i \in Seats /\ w_at \in {"fork", "connect", "next", "order"}
  BY DEF IInv, TypeOK
<1>2. w_at \in {"next", "order"}
  BY <1>1 DEF IInv, WaiterCall, Idle
<1>3. WaiterHere(i)
  BY <1>2 DEF WaiterHere
<1> QED
  BY <1>1, <1>2, <1>3, Sides DEF IInv, WaiterCall

-----------------------------------------------------------------------------
(***************************************************************************)
(* Philosophers.                                                           *)
(***************************************************************************)
\* The rest of the invariant, when a philosopher has done a step that is right for
\* its own seat.
LEMMA PhilKeeps ==
  ASSUME IInv, TypeOK', EndsSet', NEW s \in Seats,
         UNCHANGED waiter,
         \A t \in Seats : t # s => /\ Line(t)' = Line(t)
                                   /\ at'[t] = at[t] /\ eating'[t] = eating[t],
         \A q \in Procs : q # PhilPid(s) => call'[q] = call[q] /\ reply'[q] = reply[q],
         WaiterHere(s) => Side(s)' = Side(s),
         Joined(s)', Talk(s)', Listed(s)' = Listed(s),
         w_at \in {"fork", "connect"} => ~eating'[s] /\ at'[s] # "waiting"
  PROVE  /\ IInv'
         /\ \A t \in Seats : t # s => Holds(t)' = Holds(t)
<1>1. /\ call'[W] = call[W] /\ reply'[W] = reply[W]
      /\ w_at' = w_at /\ i' = i /\ forks' = forks /\ toggle' = toggle
  BY Numbers DEF waiter
<1>2. ASSUME NEW t \in Seats, t # s
      PROVE  Joined(t)' /\ Talk(t)' /\ Holds(t)' = Holds(t) /\ Listed(t)' = Listed(t)
  <2>1. /\ Line(t)' = Line(t) /\ at'[t] = at[t] /\ eating'[t] = eating[t]
        /\ call'[PhilPid(t)] = call[PhilPid(t)] /\ reply'[PhilPid(t)] = reply[PhilPid(t)]
        /\ TypeOK /\ Joined(t) /\ Talk(t)
    BY <1>2, Numbers DEF IInv
  <2>2. /\ WaiterHere(t)' <=> WaiterHere(t)
        /\ Born(t)' <=> Born(t)
        /\ Deciding(t)' <=> Deciding(t)
        /\ Reading(t)' <=> Reading(t)
        /\ Answering(t)' <=> Answering(t)
    BY <1>1 DEF WaiterHere, Born, Deciding, Reading, Answering, Idle
  <2>3. Joined(t)' /\ Talk(t)'
    BY <1>1, <2>1, <2>2, TalkWithWaiter, SeatStays DEF Told, Taken
  <2>4. Holds(t)' = Holds(t) /\ AnswerUp(t)' = AnswerUp(t)
    BY <2>1, HoldsStay
  <2>5. Pending(t)' <=> Pending(t)
    BY <1>1, <2>4 DEF Pending
  <2> QED
    BY <2>1, <2>3, <2>4, <2>5, HoldsStay
<1>3. \A t \in Seats : Joined(t)' /\ Talk(t)' /\ Listed(t)' = Listed(t)
  BY <1>2
<1>4. WaiterCall'
  <2>1. ~Idle(W) => Side(i)' = Side(i)
    <3>1. CASE i = s
      BY <1>1, <3>1, InCallWithSeat
    <3>2. CASE i # s
      <4>1. i \in Seats /\ Line(i)' = Line(i)
        BY <1>1, <3>2 DEF IInv, TypeOK
      <4> QED
        BY <1>1, <4>1 DEF Side
    <3> QED
      BY <3>1, <3>2
  <2> QED
    BY <1>1, <2>1 DEF IInv, WaiterCall, Idle
<1>5. List'
  <2>1. w_at \in {"fork", "connect"} =>
          \A t \in Seats : ~eating'[t] /\ at'[t] # "waiting"
    BY DEF IInv, List
  <2>2. \A t \in Seats : Right(t) \in Seats
    BY Around
  <2>3. can_eat(i)' = can_eat(i) /\ \A t \in Seats : forks'[t] = forks[t]
    BY <1>1 DEF can_eat
  <2>4. i \in Seats
    BY DEF IInv, TypeOK
  <2> QED
    BY <1>1, <1>3, <2>1, <2>2, <2>3, <2>4 DEF IInv, List
<1> QED
  BY <1>2, <1>3, <1>4, <1>5 DEF IInv

\* The three steps by which a philosopher starts and ends its talks, and the
\* library's in between.
LEMMA ConnectKeeps ==
  ASSUME IInv, TypeOK', EndsSet', NEW s \in Seats, PhilConnect(s)
  PROVE  IInv' /\ \A t \in Seats : Holds(t)' = Holds(t)
<1> DEFINE p == PhilPid(s)
<1>1. /\ p \in Procs /\ p \in Chids /\ p # W /\ p # 0
      /\ \A t \in Seats : t # s => PhilPid(t) # p /\ PhilPid(t) \in Chids
      /\ TypeOK /\ ChannelsTypeOK /\ EndsSet /\ Joined(s) /\ Talk(s)
  BY Numbers DEF IInv, TypeOK
<1>2. /\ at[s] = "start" /\ at' = [at EXCEPT ![s] = "connected"]
      /\ chanend(p, p) /\ UNCHANGED <<waiter, eating, call>>
  BY DEF PhilConnect, chanend
<1>3. /\ at'[s] = "connected" /\ \A t \in Seats : t # s => at'[t] = at[t]
  BY <1>1, <1>2 DEF TypeOK
<1>4. ~Here(s) /\ Rest(s) /\ Here(s)'
  BY <1>1, <1>2, <1>3 DEF Here, Talk, Rest, Ordered, Taken, Told, Expecting
<1>5. /\ chan \in [Chids -> Channel] /\ Line(s) \in Channel
      /\ Line(s) = chan[p]
  BY <1>1, TheLine DEF Line
<1>5a. \/ chan[p].pids_connected = 2 /\ chan' = chan
       \/ /\ chan[p].pids_connected = 1
          /\ chan' = [chan EXCEPT ![p] = WithSecond(chan[p], p)]
       \/ /\ chan[p].pids_connected = 0
          /\ chan' = [chan EXCEPT ![p] = WithFirst(p)]
  BY <1>1, <1>2, ChanendCases
<1>6. /\ \A t \in Seats : t # s => Line(t)' = Line(t)
      /\ \A q \in Procs : q # p => call'[q] = call[q] /\ reply'[q] = reply[q]
  <2>1. \A q \in Procs : q # p => call'[q] = call[q] /\ reply'[q] = reply[q]
    BY <1>1, <1>2 DEF chanend, Answer, TypeOK, ChannelsTypeOK
  <2>3. \A d \in Chids : d # p => chan'[d] = chan[d]
    BY <1>5, <1>5a
  <2> QED
    BY <1>1, <2>1, <2>3 DEF Line
<1>7. /\ ~OrderUp(s)' /\ ~AnswerUp(s)' /\ Joined(s)'
      /\ WaiterHere(s) => Side(s)' = Side(s)
  <2>1. (WaiterHere(s)' <=> WaiterHere(s)) /\ (Born(s)' <=> Born(s))
    BY <1>2 DEF WaiterHere, Born, waiter
  <2>2. CASE WaiterHere(s)
    <3>1. Line(s).pids_connected = 1 /\ Line(s).end[1] = W
      BY <1>4, <2>2, <1>1 DEF Joined
    <3>2. Line(s)' = WithSecond(Line(s), p)
      <4>1. chan' = [chan EXCEPT ![p] = WithSecond(chan[p], p)]
        BY <1>5, <1>5a, <3>1
      <4> QED
        BY <1>1, <1>5, <4>1 DEF Line
    <3>3. /\ Line(s)'.pids_connected = 2
          /\ Line(s)'.end[1] = W /\ Line(s)'.end[2] = p
          /\ Line(s)'.on = Line(s).on
      <4>1. p \in Procs /\ Line(s) \in Channel
        BY <1>1, <1>5
      <4>2. /\ WithSecond(Line(s), p).pids_connected = 2
            /\ WithSecond(Line(s), p).end[1] = Line(s).end[1]
            /\ WithSecond(Line(s), p).end[2] = p
            /\ WithSecond(Line(s), p).on = Line(s).on
        BY <4>1, SecondEnd
      <4> QED
        BY <3>1, <3>2, <4>2
    <3>4. Side(s) = 2 /\ Side(s)' = 2
      BY <1>1, <3>1, <3>3 DEF Side
    <3>5. ~OrderUp(s)' /\ ~AnswerUp(s)'
      BY <1>4, <3>3, <3>4 DEF Rest, OrderUp, AnswerUp
    <3>6. Joined(s)'
      BY <1>1, <1>3, <1>4, <2>1, <2>2, <3>3, <3>4, <1>2 DEF Joined, Other
    <3> QED
      BY <3>4, <3>5, <3>6
  <2>3. CASE ~WaiterHere(s)
    <3>1. Line(s).pids_connected = 0
      BY <1>4, <2>3, <1>1 DEF Joined
    <3>2. Line(s)' = WithFirst(p)
      <4>1. chan' = [chan EXCEPT ![p] = WithFirst(p)]
        BY <1>5, <1>5a, <3>1
      <4> QED
        BY <1>1, <1>5, <4>1 DEF Line
    <3>3. /\ Line(s)'.pids_connected = 1 /\ Line(s)'.end[1] = p
          /\ \A e \in Ends : ~Line(s)'.on[e]
      BY <1>1, <3>2, FirstEnd
    <3>4. Side(s)' = 1 /\ 1 \in Ends /\ Other(1) \in Ends
      BY <3>3 DEF Side, Ends, Other
    <3>5. ~OrderUp(s)' /\ ~AnswerUp(s)'
      BY <3>3, <3>4 DEF OrderUp, AnswerUp
    <3>6. Joined(s)'
      BY <1>1, <1>2, <1>3, <1>4, <2>1, <2>3, <3>3 DEF Joined
    <3> QED
      BY <2>3, <3>5, <3>6
  <2> QED
    BY <2>2, <2>3
<1>8. Talk(s)'
  <2>1. (Reading(s)' <=> Reading(s)) /\ (Deciding(s)' <=> Deciding(s))
    BY <1>2 DEF Reading, Deciding, Idle, waiter
  <2>2. Rest(s)'
    BY <1>2, <1>3, <1>4, <1>7, <2>1 DEF Rest, CallAt
  <2>3. Idle(p)'
    BY <1>2, <1>4 DEF Rest, CallAt, Idle
  <2> QED
    BY <2>2, <2>3 DEF Talk
<1>9. Holds(s)' = Holds(s) /\ Listed(s)' = Listed(s)
  <2>1. Answered(s) = FALSE /\ Answered(s)' = FALSE /\ eating' = eating
    BY <1>2, <1>3 DEF Answered
  <2>2. Holds(s)' = Holds(s)
    BY <2>1 DEF Holds
  <2>3. Pending(s)' <=> Pending(s)
    BY <1>2, <1>4, <1>7 DEF Pending, Rest, waiter
  <2> QED
    BY <2>2, <2>3 DEF Listed
<1>10. w_at \in {"fork", "connect"} => ~eating'[s] /\ at'[s] # "waiting"
  BY <1>2, <1>3 DEF IInv, List
<1> HIDE DEF p
<1>11. \A t \in Seats : t # s => eating'[t] = eating[t]
  BY <1>2
<1> QED
  BY <1>1, <1>2, <1>3, <1>6, <1>7, <1>8, <1>9, <1>10, <1>11, PhilKeeps DEF p

LEMMA OrderKeeps ==
  ASSUME IInv, TypeOK', EndsSet', NEW s \in Seats, PhilOrder(s)
  PROVE  IInv' /\ \A t \in Seats : Holds(t)' = Holds(t)
<1>0. PICK p \in Procs, e \in Ends, m \in Messages :
        /\ p = PhilPid(s) /\ e = Side(s)
        /\ m = IF Holds(s) THEN FORK_RET ELSE FORK_WANT
  BY Numbers, TheLine DEF IInv
<1>1. /\ TypeOK /\ Joined(s) /\ Talk(s) /\ p # W
      /\ at[s] \in {"connected", "waiting"} /\ at' = [at EXCEPT ![s] = "ordered"]
      /\ eating' = [eating EXCEPT ![s] = Holds(s)]
      /\ Send(p, p, m) /\ Idle(p) /\ UNCHANGED waiter
  BY <1>0, Numbers DEF IInv, PhilOrder, Send
<1>2. /\ at'[s] = "ordered" /\ \A t \in Seats : t # s => at'[t] = at[t]
      /\ eating'[s] = Holds(s) /\ \A t \in Seats : t # s => eating'[t] = eating[t]
  BY <1>1 DEF TypeOK
<1>3. Rest(s)
  BY <1>0, <1>1 DEF Talk, Rest, Ordered, Taken, Told, Expecting, Idle, CallAt
<1>4. Here(s) /\ Here(s)'
  BY <1>1, <1>2 DEF Here
<1>5. which_end(p, p) = e
  BY <1>0, <1>1, <1>4, Sides
<1>6. /\ Line(s)'.end = Line(s).end /\ Line(s)'.pids_connected = Line(s).pids_connected
      /\ Line(s)'.on[Other(e)] /\ Line(s)'.data[Other(e)] = m
      /\ Line(s)'.on[e] = Line(s).on[e]
      /\ \A t \in Seats : t # s => Line(t)' = Line(t)
      /\ call'[p] = [at |-> "blocked", c |-> p, end |-> e]
      /\ \A q \in Procs : q # p => call'[q] = call[q]
      /\ reply' = reply
  BY <1>0, <1>1, <1>5, SendLine
<1>7. Side(s)' = e
  BY <1>0, <1>6 DEF Side
<1>8. Joined(s)'
  <2>1. (WaiterHere(s)' <=> WaiterHere(s)) /\ (Born(s)' <=> Born(s))
    BY <1>1 DEF WaiterHere, Born, waiter
  <2> QED
    BY <1>0, <1>1, <1>2, <1>4, <1>6, <1>7, <2>1 DEF Joined
<1>9. OrderUp(s)' /\ ~AnswerUp(s)' /\ OrderOn(s)' = m
  BY <1>0, <1>3, <1>6, <1>7 DEF OrderUp, AnswerUp, OrderOn, Rest
<1>10. Talk(s)'
  <2>1. ~Deciding(s)'
    BY <1>0, <1>1, <1>3, <1>6, Numbers DEF Rest, Deciding, Idle, waiter
  <2>2. Wish(s)' = m
    BY <1>0, <1>2 DEF Wish
  <2>3. Ordered(s)'
    BY <1>0, <1>2, <1>6, <1>9, <2>1, <2>2 DEF Ordered, CallAt
  <2> QED
    BY <1>0, <1>6, <1>7, <2>3 DEF Talk
<1>11. Holds(s)' = Holds(s) /\ Listed(s)' = Listed(s)
  <2>1. ~Answered(s)'
    BY <1>2 DEF Answered
  <2>2. Holds(s)' <=> Holds(s)
    BY <1>2, <2>1, HoldingNext
  <2>3. Pending(s)' <=> Pending(s)
    BY <1>1, <1>3, <1>9 DEF Pending, Rest, waiter
  <2>4. Holds(s) \in BOOLEAN /\ Holds(s)' \in BOOLEAN
    BY <1>1, Holding, HoldingNext
  <2>5. Holds(s)' = Holds(s)
    BY <2>2, <2>4, Zenon
  <2> QED
    BY <2>3, <2>5 DEF Listed
<1>12. w_at \in {"fork", "connect"} => ~eating'[s] /\ at'[s] # "waiting"
  <2>1. w_at \in {"fork", "connect"} => ~eating[s] /\ ~Answered(s)
    BY DEF IInv, List, Answered
  <2> QED
    BY <1>1, <1>2, <2>1, Holding
<1> QED
  BY <1>0, <1>1, <1>2, <1>6, <1>7, <1>8, <1>10, <1>11, <1>12, PhilKeeps

LEMMA AskKeeps ==
  ASSUME IInv, TypeOK', EndsSet', NEW s \in Seats, PhilReceive(s)
  PROVE  IInv' /\ \A t \in Seats : Holds(t)' = Holds(t)
<1>0. PICK p \in Procs, e \in Ends : p = PhilPid(s) /\ e = Side(s)
  BY Numbers, TheLine DEF IInv
<1>1. /\ TypeOK /\ Joined(s) /\ Talk(s) /\ p # W
      /\ at[s] = "ordered" /\ at' = [at EXCEPT ![s] = "waiting"]
      /\ Receive(p, p) /\ Idle(p) /\ UNCHANGED <<waiter, eating, chan, reply>>
  BY <1>0, Numbers DEF IInv, PhilReceive, Receive
<1>2. at'[s] = "waiting" /\ \A t \in Seats : t # s => at'[t] = at[t]
  BY <1>1 DEF TypeOK
<1>3. Taken(s) \/ Told(s)
  BY <1>0, <1>1 DEF Talk, Rest, Ordered, Idle, CallAt
<1>4. Here(s) /\ Here(s)'
  BY <1>1, <1>2 DEF Here
<1>5. which_end(p, p) = e
  BY <1>0, <1>1, <1>4, Sides
<1>6. /\ call'[p] = [at |-> "waiting", c |-> p, end |-> e]
      /\ \A q \in Procs : q # p => call'[q] = call[q]
  BY <1>1, <1>5 DEF Receive, Goto, TypeOK, ChannelsTypeOK
<1>7. \A t \in Seats : /\ Line(t)' = Line(t) /\ Side(t)' = Side(t)
                       /\ OrderUp(t)' = OrderUp(t) /\ AnswerUp(t)' = AnswerUp(t)
                       /\ AnswerOn(t)' = AnswerOn(t)
  BY <1>1 DEF Line, Side, OrderUp, AnswerUp, AnswerOn
<1>8. Joined(s)'
  <2>1. (WaiterHere(s)' <=> WaiterHere(s)) /\ (Born(s)' <=> Born(s))
    BY <1>1 DEF WaiterHere, Born, waiter
  <2> QED
    BY <1>1, <1>2, <1>4, <1>7, <2>1 DEF Joined
<1>9. Talk(s)'
  <2>1. /\ Deciding(s)' <=> Deciding(s)
        /\ Answering(s)' <=> Answering(s)
        /\ Wish(s)' = Wish(s) /\ Verdict' = Verdict /\ reply' = reply
    BY <1>0, <1>1, <1>6, Numbers DEF Deciding, Answering, Idle, waiter, Wish, Verdict
  <2>2. Expecting(s)' /\ CallAt(s)' = "waiting"
    BY <1>0, <1>2, <1>6 DEF Expecting, CallAt
  <2>3. Taken(s)' \/ Told(s)'
    BY <1>3, <1>7, <2>1, <2>2 DEF Taken, Told
  <2> QED
    BY <1>0, <1>6, <1>7, <2>3 DEF Talk
<1>10. Holds(s)' = Holds(s) /\ Listed(s)' = Listed(s)
  <2>1. Answered(s) = FALSE /\ Answered(s)' = FALSE /\ eating' = eating
    BY <1>0, <1>1, <1>2, <1>6 DEF Answered, Idle
  <2>2. Holds(s)' = Holds(s)
    BY <2>1 DEF Holds
  <2>3. Pending(s)' <=> Pending(s)
    BY <1>1, <1>7 DEF Pending, waiter
  <2> QED
    BY <2>2, <2>3 DEF Listed
<1>11. w_at \notin {"fork", "connect"}
  BY <1>3 DEF Taken, Told, Deciding, Answering
<1> QED
  BY <1>0, <1>1, <1>2, <1>6, <1>7, <1>8, <1>9, <1>10, <1>11, PhilKeeps

\* What a philosopher in a call knows of its channel.
LEMMA PhilInCall ==
  ASSUME IInv, NEW s \in Seats, CallAt(s) # "none"
  PROVE  /\ call[PhilPid(s)].c = PhilPid(s) /\ call[PhilPid(s)].end = Side(s)
         /\ Here(s) /\ which_end(PhilPid(s), PhilPid(s)) = Side(s)
         /\ at[s] \in {"ordered", "waiting"} /\ ~Rest(s)
<1>1. Talk(s) /\ TypeOK /\ Joined(s)
  BY DEF IInv
<1>2. at[s] \in {"ordered", "waiting"} /\ ~Rest(s)
  BY <1>1 DEF Talk, Rest, Ordered, Taken, Told, Expecting
<1>3. Here(s)
  BY <1>2 DEF Here
<1> QED
  BY <1>1, <1>2, <1>3, Sides DEF Talk, Idle, CallAt

\* The two that poll.
LEMMA PhilPolls ==
  ASSUME IInv, TypeOK', EndsSet', NEW s \in Seats,
         SendBlocked(PhilPid(s)) \/ ReceiveWaiting(PhilPid(s)),
         UNCHANGED <<waiter, phils>>
  PROVE  IInv' /\ \A t \in Seats : Holds(t)' = Holds(t)
<1>0. PICK p \in Procs, e \in Ends : p = PhilPid(s) /\ e = Side(s)
  BY Numbers, TheLine DEF IInv
<1>1. /\ TypeOK /\ Joined(s) /\ Talk(s) /\ p # W
      /\ UNCHANGED <<waiter, at, eating>>
      /\ CallAt(s) = call[p].at /\ CallAt(s) # "none"
  BY <1>0, Numbers DEF IInv, phils, CallAt, SendBlocked, ReceiveWaiting
<1>2. call[p].c = p /\ call[p].end = e /\ Here(s) /\ ~Rest(s)
  BY <1>0, <1>1, PhilInCall
<1>3. /\ SendBlocked(p) =>
           ~Line(s).on[Other(e)] \/ Line(s).on[e]
      /\ ReceiveWaiting(p) => Line(s).on[e] /\ ~Line(s).on[Other(e)]
      /\ UNCHANGED <<chan, reply>>
      /\ call'[p] = IF SendBlocked(p) THEN NoCall
                    ELSE [at |-> "take", c |-> p, end |-> e]
      /\ \A q \in Procs : q # p => call'[q] = call[q]
  BY <1>0, <1>1, <1>2, PollLine
<1>4. \A t \in Seats : /\ Line(t)' = Line(t) /\ Side(t)' = Side(t)
                       /\ OrderUp(t)' = OrderUp(t) /\ AnswerUp(t)' = AnswerUp(t)
                       /\ AnswerOn(t)' = AnswerOn(t)
  BY <1>3 DEF Line, Side, OrderUp, AnswerUp, AnswerOn
<1>5. Joined(s)'
  <2>1. /\ WaiterHere(s)' <=> WaiterHere(s)
        /\ Born(s)' <=> Born(s)
        /\ Here(s)' <=> Here(s)
    BY <1>1 DEF WaiterHere, Born, waiter, Here
  <2> QED
    BY <1>1, <1>4, <2>1 DEF Joined
<1>6. /\ Deciding(s)' <=> Deciding(s)
      /\ Answering(s)' <=> Answering(s)
      /\ Wish(s)' = Wish(s) /\ Verdict' = Verdict /\ reply'[W] = reply[W]
  BY <1>0, <1>1, <1>3, Numbers DEF Deciding, Answering, Idle, waiter, Wish, Verdict
<1>7. ASSUME SendBlocked(p)
      PROVE  /\ Talk(s)' /\ Answered(s)' = FALSE /\ Answered(s) = FALSE
             /\ Taken(s) \/ Told(s)
  <2>1. call[p].at = "blocked" /\ call'[p] = NoCall
    BY <1>3, <1>7 DEF SendBlocked
  <2>2. Taken(s) \/ Told(s)
    BY <1>0, <1>1, <1>2, <1>3, <1>7 DEF Talk, Ordered, OrderUp, AnswerUp
  <2>3. at[s] = "ordered"
    BY <1>1, <2>1, <2>2 DEF Taken, Told, Expecting
  <2>4. Expecting(s)' /\ CallAt(s)' = "none"
    BY <1>0, <1>1, <2>1, <2>3 DEF Expecting, CallAt, NoCall
  <2>5. Taken(s)' \/ Told(s)'
    BY <1>4, <1>6, <2>2, <2>4 DEF Taken, Told
  <2>6. Talk(s)'
    BY <1>0, <2>1, <2>5 DEF Talk, Idle, NoCall
  <2>7. Answered(s) = FALSE /\ Answered(s)' = FALSE
    BY <1>1, <2>3 DEF Answered
  <2> QED
    BY <2>2, <2>6, <2>7
<1>8. ASSUME ReceiveWaiting(p)
      PROVE  /\ Talk(s)' /\ Answered(s)' = FALSE /\ Answered(s) = FALSE
             /\ Taken(s) \/ Told(s)
  <2>1. call[p].at = "waiting" /\ call'[p] = [at |-> "take", c |-> p, end |-> e]
    BY <1>3, <1>8 DEF ReceiveWaiting, SendBlocked
  <2>2. Told(s)
    BY <1>0, <1>1, <1>2, <1>3, <1>8 DEF Talk, Ordered, Taken, AnswerUp
  <2>3. at[s] = "waiting"
    BY <1>1, <2>1, <2>2 DEF Told, Expecting
  <2>4. Expecting(s)' /\ CallAt(s)' = "take"
    BY <1>0, <1>1, <2>1, <2>3 DEF Expecting, CallAt
  <2>5. Told(s)'
    BY <1>4, <1>6, <2>2, <2>4 DEF Told
  <2>6. Talk(s)'
    BY <1>0, <1>4, <2>1, <2>5 DEF Talk
  <2>7. Answered(s) = FALSE /\ Answered(s)' = FALSE
    BY <1>0, <2>1 DEF Answered, Idle
  <2> QED
    BY <2>2, <2>6, <2>7
<1>9. /\ Talk(s)' /\ Answered(s)' = FALSE /\ Answered(s) = FALSE
      /\ Taken(s) \/ Told(s)
  BY <1>0, <1>7, <1>8
<1>10. Holds(s)' = Holds(s) /\ Listed(s)' = Listed(s)
  <2>1. Holds(s)' = Holds(s)
    BY <1>1, <1>9 DEF Holds
  <2>2. Pending(s)' <=> Pending(s)
    BY <1>1, <1>4 DEF Pending, waiter
  <2> QED
    BY <2>1, <2>2 DEF Listed
<1>11. w_at \notin {"fork", "connect"}
  BY <1>9 DEF Taken, Told, Deciding, Answering
<1> QED
  BY <1>0, <1>1, <1>3, <1>4, <1>5, <1>9, <1>10, <1>11, PhilKeeps

\* The answer comes.
LEMMA AnswerKeeps ==
  ASSUME IInv, TypeOK', EndsSet', NEW s \in Seats,
         ReceiveTake(PhilPid(s)), UNCHANGED <<waiter, phils>>
  PROVE  /\ IInv' /\ Told(s)
         /\ \A t \in Seats : t # s => Holds(t)' = Holds(t)
         /\ Holds(s)' <=> IF toggle THEN ~Holds(s) ELSE Holds(s)
<1>0. PICK p \in Procs, e \in Ends : p = PhilPid(s) /\ e = Side(s)
  BY Numbers, TheLine DEF IInv
<1>1. /\ TypeOK /\ Joined(s) /\ Talk(s) /\ p # W
      /\ UNCHANGED <<waiter, at, eating>>
      /\ CallAt(s) = "take" /\ call[p].at = "take" /\ ReceiveTake(p)
  BY <1>0, Numbers DEF IInv, phils, CallAt, ReceiveTake
<1>2. call[p].c = p /\ which_end(p, p) = e /\ Here(s)
  BY <1>0, <1>1, PhilInCall
<1>3. Told(s) /\ at[s] = "waiting"
  BY <1>1 DEF Talk, Rest, Ordered, Taken, Told, Expecting
<1>4. /\ Line(s)'.end = Line(s).end /\ Line(s)'.pids_connected = Line(s).pids_connected
      /\ ~Line(s)'.on[e] /\ Line(s)'.on[Other(e)] = Line(s).on[Other(e)]
      /\ \A t \in Seats : t # s => Line(t)' = Line(t)
      /\ call'[p] = NoCall /\ reply'[p] = Line(s).data[e]
      /\ \A q \in Procs : q # p => call'[q] = call[q] /\ reply'[q] = reply[q]
  BY <1>0, <1>1, <1>2, TakeLine
<1>5. /\ Side(s)' = e /\ ~AnswerUp(s)' /\ ~OrderUp(s)' /\ reply'[p] = Verdict
  <2>1. Side(s)' = e
    BY <1>0, <1>4 DEF Side
  <2> QED
    BY <1>0, <1>3, <1>4, <2>1 DEF AnswerUp, OrderUp, Told, AnswerOn
<1>6. Joined(s)'
  <2>1. /\ WaiterHere(s)' <=> WaiterHere(s)
        /\ Born(s)' <=> Born(s)
        /\ Here(s)' <=> Here(s)
    BY <1>1 DEF WaiterHere, Born, waiter, Here
  <2> QED
    BY <1>0, <1>1, <1>4, <1>5, <2>1 DEF Joined
<1>7. Talk(s)'
  <2>1. ~Reading(s)' /\ ~Deciding(s)'
    BY <1>1, <1>3 DEF Told, Answering, Reading, Deciding, waiter
  <2>2. Rest(s)'
    BY <1>0, <1>1, <1>3, <1>4, <1>5, <2>1 DEF Rest, CallAt, NoCall
  <2> QED
    BY <1>0, <1>4, <2>2 DEF Talk, Idle, NoCall
<1>8. ~Answered(s) /\ (Answered(s)' <=> toggle)
  <2>1. ~Answered(s)
    BY <1>0, <1>1 DEF Answered, Idle
  <2>2. Answered(s)' <=> reply'[p] = ORDER_ACCEPT
    BY <1>0, <1>1, <1>3, <1>4 DEF Answered, Idle, NoCall
  <2> QED
    BY <1>5, <2>1, <2>2, Numbers DEF Verdict
<1>9. Holds(s)' <=> IF toggle THEN ~Holds(s) ELSE Holds(s)
  BY <1>1, <1>8, Holding, HoldingNext
<1>10. Listed(s)' = Listed(s)
  <2>1. ~Pending(s) /\ (Pending(s)' <=> toggle)
    BY <1>1, <1>3, <1>5 DEF Pending, Told, Answering, waiter
  <2>2. Listed(s)' <=> Listed(s)
    BY <1>9, <2>1 DEF Listed
  <2>3. Listed(s) \in BOOLEAN /\ Listed(s)' \in BOOLEAN
    BY <1>1, Holding, HoldingNext
  <2> QED
    BY <2>2, <2>3, Zenon
<1>11. w_at \notin {"fork", "connect"}
  BY <1>3 DEF Told, Answering
<1> QED
  BY <1>0, <1>1, <1>3, <1>4, <1>5, <1>6, <1>7, <1>9, <1>10, <1>11, PhilKeeps

-----------------------------------------------------------------------------
(***************************************************************************)
(* The waiter sits its philosophers down.                                  *)
(***************************************************************************)
LEMMA ForkKeeps ==
  ASSUME IInv, TypeOK', EndsSet', InitFork
  PROVE  IInv' /\ \A t \in Seats : Holds(t)' = Holds(t)
<1>1. /\ w_at = "fork" /\ w_at' = "connect" /\ at' = [at EXCEPT ![i] = "start"]
      /\ UNCHANGED <<chan, call, reply, i, forks, toggle, eating>>
      /\ TypeOK /\ i \in Seats
      /\ \A t \in Seats : Joined(t) /\ Talk(t)
  BY DEF InitFork, ipc, IInv, TypeOK
<1>2. at'[i] = "start" /\ \A t \in Seats : t # i => at'[t] = at[t]
  BY <1>1 DEF TypeOK
<1>3. \A t \in Seats : /\ Line(t)' = Line(t) /\ Side(t)' = Side(t)
                       /\ OrderUp(t)' = OrderUp(t) /\ AnswerUp(t)' = AnswerUp(t)
  BY <1>1 DEF Line, Side, OrderUp, AnswerUp
<1>4. /\ \A t \in Seats : (WaiterHere(t)' <=> WaiterHere(t))
      /\ \A t \in Seats : t # i => (Born(t)' <=> Born(t))
      /\ ~Born(i) /\ Born(i)'
      /\ \A t \in Seats : /\ ~Deciding(t)' /\ ~Reading(t)' /\ ~Pending(t) /\ ~Pending(t)'
                          /\ ~Deciding(t) /\ ~Answering(t)
  BY <1>1 DEF WaiterHere, Born, Deciding, Reading, Answering, Pending, Seats
<1>5. \A t \in Seats : ~Taken(t) /\ ~Told(t)
  BY <1>1, <1>4, TalkWithWaiter
<1>6. at[i] = "unborn"
  BY <1>1, <1>4 DEF Joined
<1>7. ASSUME NEW t \in Seats
      PROVE  Joined(t)' /\ Talk(t)' /\ Holds(t)' = Holds(t) /\ Listed(t)' = Listed(t)
  <2>1. CASE t # i
    <3>1. Joined(t)' /\ Talk(t)'
      BY <1>1, <1>2, <1>3, <1>4, <1>5, <2>1, SeatStays
    <3>2. Holds(t)' = Holds(t)
      BY <1>1, <1>2, <1>3, <2>1, HoldsStay
    <3> QED
      BY <1>4, <3>1, <3>2 DEF Listed
  <2>2. CASE t = i
    <3>1. ~Here(t) /\ ~Here(t)'
      BY <1>1, <1>2, <1>6, <2>2 DEF Here
    <3>2. Joined(t)'
      BY <1>1, <1>2, <1>3, <1>4, <2>2, <3>1 DEF Joined
    <3>3. Rest(t)
      BY <1>1, <1>6, <2>2 DEF Talk, Rest, Ordered, Taken, Told, Expecting
    <3>4. Rest(t)' /\ Idle(PhilPid(t))'
      BY <1>1, <1>2, <1>3, <1>4, <2>2, <3>3 DEF Rest, CallAt, Idle
    <3>5. Answered(t) = FALSE /\ Answered(t)' = FALSE
      BY <1>1, <1>2, <1>6, <2>2 DEF Answered
    <3>6. Holds(t)' = Holds(t)
      BY <1>1, <3>5 DEF Holds
    <3> QED
      BY <1>4, <2>2, <3>2, <3>4, <3>6 DEF Talk, Listed
  <2> QED
    BY <2>1, <2>2
<1>8. WaiterCall'
  BY <1>1, <1>3 DEF IInv, WaiterCall, Idle
<1>9. List'
  BY <1>1, <1>2 DEF IInv, List
<1> QED
  BY <1>7, <1>8, <1>9 DEF IInv

LEMMA SitKeeps ==
  ASSUME IInv, TypeOK', EndsSet', InitConnect
  PROVE  IInv' /\ \A t \in Seats : Holds(t)' = Holds(t)
<1>0. PICK s \in Seats, p \in Procs : s = i /\ p = PhilPid(s)
  BY Numbers DEF IInv, TypeOK
<1>1. /\ w_at = "connect" /\ forks' = [forks EXCEPT ![i] = TRUE]
      /\ chanend(W, p) /\ UNCHANGED <<call, toggle, at, eating>>
      /\ \/ NextSeat # 0 /\ w_at' = "fork" /\ i' = NextSeat
         \/ NextSeat = 0 /\ w_at' = "next" /\ i' = i
      /\ TypeOK /\ ChannelsTypeOK /\ i \in Seats
      /\ \A t \in Seats : Joined(t) /\ Talk(t)
  BY <1>0 DEF InitConnect, chanend, phils, IInv, TypeOK
<1>2. /\ \A t \in Seats : t # s => PhilPid(t) # p /\ PhilPid(t) \in Chids
      /\ p # W /\ p # 0 /\ p \in Chids /\ W \in Procs
      /\ chan \in [Chids -> Channel] /\ Line(s) \in Channel /\ Line(s) = chan[p]
      /\ Side(s) \in Ends /\ Other(Side(s)) \in Ends
  BY <1>0, <1>1, Numbers, TheLine DEF Line
<1>3. \/ i' = i + 1 /\ w_at' = "fork" /\ i # NUM_PHILS - 1
      \/ i' = i /\ w_at' = "next" /\ i = NUM_PHILS - 1
  BY <1>1 DEF NextSeat, Seats
<1>4. /\ \A t \in Seats : t # s => (WaiterHere(t)' <=> WaiterHere(t))
      /\ \A t \in Seats : (Born(t)' <=> Born(t))
      /\ ~WaiterHere(s) /\ WaiterHere(s)' /\ Born(s)
      /\ \A t \in Seats : /\ ~Deciding(t)' /\ ~Reading(t)' /\ ~Deciding(t) /\ ~Answering(t)
  BY <1>0, <1>1, <1>3 DEF WaiterHere, Born, Deciding, Reading, Answering, Seats
<1>5. \A t \in Seats : /\ ~Taken(t) /\ ~Told(t) /\ ~eating[t] /\ at[t] # "waiting"
                       /\ ~toggle /\ ~toggle' /\ ~Pending(t) /\ ~Pending(t)'
  BY <1>1, <1>4, TalkWithWaiter DEF IInv, List, Pending
<1>6. \/ chan[p].pids_connected = 2 /\ chan' = chan
      \/ /\ chan[p].pids_connected = 1
         /\ chan' = [chan EXCEPT ![p] = WithSecond(chan[p], W)]
      \/ /\ chan[p].pids_connected = 0
         /\ chan' = [chan EXCEPT ![p] = WithFirst(W)]
  BY <1>1, <1>2, ChanendCases
<1>7. /\ \A t \in Seats : t # s => Line(t)' = Line(t)
      /\ \A q \in Procs : q # W => reply'[q] = reply[q]
  <2>1. \A q \in Procs : q # W => reply'[q] = reply[q]
    BY <1>1, <1>2 DEF chanend, Answer, TypeOK, ChannelsTypeOK
  <2>2. \A d \in Chids : d # p => chan'[d] = chan[d]
    BY <1>2, <1>6
  <2> QED
    BY <1>2, <2>1, <2>2 DEF Line
\* What happens on the channel of this seat.
<1>8. /\ chan'[p].end[Other(Side(s))] = W
      /\ \/ /\ Here(s) /\ chan'[p].pids_connected = 2 /\ chan'[p].end[Side(s)] = p
            /\ Side(s) = 1 /\ chan'[p].on = Line(s).on /\ chan'[p].data = Line(s).data
         \/ /\ ~Here(s) /\ chan'[p].pids_connected = 1 /\ Side(s) = 2
            /\ \A e \in Ends : ~chan'[p].on[e]
  <2>1. CASE Here(s)
    <3>1. Line(s).pids_connected = 1 /\ Line(s).end[1] = p
      BY <1>0, <1>1, <1>4, <2>1 DEF Joined
    <3>2. chan'[p] = WithSecond(Line(s), W)
      BY <1>2, <1>6, <3>1
    <3>3. /\ chan'[p].pids_connected = 2
          /\ chan'[p].end[1] = p /\ chan'[p].end[2] = W
          /\ chan'[p].on = Line(s).on /\ chan'[p].data = Line(s).data
      BY <1>2, <3>1, <3>2, SecondEnd
    <3>4. Side(s) = 1 /\ Other(Side(s)) = 2
      BY <1>0, <3>1 DEF Side, Other
    <3> QED
      BY <2>1, <3>3, <3>4
  <2>2. CASE ~Here(s)
    <3>1. Line(s).pids_connected = 0
      BY <1>0, <1>1, <1>4, <2>2 DEF Joined
    <3>2. chan'[p] = WithFirst(W)
      BY <1>2, <1>6, <3>1
    <3>3. /\ chan'[p].pids_connected = 1 /\ chan'[p].end[1] = W
          /\ \A e \in Ends : ~chan'[p].on[e]
      BY <1>2, <3>2, FirstEnd
    <3>4. chan[p].end[1] = 0
      BY <1>2, <3>1 DEF IInv, EndsSet
    <3>5. Side(s) = 2 /\ Other(Side(s)) = 1
      BY <1>0, <1>2, <3>4 DEF Side, Other
    <3> QED
      BY <2>2, <3>3, <3>5
  <2> QED
    BY <2>1, <2>2
<1>9. Line(s)' = chan'[p] /\ Side(s)' = Side(s)
  BY <1>0, <1>2, <1>8 DEF Line, Side, Other
<1>10. Joined(s)'
  <2>1. (Here(s)' <=> Here(s)) /\ at'[s] # "unborn" /\ Born(s)'
    BY <1>1, <1>4 DEF Here, Joined
  <2> QED
    BY <1>0, <1>4, <1>8, <1>9, <2>1 DEF Joined, Other
<1>11. Talk(s)'
  <2>1. CASE Here(s)
    <3>1. /\ OrderUp(s)' = OrderUp(s) /\ AnswerUp(s)' = AnswerUp(s)
          /\ OrderOn(s)' = OrderOn(s)
          /\ CallAt(s)' = CallAt(s) /\ Wish(s)' = Wish(s)
      BY <1>1, <1>8, <1>9, <2>1 DEF OrderUp, AnswerUp, OrderOn, CallAt, Wish
    <3>2. Rest(s) => Rest(s)'
      BY <1>1, <1>4, <3>1 DEF Rest
    <3>3. Ordered(s) => Ordered(s)'
      BY <1>1, <1>4, <3>1 DEF Ordered
    <3> QED
      BY <1>1, <1>5, <1>9, <3>2, <3>3 DEF Talk, Idle
  <2>2. CASE ~Here(s)
    <3>1. Rest(s)
      BY <1>1, <1>5, <2>2 DEF Talk, Ordered, Here
    <3>2. ~OrderUp(s)' /\ ~AnswerUp(s)'
      BY <1>2, <1>8, <1>9, <2>2 DEF OrderUp, AnswerUp
    <3>3. Rest(s)' /\ Idle(PhilPid(s))'
      BY <1>1, <1>4, <3>1, <3>2 DEF Rest, CallAt, Idle
    <3> QED
      BY <3>3 DEF Talk
  <2> QED
    BY <2>1, <2>2
<1>12. \A t \in Seats : Joined(t)' /\ Talk(t)'
  <2>1. ASSUME NEW t \in Seats, t # s
        PROVE  Joined(t)' /\ Talk(t)'
    BY <1>1, <1>4, <1>5, <1>7, <2>1, SeatStays
  <2> QED
    BY <1>10, <1>11, <2>1
<1>13. \A t \in Seats : /\ ~Holds(t) /\ ~Holds(t)' /\ Holds(t)' = Holds(t)
                        /\ ~Listed(t)'
  <2>1. \A t \in Seats : /\ Answered(t) = FALSE /\ Answered(t)' = FALSE
                         /\ eating[t] = FALSE /\ eating'[t] = FALSE
    BY <1>1, <1>5 DEF Answered, TypeOK
  <2> QED
    BY <1>5, <2>1 DEF Holds, Listed
<1>14. WaiterCall'
  BY <1>1 DEF IInv, WaiterCall, Idle
<1>15. List'
  <2>1. /\ forks'[s] /\ \A t \in Seats : t # s => forks'[t] = forks[t]
        /\ \A t \in Seats : (forks[t] <=> t < i)
    BY <1>0, <1>1 DEF TypeOK, IInv, List
  <2>2. CASE w_at' = "fork"
    <3>1. \A t \in Seats : (forks'[t] <=> t < i')
      BY <1>0, <1>1, <1>3, <2>1, <2>2 DEF Seats
    <3> QED
      BY <1>1, <1>5, <2>2, <3>1 DEF List
  <2>3. CASE w_at' = "next"
    <3>1. \A t \in Seats : forks'[t]
      BY <1>0, <1>3, <2>1, <2>3 DEF Seats
    <3> QED
      BY <1>5, <1>13, <2>3, <3>1, Around DEF List
  <2> QED
    BY <1>1, <2>2, <2>3
<1> QED
  BY <1>12, <1>13, <1>14, <1>15 DEF IInv

-----------------------------------------------------------------------------
(***************************************************************************)
(* The list, and what follows from it.                                     *)
(***************************************************************************)
LEMMA FreeForks ==
  ASSUME IInv, w_at \in {"next", "order"}, NEW s \in Seats, can_eat(s)
  PROVE  /\ ~Listed(s) /\ ~Listed(Right(s))
         /\ \A r \in Seats : Right(r) = s => ~Listed(r)
  BY Around DEF IInv, List, can_eat

\* No two neighbours hold their forks, whatever the waiter still has to enter.
LEMMA Apart ==
  ASSUME IInv, NEW s \in Seats
  PROVE  ~(Holds(s) /\ Holds(Right(s)))
<1>1. TypeOK /\ Right(s) \in Seats /\ Right(s) # s
  BY Around DEF IInv
<1>2. w_at \in {"fork", "connect", "next", "order"}
  BY <1>1 DEF TypeOK
<1>3. CASE w_at \in {"fork", "connect"}
  <2>1. ~eating[s] /\ at[s] # "waiting"
    BY <1>3 DEF IInv, List
  <2>2. ~Answered(s)
    BY <2>1 DEF Answered
  <2> QED
    BY <1>1, <2>1, <2>2, Holding
<1>4. CASE w_at \in {"next", "order"}
  <2>1. ~(Listed(s) /\ Listed(Right(s)))
    BY <1>4 DEF IInv, List
  <2>2. ASSUME NEW t \in Seats
        PROVE  /\ Pending(t) => (Listed(t) <=> ~Holds(t)) /\ (Listed(t) \/ can_eat(t)) /\ t = i
               /\ ~Pending(t) => (Listed(t) <=> Holds(t))
    BY DEF Listed, Pending, IInv, List
  <2>3. CASE Pending(s)
    BY <1>1, <1>4, <2>2, <2>3, FreeForks
  <2>4. CASE Pending(Right(s))
    BY <1>1, <1>4, <2>2, <2>4, FreeForks
  <2>5. CASE ~Pending(s) /\ ~Pending(Right(s))
    BY <1>1, <2>1, <2>2, <2>5
  <2> QED
    BY <2>3, <2>4, <2>5
<1> QED
  BY <1>2, <1>3, <1>4

-----------------------------------------------------------------------------
(***************************************************************************)
(* The waiter serves.                                                      *)
(***************************************************************************)
LEMMA TurnKeeps ==
  ASSUME IInv, TypeOK', EndsSet', ServeNext
  PROVE  IInv' /\ \A t \in Seats : Holds(t)' = Holds(t)
<1>0. PICK s \in Seats, n \in Seats : s = i /\ n = i'
  BY DEF IInv, TypeOK
<1>1. /\ w_at = "next" /\ w_at' = "order" /\ n = NextSeat
      /\ \/ toggle /\ forks' = toggle_forks(s)
         \/ ~toggle /\ forks' = forks
      /\ Receive(W, PhilPid(n)) /\ Idle(W)
      /\ UNCHANGED <<toggle, at, eating, chan, reply>>
      /\ TypeOK
      /\ \A t \in Seats : Joined(t) /\ Talk(t)
  BY <1>0 DEF ServeNext, Receive, phils, IInv
<1>2. which_end(W, PhilPid(n)) = Other(Side(n)) /\ Other(Side(n)) \in Ends
  BY <1>1, Sides, TheLine DEF WaiterHere
<1>3. /\ call'[W] = [at |-> "waiting", c |-> PhilPid(n), end |-> Other(Side(n))]
      /\ \A q \in Procs : q # W => call'[q] = call[q]
  BY <1>1, <1>2, Numbers DEF Receive, Goto, TypeOK, ChannelsTypeOK
<1>4. \A t \in Seats : /\ Line(t)' = Line(t) /\ Side(t)' = Side(t)
                       /\ AnswerUp(t)' = AnswerUp(t)
                       /\ call'[PhilPid(t)] = call[PhilPid(t)]
  BY <1>1, <1>3, Numbers DEF Line, Side, AnswerUp
<1>5. /\ \A t \in Seats : /\ (WaiterHere(t)' <=> WaiterHere(t))
                          /\ (Born(t)' <=> Born(t))
                          /\ ~Deciding(t)' /\ ~Reading(t)' /\ ~Pending(t)'
                          /\ ~Deciding(t) /\ ~Answering(t)
  BY <1>1, <1>3 DEF WaiterHere, Born, Deciding, Reading, Answering, Pending, Idle
<1>6. \A t \in Seats : ~Taken(t) /\ ~Told(t)
  BY <1>1, <1>5, TalkWithWaiter
<1>7. \A t \in Seats : Joined(t)' /\ Talk(t)' /\ Holds(t)' = Holds(t)
  BY <1>1, <1>4, <1>5, <1>6, SeatStays, HoldsStay
<1>8. WaiterCall'
  BY <1>0, <1>1, <1>3, <1>4 DEF WaiterCall, Idle
<1>9. \A t \in Seats : /\ Listed(t)' <=> Holds(t)
                       /\ t # s \/ ~toggle => (Listed(t) <=> Holds(t))
                       /\ t = s /\ toggle => (Listed(t) <=> ~Holds(t))
  <2>1. \A t \in Seats : Pending(t) <=> t = s /\ toggle
    BY <1>0, <1>1, <1>6 DEF Pending, Talk, Rest, Ordered
  <2> QED
    BY <1>5, <1>7, <2>1 DEF Listed
<1>10. List'
  <2>1. /\ \A t \in Seats : (forks[Right(t)] <=> ~Listed(t) /\ ~Listed(Right(t)))
        /\ \A t \in Seats : ~(Listed(t) /\ Listed(Right(t)))
        /\ toggle => Listed(s) \/ can_eat(s)
    BY <1>0, <1>1 DEF IInv, List
  <2>2. \A t \in Seats : ~(Holds(t) /\ Holds(Right(t)))
    BY Apart
  <2>3. ASSUME NEW t \in Seats
        PROVE  forks'[Right(t)] <=> ~Holds(t) /\ ~Holds(Right(t))
    <3>1. /\ Right(t) \in Seats /\ Right(t) # t /\ Right(s) \in Seats /\ Right(s) # s
          /\ Right(t) = Right(s) => t = s
      BY Around
    <3>2. CASE ~toggle
      BY <1>1, <1>9, <2>1, <3>1, <3>2
    <3>3. CASE toggle
      <4>1. forks' = [forks EXCEPT ![s] = ~forks[s], ![Right(s)] = ~forks[Right(s)]]
        BY <1>1, <3>3 DEF toggle_forks
      <4>2. /\ forks'[s] <=> ~forks[s]
            /\ forks'[Right(s)] <=> ~forks[Right(s)]
            /\ \A r \in Seats : r # s /\ r # Right(s) => forks'[r] = forks[r]
        BY <1>1, <3>1, <4>1 DEF TypeOK
      <4>3. CASE t = s
        BY <1>1, <1>9, <2>1, <3>1, <3>3, <4>2, <4>3, FreeForks
      <4>4. CASE Right(t) = s
        BY <1>1, <1>9, <2>1, <3>1, <3>3, <4>2, <4>4, FreeForks
      <4>5. CASE t # s /\ Right(t) # s
        BY <1>9, <2>1, <3>1, <4>2, <4>5
      <4> QED
        BY <4>3, <4>4, <4>5
    <3> QED
      BY <3>2, <3>3
  <2> QED
    BY <1>1, <1>9, <2>2, <2>3, Around DEF List
<1> QED
  BY <1>7, <1>8, <1>10 DEF IInv

LEMMA ReplyKeeps ==
  ASSUME IInv, TypeOK', EndsSet', ServeOrder
  PROVE  /\ IInv' /\ \A t \in Seats : Holds(t)' = Holds(t)
         /\ ~AnswerUp(i)
<1>0. PICK s \in Seats, e \in Ends, m \in Messages :
        /\ s = i /\ e = Other(Side(s))
        /\ m = IF Granted THEN ORDER_ACCEPT ELSE ORDER_REJECT
  BY Numbers, TheLine DEF IInv, TypeOK
<1>1. /\ w_at = "order" /\ w_at' = "next"
      /\ toggle' = Granted /\ Send(W, PhilPid(s), m) /\ Idle(W)
      /\ UNCHANGED <<i, forks, at, eating>>
      /\ TypeOK
      /\ \A t \in Seats : Joined(t) /\ Talk(t)
  BY <1>0 DEF ServeOrder, Send, phils, IInv
<1>2. which_end(W, PhilPid(s)) = e /\ Other(e) = Side(s)
  BY <1>0, <1>1, Sides, TheLine DEF WaiterHere
<1>3. /\ Line(s)'.end = Line(s).end /\ Line(s)'.pids_connected = Line(s).pids_connected
      /\ Line(s)'.on[Other(e)] /\ Line(s)'.data[Other(e)] = m
      /\ Line(s)'.on[e] = Line(s).on[e]
      /\ \A t \in Seats : t # s => Line(t)' = Line(t)
      /\ call'[W] = [at |-> "blocked", c |-> PhilPid(s), end |-> e]
      /\ \A q \in Procs : q # W => call'[q] = call[q]
      /\ reply' = reply
  BY <1>0, <1>1, <1>2, Numbers, SendLine
<1>4. \A t \in Seats : call'[PhilPid(t)] = call[PhilPid(t)]
  BY <1>3, Numbers
<1>5. Taken(s)
  BY <1>0, <1>1, TalkWithWaiter DEF Deciding
<1>6. Side(s)' = Side(s)
  BY <1>3 DEF Side
<1>7. ~OrderUp(s)' /\ AnswerUp(s)' /\ AnswerOn(s)' = m
  BY <1>0, <1>2, <1>3, <1>5, <1>6 DEF OrderUp, AnswerUp, AnswerOn, Taken
<1>8. /\ \A t \in Seats : /\ (WaiterHere(t)' <=> WaiterHere(t))
                          /\ (Born(t)' <=> Born(t))
                          /\ ~Deciding(t)' /\ ~Reading(t)' /\ ~Pending(t)' /\ ~Pending(t)
                          /\ ~Answering(t)
                          /\ t # s => ~Deciding(t)
      /\ Answering(s)'
  BY <1>0, <1>1, <1>3, <1>7
     DEF WaiterHere, Born, Deciding, Reading, Answering, Pending, Idle
<1>9. Joined(s)'
  <2>1. Here(s)' <=> Here(s)
    BY <1>1 DEF Here
  <2> QED
    BY <1>1, <1>3, <1>6, <1>8, <2>1 DEF Joined
<1>10. Talk(s)'
  <2>1. Verdict' = m
    BY <1>0, <1>1 DEF Verdict
  <2>2. Expecting(s)' /\ CallAt(s)' = CallAt(s)
    BY <1>1, <1>4, <1>5 DEF Expecting, CallAt, Taken
  <2>3. Told(s)'
    BY <1>7, <1>8, <2>1, <2>2 DEF Told
  <2> QED
    BY <1>1, <1>4, <1>6, <2>3 DEF Talk, Idle
<1>11. \A t \in Seats : Joined(t)' /\ Talk(t)'
  <2>1. ASSUME NEW t \in Seats, t # s
        PROVE  Joined(t)' /\ Talk(t)'
    <3>1. ~Taken(t) /\ ~Told(t)
      BY <1>1, <1>8, <2>1, TalkWithWaiter
    <3> QED
      BY <1>1, <1>3, <1>4, <1>8, <2>1, <3>1, SeatStays
  <2> QED
    BY <1>9, <1>10, <2>1
<1>12. \A t \in Seats : Holds(t)' = Holds(t) /\ Listed(t)' = Listed(t)
  <2>1. \A t \in Seats : Holds(t)' = Holds(t)
    BY <1>1, <1>3, <1>4 DEF Holds, Answered, Idle
  <2> QED
    BY <1>8, <2>1 DEF Listed
<1>13. WaiterCall'
  BY <1>0, <1>1, <1>3, <1>6 DEF WaiterCall, Idle
<1>14. List'
  <2>1. ASSUME Granted
        PROVE  Listed(s) \/ can_eat(s)
    <3>1. CASE can_eat(s)
      BY <3>1
    <3>2. CASE reply[W] = FORK_RET
      <4>1. eating[s] /\ ~Answered(s)
        BY <1>5, <3>2, Numbers DEF Taken, Wish, Expecting, Answered, Idle, CallAt
      <4> QED
        BY <1>1, <1>8, <4>1, Holding DEF Listed
    <3> QED
      BY <1>0, <2>1, <3>1, <3>2 DEF Granted
  <2>2. can_eat(i)' <=> can_eat(s)
    BY <1>0, <1>1 DEF can_eat
  <2>3. toggle' => Granted
    BY <1>1
  <2>4. Listed(i)' <=> Listed(s)
    BY <1>0, <1>1, <1>12
  <2> QED
    BY <1>0, <1>1, <1>12, <2>1, <2>2, <2>3, <2>4, Around DEF IInv, List
<1> QED
  BY <1>0, <1>5, <1>11, <1>12, <1>13, <1>14 DEF IInv, Taken

LEMMA WaiterPolls ==
  ASSUME IInv, TypeOK', EndsSet', SendBlocked(W) \/ ReceiveWaiting(W),
         UNCHANGED <<waiter, phils>>
  PROVE  IInv' /\ \A t \in Seats : Holds(t)' = Holds(t)
<1>0. PICK s \in Seats, e \in Ends : s = i /\ e = Other(Side(s))
  BY TheLine DEF IInv, TypeOK
<1>1. /\ UNCHANGED <<w_at, i, forks, toggle, at, eating>>
      /\ TypeOK /\ WaiterCall /\ ~Idle(W) /\ W \in Procs
      /\ \A t \in Seats : Joined(t) /\ Talk(t)
  BY Numbers DEF IInv, waiter, phils, SendBlocked, ReceiveWaiting, Idle
<1>2. /\ call[W].c = PhilPid(s) /\ call[W].end = e
      /\ w_at \in {"next", "order"} /\ Other(e) = Side(s)
  BY <1>0, <1>1, InCallWithSeat, TheLine
<1>3. /\ SendBlocked(W) => ~AnswerUp(s) \/ OrderUp(s)
      /\ ReceiveWaiting(W) => OrderUp(s) /\ ~AnswerUp(s)
      /\ UNCHANGED <<chan, reply>>
      /\ call'[W] = IF SendBlocked(W) THEN NoCall
                    ELSE [at |-> "take", c |-> PhilPid(s), end |-> e]
      /\ \A q \in Procs : q # W => call'[q] = call[q]
  BY <1>0, <1>1, <1>2, PollLine DEF AnswerUp, OrderUp
<1>4. \A t \in Seats : /\ Line(t)' = Line(t) /\ Side(t)' = Side(t)
                       /\ AnswerUp(t)' = AnswerUp(t)
                       /\ call'[PhilPid(t)] = call[PhilPid(t)]
  BY <1>3, Numbers DEF Line, Side, AnswerUp
<1>5. \A t \in Seats : /\ (WaiterHere(t)' <=> WaiterHere(t))
                       /\ (Born(t)' <=> Born(t))
                       /\ (Pending(t)' <=> Pending(t))
  BY <1>1, <1>4 DEF WaiterHere, Born, Pending
<1>6. \A t \in Seats : Holds(t)' = Holds(t) /\ Listed(t)' = Listed(t)
  BY <1>1, <1>3, <1>4, <1>5, HoldsStay
<1>7. (\A t \in Seats : Joined(t)' /\ Talk(t)') /\ WaiterCall'
  <2>1. CASE SendBlocked(W)
    <3>1. call[W].at = "blocked" /\ call'[W] = NoCall /\ w_at = "next"
      BY <1>1, <1>2, <1>3, <2>1 DEF SendBlocked, WaiterCall
    <3>2. \A t \in Seats : ~Taken(t) /\ ~Told(t)
      BY <1>0, <1>1, <1>3, <2>1, <3>1 DEF Taken, Told, Deciding, Answering
    <3>3. \A t \in Seats : ~Deciding(t)' /\ ~Reading(t)'
      BY <1>1, <3>1 DEF Deciding, Reading
    <3>4. WaiterCall'
      BY <1>1, <3>1 DEF WaiterCall, NoCall, Idle
    <3> QED
      BY <1>1, <1>3, <1>4, <1>5, <3>2, <3>3, <3>4, SeatStays
  <2>2. CASE ReceiveWaiting(W)
    <3>1. /\ call[W].at = "waiting" /\ w_at = "order"
          /\ call'[W] = [at |-> "take", c |-> PhilPid(s), end |-> e]
      BY <1>1, <1>2, <1>3, <2>2 DEF ReceiveWaiting, SendBlocked, WaiterCall
    <3>2. \A t \in Seats : ~Taken(t) /\ ~Told(t)
      BY <3>1 DEF Taken, Told, Deciding, Answering, Idle
    <3>3. Ordered(s)
      BY <1>1, <1>3, <2>2, <3>2 DEF Talk, Rest
    <3>4. \A t \in Seats : ~Deciding(t)' /\ (Reading(t)' => t = s)
      BY <1>0, <1>1, <3>1 DEF Deciding, Reading, Idle
    <3>5. WaiterCall'
      BY <1>0, <1>1, <1>4, <3>1 DEF WaiterCall
    <3> QED
      BY <1>1, <1>3, <1>4, <3>2, <3>3, <3>4, <3>5, <1>5, SeatStays
  <2> QED
    BY <1>1, <2>1, <2>2
<1>8. List'
  <2>1. can_eat(i)' = can_eat(i) /\ i \in Seats
    BY <1>0, <1>1 DEF can_eat
  <2> QED
    BY <1>1, <1>6, <2>1, Around DEF IInv, List
<1> QED
  BY <1>6, <1>7, <1>8 DEF IInv

\* The waiter takes an order.
LEMMA WaiterTakes ==
  ASSUME IInv, TypeOK', EndsSet', ReceiveTake(W), UNCHANGED <<waiter, phils>>
  PROVE  IInv' /\ \A t \in Seats : Holds(t)' = Holds(t)
<1>0. PICK s \in Seats, e \in Ends : s = i /\ e = Other(Side(s))
  BY TheLine DEF IInv, TypeOK
<1>1. /\ UNCHANGED <<w_at, i, forks, toggle, at, eating>>
      /\ TypeOK /\ WaiterCall /\ ~Idle(W) /\ W \in Procs /\ call[W].at = "take"
      /\ \A t \in Seats : Joined(t) /\ Talk(t)
  BY Numbers DEF IInv, waiter, phils, ReceiveTake, Idle
<1>2. /\ call[W].c = PhilPid(s) /\ which_end(W, PhilPid(s)) = e
      /\ w_at = "order" /\ Other(e) = Side(s)
  BY <1>0, <1>1, InCallWithSeat, TheLine DEF WaiterCall
<1>3. /\ Line(s)'.end = Line(s).end /\ Line(s)'.pids_connected = Line(s).pids_connected
      /\ Line(s)'.data = Line(s).data
      /\ ~Line(s)'.on[e] /\ Line(s)'.on[Other(e)] = Line(s).on[Other(e)]
      /\ \A t \in Seats : t # s => Line(t)' = Line(t)
      /\ call'[W] = NoCall /\ reply'[W] = Line(s).data[e]
      /\ \A q \in Procs : q # W => call'[q] = call[q] /\ reply'[q] = reply[q]
  BY <1>0, <1>1, <1>2, TakeLine
<1>4. \A t \in Seats : /\ call'[PhilPid(t)] = call[PhilPid(t)]
                       /\ reply'[PhilPid(t)] = reply[PhilPid(t)]
  BY <1>3, Numbers
<1>5. Ordered(s) /\ Reading(s)
  BY <1>0, <1>1, <1>2, TalkWithWaiter DEF Reading
<1>6. Side(s)' = Side(s)
  BY <1>3 DEF Side
<1>7. ~OrderUp(s)' /\ ~AnswerUp(s)' /\ reply'[W] = Wish(s)
  BY <1>0, <1>2, <1>3, <1>5, <1>6 DEF OrderUp, AnswerUp, OrderOn, Ordered
<1>8. /\ \A t \in Seats : /\ (WaiterHere(t)' <=> WaiterHere(t))
                          /\ (Born(t)' <=> Born(t))
                          /\ ~Reading(t)' /\ ~Pending(t)' /\ ~Pending(t)
                          /\ ~Answering(t) /\ ~Deciding(t)
                          /\ t # s => ~Deciding(t)'
      /\ Deciding(s)'
  BY <1>0, <1>1, <1>2, <1>3
     DEF WaiterHere, Born, Deciding, Reading, Answering, Pending, Idle, NoCall
<1>9. Joined(s)'
  <2>1. Here(s)' <=> Here(s)
    BY <1>1 DEF Here
  <2> QED
    BY <1>1, <1>3, <1>6, <1>8, <2>1 DEF Joined
<1>10. Talk(s)'
  <2>1. Expecting(s)' /\ CallAt(s)' # "take" /\ Wish(s)' = Wish(s)
    BY <1>1, <1>4, <1>5 DEF Expecting, CallAt, Ordered, Wish
  <2>2. Taken(s)'
    BY <1>7, <1>8, <2>1 DEF Taken
  <2> QED
    BY <1>1, <1>4, <1>6, <2>2 DEF Talk, Idle
<1>11. \A t \in Seats : Joined(t)' /\ Talk(t)'
  <2>1. ASSUME NEW t \in Seats, t # s
        PROVE  Joined(t)' /\ Talk(t)'
    <3>1. ~Taken(t) /\ ~Told(t)
      BY <1>1, <1>8, TalkWithWaiter
    <3> QED
      BY <1>1, <1>3, <1>4, <1>8, <2>1, <3>1, SeatStays
  <2> QED
    BY <1>9, <1>10, <2>1
<1>12. \A t \in Seats : Holds(t)' = Holds(t) /\ Listed(t)' = Listed(t)
  <2>1. \A t \in Seats : Holds(t)' = Holds(t)
    BY <1>1, <1>4 DEF Holds, Answered, Idle
  <2> QED
    BY <1>8, <2>1 DEF Listed
<1>13. WaiterCall'
  BY <1>1, <1>2, <1>3 DEF WaiterCall, Idle, NoCall
<1>14. List'
  BY <1>1, <1>2, <1>12, Around DEF IInv, List
<1> QED
  BY <1>11, <1>12, <1>13, <1>14 DEF IInv

-----------------------------------------------------------------------------
(***************************************************************************)
(* Types, and the invariant.                                               *)
(***************************************************************************)
LEMMA EndsKeep ==
  ASSUME EndsSet,
         \A k \in Chids : /\ chan'[k].end = chan[k].end
                          /\ chan'[k].pids_connected = chan[k].pids_connected
  PROVE  EndsSet'
  BY DEF EndsSet

LEMMA ServeTyped == ASSUME IInv, ServeNext \/ ServeOrder PROVE TypeOK' /\ EndsSet'
<1>1. /\ TypeOK /\ ChannelsTypeOK /\ EndsSet /\ i \in Seats /\ NextSeat \in Seats
      /\ W \in Procs /\ PhilPid(i) \in Chids /\ PhilPid(NextSeat) \in Chids
      /\ {ORDER_ACCEPT, ORDER_REJECT} \subseteq Messages
  <2>1. TypeOK /\ ChannelsTypeOK /\ EndsSet /\ i \in Seats
    BY DEF IInv, TypeOK
  <2>2. NextSeat \in Seats
    BY <2>1, DiningAssumption DEF NextSeat, Seats
  <2> QED
    BY <2>1, <2>2, Numbers
<1>2. CASE ServeNext
  <2>1. ChannelsTypeOK' /\ UNCHANGED chan
    BY <1>1, <1>2, ReceiveTyped DEF ServeNext
  <2>2. forks' \in [Seats -> BOOLEAN]
    BY <1>1, <1>2 DEF ServeNext, toggle_forks, TypeOK
  <2> QED
    BY <1>1, <1>2, <2>1, <2>2 DEF ServeNext, phils, TypeOK, EndsSet
<1>3. CASE ServeOrder
  <2>1. /\ ChannelsTypeOK'
        /\ \A k \in Chids : /\ chan'[k].end = chan[k].end
                            /\ chan'[k].pids_connected = chan[k].pids_connected
    <3>1. PICK m \in Messages : Send(W, PhilPid(i), m)
      BY <1>1, <1>3 DEF ServeOrder
    <3> QED
      BY <1>1, <3>1, SendTyped
  <2>2. toggle' \in BOOLEAN
    BY <1>3 DEF ServeOrder, Granted
  <2> QED
    BY <1>1, <1>3, <2>1, <2>2, EndsKeep DEF ServeOrder, phils, TypeOK
<1> QED
  BY <1>2, <1>3

LEMMA SitTyped == ASSUME IInv, InitFork \/ InitConnect PROVE TypeOK' /\ EndsSet'
<1>1. /\ TypeOK /\ ChannelsTypeOK /\ EndsSet /\ i \in Seats /\ NextSeat \in Seats
      /\ W \in Procs /\ PhilPid(i) \in Chids
  BY Numbers DEF IInv, TypeOK, NextSeat, Seats
<1>2. CASE InitFork
  BY <1>1, <1>2 DEF InitFork, ipc, TypeOK, ChannelsTypeOK, EndsSet
<1>3. CASE InitConnect
  <2>1. ChannelsTypeOK' /\ EndsSet'
    BY <1>1, <1>3, ChanendTyped DEF InitConnect
  <2> QED
    BY <1>1, <1>3, <2>1 DEF InitConnect, phils, TypeOK
<1> QED
  BY <1>2, <1>3

LEMMA PhilTyped ==
  ASSUME IInv, NEW s \in Seats, PhilConnect(s) \/ PhilOrder(s) \/ PhilReceive(s)
  PROVE  TypeOK' /\ EndsSet'
<1>1. /\ TypeOK /\ ChannelsTypeOK /\ EndsSet
      /\ PhilPid(s) \in Procs /\ PhilPid(s) \in Chids
      /\ {FORK_WANT, FORK_RET} \subseteq Messages
  BY Numbers DEF IInv, TypeOK
<1>2. CASE PhilConnect(s)
  <2>1. ChannelsTypeOK' /\ EndsSet'
    BY <1>1, <1>2, ChanendTyped DEF PhilConnect
  <2> QED
    BY <1>1, <1>2, <2>1 DEF PhilConnect, waiter, TypeOK
<1>3. CASE PhilOrder(s)
  <2>1. /\ ChannelsTypeOK'
        /\ \A k \in Chids : /\ chan'[k].end = chan[k].end
                            /\ chan'[k].pids_connected = chan[k].pids_connected
    <3>1. PICK m \in Messages : Send(PhilPid(s), PhilPid(s), m)
      BY <1>1, <1>3 DEF PhilOrder
    <3> QED
      BY <1>1, <3>1, SendTyped
  <2>2. eating' \in [Seats -> BOOLEAN]
    BY <1>1, <1>3, Holding DEF PhilOrder, TypeOK
  <2> QED
    BY <1>1, <1>3, <2>1, <2>2, EndsKeep DEF PhilOrder, waiter, TypeOK
<1>4. CASE PhilReceive(s)
  <2>1. ChannelsTypeOK' /\ UNCHANGED chan
    BY <1>1, <1>4, ReceiveTyped DEF PhilReceive
  <2> QED
    BY <1>1, <1>4, <2>1 DEF PhilReceive, waiter, TypeOK, EndsSet
<1> QED
  BY <1>2, <1>3, <1>4

LEMMA LibraryTyped ==
  ASSUME IInv, NEW p \in Procs, Library(p), UNCHANGED <<waiter, phils>>
  PROVE  TypeOK' /\ EndsSet'
<1>1. TypeOK /\ ChannelsTypeOK /\ EndsSet
  BY DEF IInv, TypeOK
<1>2. ASSUME ReceiveTake(p)
      PROVE  call[p].c \in Chids
  <2>1. call[p].at = "take"
    BY <1>2 DEF ReceiveTake
  <2>2. CASE p = W
    BY <2>1, <2>2, InCallWithSeat, Numbers DEF Idle
  <2>3. ASSUME NEW s \in Seats, p = PhilPid(s)
        PROVE  call[p].c \in Chids
    BY <2>1, <2>3, PhilInCall, Numbers DEF CallAt
  <2> QED
    BY <2>2, <2>3, Numbers
<1>3. /\ ChannelsTypeOK'
      /\ \A k \in Chids : /\ chan'[k].end = chan[k].end
                          /\ chan'[k].pids_connected = chan[k].pids_connected
  BY <1>1, <1>2, TakeTyped, BlockedWaitingTyped DEF Library
<1> QED
  BY <1>1, <1>3, EndsKeep DEF waiter, phils, TypeOK

\* A step keeps the invariant; and it changes what philosophers hold only by giving
\* or taking the forks of one, to which the answer has come.
LEMMA Step ==
  ASSUME IInv, [Next]_dining
  PROVE  /\ IInv'
         /\ \/ \A t \in Seats : Holds(t)' = Holds(t)
            \/ \E s \in Seats :
                 /\ Told(s) /\ toggle /\ (Holds(s)' <=> ~Holds(s))
                 /\ \A t \in Seats : t # s => Holds(t)' = Holds(t)
<1>1. CASE UNCHANGED dining
  <2>1. UNCHANGED <<chan, call, reply, w_at, i, forks, toggle, at, eating>>
    BY <1>1 DEF dining, ipc, waiter, phils
  <2>2. TypeOK' /\ EndsSet'
    BY <2>1 DEF IInv, TypeOK, ChannelsTypeOK, EndsSet
  <2>3. PICK s \in Seats : s = i
    BY DEF IInv, TypeOK
  <2>4. /\ \A t \in Seats : Line(t)' = Line(t)
        /\ Joined(s)' <=> Joined(s)
        /\ Talk(s)' <=> Talk(s)
        /\ Side(s)' = Side(s) /\ \A t \in Seats : Holds(t)' = Holds(t)
    BY <2>1 DEF Line, Joined, Talk, Side, Holds, Answered, Idle, Here, WaiterHere, Born,
                Rest, Ordered, Taken, Told, Reading, Deciding, Answering, Expecting,
                OrderUp, OrderOn, AnswerUp, AnswerOn, CallAt, Wish, Verdict
  <2>5. \A t \in Seats : Listed(t)' = Listed(t)
    BY <2>1, <2>4 DEF Listed, Pending, AnswerUp, Line, Side
  <2>6. /\ Joined(s)' /\ Talk(s)'
        /\ w_at \in {"fork", "connect"} => ~eating'[s] /\ at'[s] # "waiting"
    BY <2>1, <2>4 DEF IInv, List
  <2>7. UNCHANGED waiter
    BY <2>1 DEF waiter
  <2>8. IInv'
    BY <2>1, <2>2, <2>4, <2>5, <2>6, <2>7, PhilKeeps
  <2> QED
    BY <2>4, <2>8
<1>2. CASE InitFork
  BY <1>2, SitTyped, ForkKeeps
<1>3. CASE InitConnect
  BY <1>3, SitTyped, SitKeeps
<1>4. CASE ServeNext
  BY <1>4, ServeTyped, TurnKeeps
<1>5. CASE ServeOrder
  BY <1>5, ServeTyped, ReplyKeeps
<1>6. CASE Library(W) /\ UNCHANGED <<waiter, phils>>
  BY <1>6, LibraryTyped, Numbers, WaiterPolls, WaiterTakes DEF Library
<1>7. ASSUME NEW s \in Seats, Phil(s)
      PROVE  /\ IInv'
             /\ \/ \A t \in Seats : Holds(t)' = Holds(t)
                \/ /\ Told(s) /\ toggle /\ (Holds(s)' <=> ~Holds(s))
                   /\ \A t \in Seats : t # s => Holds(t)' = Holds(t)
  <2>1. CASE PhilConnect(s)
    BY <2>1, PhilTyped, ConnectKeeps
  <2>2. CASE PhilOrder(s)
    BY <2>2, PhilTyped, OrderKeeps
  <2>3. CASE PhilReceive(s)
    BY <2>3, PhilTyped, AskKeeps
  <2>4. CASE Library(PhilPid(s)) /\ UNCHANGED <<waiter, phils>>
    <3>1. TypeOK' /\ EndsSet'
      BY <2>4, LibraryTyped, Numbers
    <3>2. CASE SendBlocked(PhilPid(s)) \/ ReceiveWaiting(PhilPid(s))
      BY <2>4, <3>1, <3>2, PhilPolls
    <3>3. CASE ReceiveTake(PhilPid(s))
      <4>1. /\ IInv' /\ Told(s)
            /\ \A t \in Seats : t # s => Holds(t)' = Holds(t)
            /\ Holds(s)' <=> IF toggle THEN ~Holds(s) ELSE Holds(s)
        BY <2>4, <3>1, <3>3, AnswerKeeps
      <4>2. Holds(s) \in BOOLEAN /\ Holds(s)' \in BOOLEAN
        BY <3>1, Holding, HoldingNext DEF IInv
      <4>3. CASE toggle
        BY <4>1, <4>3
      <4>4. CASE ~toggle
        <5>1. Holds(s)' <=> Holds(s)
          BY <4>1, <4>4
        <5>2. Holds(s)' = Holds(s)
          BY <4>2, <5>1, Zenon
        <5> QED
          BY <4>1, <5>2
      <4> QED
        BY <4>3, <4>4
    <3> QED
      BY <2>4, <3>2, <3>3 DEF Library
  <2> QED
    BY <1>7, <2>1, <2>2, <2>3, <2>4 DEF Phil
<1> QED
  BY <1>1, <1>2, <1>3, <1>4, <1>5, <1>6, <1>7 DEF Next, Waiter

LEMMA Start == Init => IInv
<1> SUFFICES ASSUME Init PROVE IInv
  OBVIOUS
<1>1. /\ chan = [c \in Chids |-> NoChannel] /\ NoChannel \in Channel
      /\ call = [p \in Procs |-> NoCall] /\ reply = [p \in Procs |-> 0]
      /\ 0 \in Seats
  BY Fresh DEF Init, ChannelsInit, Seats
<1>2. TypeOK
  <2>1. chan \in [Chids -> Channel]
    BY <1>1
  <2>2. ChannelsTypeOK
    BY <1>1, <2>1 DEF ChannelsTypeOK, Channel, NoCall
  <2> QED
    BY <1>1, <2>2 DEF Init, TypeOK
<1>3. EndsSet
  BY <1>1 DEF EndsSet, NoChannel, Ends
<1>4. ASSUME NEW s \in Seats
      PROVE  Joined(s) /\ Talk(s)
  <2>1. Line(s) = NoChannel /\ call[PhilPid(s)] = NoCall
    BY <1>1, Numbers DEF Line
  <2>2. Side(s) = 2 /\ Other(2) = 1
    BY <2>1, Numbers DEF Side, NoChannel, Ends, Other
  <2>3. ~OrderUp(s) /\ ~AnswerUp(s)
    BY <2>1, <2>2 DEF OrderUp, AnswerUp, NoChannel, Ends
  <2>4. at[s] = "unborn" /\ ~WaiterHere(s) /\ ~Born(s) /\ ~Here(s)
    BY DEF Init, WaiterHere, Born, Here, Seats
  <2>5. Joined(s)
    BY <2>1, <2>4 DEF Joined, NoChannel
  <2>6. Rest(s)
    BY <2>1, <2>3, <2>4 DEF Rest, CallAt, NoCall, Init, Reading, Deciding
  <2> QED
    BY <2>1, <2>5, <2>6 DEF Talk, Idle, NoCall
<1>5. WaiterCall
  BY <1>1, Numbers DEF WaiterCall, Idle, NoCall, Init
<1>6. List
  BY <1>1 DEF List, Init, Seats
<1> QED
  BY <1>2, <1>3, <1>4, <1>5, <1>6 DEF IInv

LEMMA Always == Spec => []IInv
<1>1. IInv /\ [Next]_dining => IInv'
  BY Step
<1> QED
  BY Start, <1>1, PTL DEF Spec

-----------------------------------------------------------------------------
\* Channels, waiter and philosophers keep their types, for any number of seats.
THEOREM DiningTyped == Spec => []TypeOK
<1>1. IInv => TypeOK
  BY DEF IInv
<1> QED
  BY <1>1, Always, PTL

\* Waiter and philosopher never both have a message waiting for them, the state in
\* which both would poll for ever (hilevel.c:420-423).
THEOREM OneMessage == Spec => []NotBothOn
<1>1. IInv => NotBothOn
  <2> SUFFICES ASSUME IInv, NEW c \in Chids
               PROVE  ~(chan[c].on[1] /\ chan[c].on[2])
    BY DEF NotBothOn
  <2>1. PICK s \in Seats : c = PhilPid(s)
    BY Numbers
  <2>2. ~OrderUp(s) \/ ~AnswerUp(s)
    BY DEF IInv, Talk, Rest, Ordered, Taken, Told
  <2>3. (Side(s) = 1 /\ Other(Side(s)) = 2) \/ (Side(s) = 2 /\ Other(Side(s)) = 1)
    BY DEF Side, Other
  <2> QED
    BY <2>1, <2>2, <2>3 DEF OrderUp, AnswerUp, Line
<1> QED
  BY <1>1, Always, PTL

\* Whenever the waiter waits for an order its list is right, for any number of seats
\* (W.c:18-40).
THEOREM ListIsRight == Spec => []ForksAgree
<1>1. IInv => ForksAgree
  <2> SUFFICES ASSUME IInv, w_at = "order", NEW s \in Seats
               PROVE  forks[Right(s)] = (~Holds(s) /\ ~Holds(Right(s)))
    BY DEF ForksAgree
  <2>1. Right(s) \in Seats /\ TypeOK
    BY Around DEF IInv
  <2>2. (Listed(s) <=> Holds(s)) /\ (Listed(Right(s)) <=> Holds(Right(s)))
    BY DEF Listed, Pending
  <2>3. forks[Right(s)] <=> ~Holds(s) /\ ~Holds(Right(s))
    BY <2>2 DEF IInv, List
  <2>4. forks[Right(s)] \in BOOLEAN
    BY <2>1 DEF TypeOK
  <2> QED
    BY <2>3, <2>4, Zenon
<1> QED
  BY <1>1, Always, PTL

\* No message is overwritten: the waiter answers where its last answer has been
\* taken, and a philosopher orders where its last order has (hilevel.c:363-370).
THEOREM NothingOverwritten == Spec => NoOverwrite
<1>1. ASSUME IInv, [Next]_dining, NEW p \in Procs, NEW e \in Ends,
             Idle(p), call'[p].at = "blocked", call'[p].end = e
      PROVE  ~chan[call'[p].c].on[Other(e)]
  <2>1. ~UNCHANGED call
    BY <1>1 DEF Idle
  <2>2. /\ TypeOK /\ call \in [Procs -> Call] /\ W \in Procs /\ i \in Seats
        /\ \A s \in Seats : PhilPid(s) \in Procs /\ Joined(s)
    BY Numbers, <1>1 DEF IInv, TypeOK, ChannelsTypeOK, Call
  <2>3. ASSUME NEW q \in Procs, Library(q) \/ \E c : Receive(q, c)
        PROVE  FALSE
    <3>1. CASE ReceiveWaiting(q)
      <4>1. /\ call'[q].at = "take"
            /\ \A r \in Procs : r # q => call'[r] = call[r]
        BY <2>2, <3>1 DEF ReceiveWaiting, Goto
      <4> QED
        BY <1>1, <4>1 DEF Idle
    <3>2. CASE SendBlocked(q) \/ ReceiveTake(q)
      <4>1. /\ call'[q].at = "none"
            /\ \A r \in Procs : r # q => call'[r] = call[r]
        BY <2>2, <3>2 DEF SendBlocked, ReceiveTake, Return, NoCall
      <4> QED
        BY <1>1, <4>1 DEF Idle
    <3>3. ASSUME NEW c, Receive(q, c)
          PROVE  FALSE
      <4>1. /\ call'[q].at # "blocked"
            /\ \A r \in Procs : r # q => call'[r] = call[r]
        BY <2>2, <3>3 DEF Receive, Goto
      <4> QED
        BY <1>1, <4>1 DEF Idle
    <3> QED
      BY <2>3, <3>1, <3>2, <3>3 DEF Library
  <2>4. CASE ServeOrder
    <3>1. PICK m \in Messages : Send(W, PhilPid(i), m)
      BY <2>4, Numbers DEF ServeOrder
    <3>2. which_end(W, PhilPid(i)) = Other(Side(i)) /\ Other(Side(i)) \in Ends
      BY <2>2, <2>4, Sides, TheLine DEF ServeOrder, WaiterHere
    <3>3. /\ call'[W] = [at |-> "blocked", c |-> PhilPid(i), end |-> Other(Side(i))]
          /\ \A q \in Procs : q # W => call'[q] = call[q]
      BY <2>2, <3>1, <3>2, SendLine
    <3>4. p = W
      BY <1>1, <3>3 DEF Idle
    <3>5. ~AnswerUp(i)
      <4>1. Deciding(i)
        BY <1>1, <2>4, <3>4 DEF ServeOrder, Deciding
      <4> QED
        BY <1>1, <2>2, <4>1, TalkWithWaiter DEF IInv, Taken
    <3> QED
      BY <1>1, <2>2, <3>3, <3>4, <3>5, TheLine DEF AnswerUp, Line
  <2>5. ASSUME NEW s \in Seats, PhilOrder(s)
        PROVE  ~chan[call'[p].c].on[Other(e)]
    <3>1. PICK m \in Messages : Send(PhilPid(s), PhilPid(s), m)
      BY <2>5, Numbers DEF PhilOrder
    <3>2. which_end(PhilPid(s), PhilPid(s)) = Side(s) /\ Side(s) \in Ends
      BY <2>2, <2>5, Sides, TheLine DEF PhilOrder, Here
    <3>3. /\ call'[PhilPid(s)] = [at |-> "blocked", c |-> PhilPid(s), end |-> Side(s)]
          /\ \A q \in Procs : q # PhilPid(s) => call'[q] = call[q]
      <4>1. PhilPid(s) \in Procs /\ TypeOK
        BY <2>2
      <4> QED
        BY <3>1, <3>2, <4>1, SendLine
    <3>4. p = PhilPid(s)
      BY <1>1, <3>3 DEF Idle
    <3>5. ~OrderUp(s)
      BY <1>1, <2>5, <3>4 DEF PhilOrder, IInv, Talk, Rest, Ordered, Taken, Told, Idle, CallAt
    <3> QED
      BY <1>1, <3>3, <3>4, <3>5 DEF OrderUp, Line
  <2> QED
    BY <1>1, <2>1, <2>2, <2>3, <2>4, <2>5
       DEF Next, Waiter, Phil, InitFork, InitConnect, ServeNext, PhilConnect, PhilReceive,
           chanend, ipc, dining
<1>2. IInv /\ [Next]_dining =>
        [\A p \in Procs, e \in Ends :
           /\ Idle(p)
           /\ call'[p].at = "blocked"
           /\ call'[p].end = e
           => ~chan[call'[p].c].on[Other(e)]]_ipc
  BY <1>1
<1> QED
  BY <1>2, Always, PTL DEF Spec, NoOverwrite

\* Mutual exclusion, for any number of philosophers: one gets its forks only while
\* neither neighbour has them (W.c:66-73, PH.c:38-44).
THEOREM NeighboursEatApart == Spec => EatApart
<1>1. Init => Table!Init
  <2> SUFFICES ASSUME Init, NEW s \in Seats PROVE ~Holds(s)
    BY DEF Table!Init
  <2>1. eating[s] = FALSE /\ Answered(s) = FALSE
    BY DEF Init, Answered
  <2> QED
    BY <2>1 DEF Holds
<1>2. IInv /\ [Next]_dining => [Table!Next]_{s \in Seats : Holds(s)}
  <2> SUFFICES ASSUME IInv, [Next]_dining,
                      ~UNCHANGED {s \in Seats : Holds(s)}
               PROVE  Table!Next
    OBVIOUS
  <2>1. PICK s \in Seats :
          /\ Told(s) /\ toggle /\ (Holds(s)' <=> ~Holds(s))
          /\ \A t \in Seats : t # s => Holds(t)' = Holds(t)
    BY Step
  <2>2. s \in 0 .. NUM_PHILS - 1 /\ TypeOK
    BY DEF Seats, IInv
  <2>3. CASE Holds(s)
    <3>1. Table!Stop(s)
      BY <2>1, <2>3 DEF Table!Stop
    <3> QED
      BY <2>2, <3>1 DEF Table!Next
  <2>4. CASE ~Holds(s)
    <3>1. /\ w_at = "next" /\ i = s
          /\ \A t \in Seats : ~Pending(t) /\ (Listed(t) <=> Holds(t))
      BY <2>1 DEF Told, Answering, Pending, Listed
    <3>2. can_eat(s)
      BY <2>1, <2>4, <3>1 DEF IInv, List
    <3>3. /\ ~Holds(Right(s))
          /\ \A r \in Seats : Right(r) = s => ~Holds(r)
      BY <3>1, <3>2, FreeForks, Around
    <3>4. \A t \in Seats : Table!After(t) = Right(t)
      BY DEF Table!After, Right
    <3>5. \A t \in Table!Neighbours(s) : t \in Seats /\ ~Holds(t)
      BY <3>3, <3>4 DEF Table!Neighbours, Seats
    <3>6. Table!Start(s)
      BY <2>1, <2>4, <3>5 DEF Table!Start
    <3> QED
      BY <2>2, <3>6 DEF Table!Next
  <2> QED
    BY <2>3, <2>4
<1> QED
  BY <1>1, <1>2, Always, PTL DEF Spec, EatApart, Table!Spec
=============================================================================

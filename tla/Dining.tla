------------------------------- MODULE Dining -------------------------------
(***************************************************************************)
(* The dining philosophers of user/W.c and user/PH.c.  The waiter forks a  *)
(* philosopher per seat and shares a channel with each, whose id is the    *)
(* philosopher's pid.  It takes one order from each in turn and grants it  *)
(* if its list of forks allows.                                            *)
(*                                                                         *)
(* Philosopher i gets pid W + 1 + i.  Its locals fork_left, fork_right and *)
(* eating are always set together: one flag, eating[i].                    *)
(*                                                                         *)
(* No channel has been used before, as after boot, so that chanend cannot  *)
(* refuse: what the two programs do when it does is left out.              *)
(***************************************************************************)
EXTENDS Channels

CONSTANTS NUM_PHILS,
          W             \* pid of the waiter

FORK_WANT == 1
FORK_RET == 2
ORDER_ACCEPT == 10
ORDER_REJECT == 11

Seats == 0 .. NUM_PHILS - 1
PhilPid(i) == W + 1 + i

ASSUME DiningAssumption ==
  /\ NUM_PHILS \in Nat /\ NUM_PHILS >= 2
  /\ W \in Nat \ {0}
  /\ Procs = {W} \cup {PhilPid(i) : i \in Seats}
  /\ Chids = {PhilPid(i) : i \in Seats}
  /\ Messages = {FORK_WANT, FORK_RET, ORDER_ACCEPT, ORDER_REJECT}

VARIABLES
  w_at,    \* where the waiter is
  i,       \* its loop counter
  forks,   \* forks[s]: fork s is on the table
  toggle,  \* whether the order being answered moves forks
  at,      \* where each philosopher is
  eating   \* whether it holds its forks

waiter == <<w_at, i, forks, toggle>>
phils == <<at, eating>>
dining == <<ipc, waiter, phils>>

Init ==
  /\ ChannelsInit
  /\ w_at = "fork"
  /\ i = 0
  /\ forks = [s \in Seats |-> FALSE]
  /\ toggle = FALSE
  /\ at = [s \in Seats |-> "unborn"]
  /\ eating = [s \in Seats |-> FALSE]

-----------------------------------------------------------------------------
(***************************************************************************)
(* The waiter.                                                             *)
(***************************************************************************)
Right(s) == IF s = NUM_PHILS - 1 THEN 0 ELSE s + 1

can_eat_slip(s) == forks[s]
can_eat(s) == forks[s] /\ forks[Right(s)]

toggle_forks_slip(s) == [forks EXCEPT ![s] = ~forks[s]]
toggle_forks(s) == [forks EXCEPT ![s] = ~forks[s], ![Right(s)] = ~forks[Right(s)]]

\* The child goes on to exec and is from then on a philosopher.
InitFork ==
  /\ w_at = "fork"
  /\ w_at' = "connect"
  /\ at' = [at EXCEPT ![i] = "start"]
  /\ UNCHANGED <<ipc, i, forks, toggle, eating>>

NextSeat_slip == i + 1
NextSeat == IF i = NUM_PHILS - 1 THEN 0 ELSE i + 1

InitConnect ==
  /\ w_at = "connect"
  /\ chanend(W, PhilPid(i))
  /\ forks' = [forks EXCEPT ![i] = TRUE]
  /\ \/ NextSeat # 0 /\ w_at' = "fork" /\ i' = NextSeat
     \/ NextSeat = 0 /\ w_at' = "next" /\ UNCHANGED i
  /\ UNCHANGED <<toggle, phils>>

\* Move the forks of the order just answered, and turn to the next seat.
ServeNext ==
  /\ w_at = "next"
  /\ w_at' = "order"
  /\ \/ toggle /\ forks' = toggle_forks(i)
     \/ ~toggle /\ UNCHANGED forks
  /\ i' = NextSeat
  /\ Receive(W, PhilPid(NextSeat))
  /\ UNCHANGED <<toggle, phils>>

Granted_slip == reply[W] = FORK_WANT /\ can_eat(i)
Granted ==
  \/ reply[W] = FORK_WANT /\ can_eat(i)
  \/ reply[W] = FORK_RET /\ ~can_eat(i)

ServeOrder ==
  /\ w_at = "order"
  /\ toggle' = Granted
  /\ Send(W, PhilPid(i), IF Granted THEN ORDER_ACCEPT ELSE ORDER_REJECT)
  /\ w_at' = "next"
  /\ UNCHANGED <<i, forks, phils>>

Waiter ==
  \/ InitFork \/ InitConnect \/ ServeNext \/ ServeOrder
  \/ Library(W) /\ UNCHANGED <<waiter, phils>>

-----------------------------------------------------------------------------
(***************************************************************************)
(* Philosopher s.                                                          *)
(***************************************************************************)
PhilConnect(s) ==
  /\ at[s] = "start"
  /\ chanend(PhilPid(s), PhilPid(s))
  /\ at' = [at EXCEPT ![s] = "connected"]
  /\ UNCHANGED <<waiter, eating>>

\* Philosopher s has the forks from the moment it receives ORDER_ACCEPT for a
\* FORK_WANT to the moment it receives it for a FORK_RET.  Its local flags follow
\* when it looks at the answer, and a neighbour may be eating by then.
Answered(s) ==
  at[s] = "waiting" /\ Idle(PhilPid(s)) /\ reply[PhilPid(s)] = ORDER_ACCEPT
Holds(s) == eating[s] # Answered(s)

\* ask_forks and give_forks: note the answer to the last order, send the next.
PhilOrder(s) ==
  /\ at[s] \in {"connected", "waiting"}
  /\ eating' = [eating EXCEPT ![s] = Holds(s)]
  /\ Send(PhilPid(s), PhilPid(s), IF Holds(s) THEN FORK_RET ELSE FORK_WANT)
  /\ at' = [at EXCEPT ![s] = "ordered"]
  /\ UNCHANGED waiter

PhilReceive(s) ==
  /\ at[s] = "ordered"
  /\ Receive(PhilPid(s), PhilPid(s))
  /\ at' = [at EXCEPT ![s] = "waiting"]
  /\ UNCHANGED <<waiter, eating>>

Phil(s) ==
  \/ PhilConnect(s) \/ PhilOrder(s) \/ PhilReceive(s)
  \/ Library(PhilPid(s)) /\ UNCHANGED <<waiter, phils>>

Next == Waiter \/ \E s \in Seats : Phil(s)

\* The kernel gives every live process the processor (Served of
\* KernelProperties), and a process that polls sees what stays true.
Spec ==
  /\ Init /\ [][Next]_dining
  /\ WF_dining(Waiter)
  /\ \A s \in Seats : WF_dining(Phil(s))

-----------------------------------------------------------------------------
\* Type invariant; the waiter's counter stays a seat (W.c:44, 62).
TypeOK ==
  /\ ChannelsTypeOK
  /\ w_at \in {"fork", "connect", "next", "order"}
  /\ i \in Seats
  /\ forks \in [Seats -> BOOLEAN]
  /\ toggle \in BOOLEAN
  /\ at \in [Seats -> {"unborn", "start", "connected", "ordered", "waiting"}]
  /\ eating \in [Seats -> BOOLEAN]

\* Mutual exclusion, as a refinement: a philosopher gets its forks only while
\* neither neighbour has them, though the waiter moves forks on its list only
\* after its answer has been received (W.c:66-73, PH.c:38-44).  The property is
\* false of the flags eating alone.
Table == INSTANCE DiningTable WITH
  Seats <- NUM_PHILS, eating <- {s \in Seats : Holds(s)}
EatApart == Table!Spec

\* Whenever the waiter waits for an order its list is right: a fork is there
\* exactly when neither of its two users has it (W.c:18-28, 32-40).
ForksAgree ==
  w_at = "order" /\ call[W].at = "waiting" =>
    \A s \in Seats : forks[Right(s)] = (~Holds(s) /\ ~Holds(Right(s)))

\* No starvation: every philosopher gets the forks again and again (and so gives
\* them back: a neighbour could not have them otherwise).  Seats are served in a
\* fixed order and orders refused (W.c:62, 78).
NoStarvation == \A s \in Seats : []<>Holds(s)
=============================================================================

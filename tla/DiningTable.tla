---------------------------- MODULE DiningTable -----------------------------
(***************************************************************************)
(* The dining philosophers: a philosopher may eat only while neither       *)
(* neighbour does.                                                         *)
(***************************************************************************)
EXTENDS Integers

CONSTANT Seats   \* number of philosophers around the table

VARIABLE eating  \* who eats

Init == eating = {}

After(i) == IF i = Seats - 1 THEN 0 ELSE i + 1
Neighbours(i) == {j \in 0 .. Seats - 1 : j = After(i) \/ i = After(j)}

Start(i) ==
  /\ i \notin eating
  /\ Neighbours(i) \cap eating = {}
  /\ eating' = eating \cup {i}

Stop(i) == i \in eating /\ eating' = eating \ {i}

Next == \E i \in 0 .. Seats - 1 : Start(i) \/ Stop(i)

Spec == Init /\ [][Next]_eating
=============================================================================

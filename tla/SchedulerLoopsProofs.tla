------------------------- MODULE SchedulerLoopsProofs -------------------------
(***************************************************************************)
(* The loops of hilevel.c find what Kernel says they find, in a table of   *)
(* any size and for any ages and priorities: their loop invariants.        *)
(***************************************************************************)
EXTENDS SchedulerLoops, KernelProofs

\* The live PCBs the loop has passed.
Seen == {p \in Live : p < i}

\* find_next_proc: found goes before all the others seen, and pri, which a
\* TERMINATED PCB leaves as it was, is never above its priority.
BestSoFar ==
  /\ pri \in Int
  /\ highest_pri \in Int
  /\ pri <= highest_pri
  /\ Seen = {} => highest_pri = -1 /\ found = 0
  /\ Seen # {} => /\ found \in Seen
                  /\ highest_pri = get_priority(found)
                  /\ \A q \in Seen : Before(found, q)
  /\ returned => i > tail_pid

\* The PCBs that the other two look for.
Candidates ==
  IF search = "find_empty_pcb" THEN Empty ELSE {p \in Live : p > executing}
Nothing == IF search = "find_empty_pcb" THEN -1 ELSE 0

\* They return the first candidate, and pass none on their way to it.
FirstSoFar ==
  /\ \A p \in Candidates : p >= i
  /\ search = "next_alive_prog" => i > executing
  /\ \/ found = Nothing /\ (returned => i > tail_pid)
     \/ returned /\ found = i /\ i \in Candidates

LoopInv ==
  /\ TypeOK
  /\ search \in Searches
  /\ i \in Nat
  /\ search = "find_next_proc" => BestSoFar
  /\ search # "find_next_proc" => FirstSoFar

-----------------------------------------------------------------------------
LEMMA LoopStart == LoopInit => LoopInv
<1> SUFFICES ASSUME LoopInit PROVE LoopInv
  OBVIOUS
<1>1. TypeOK
  <2>1. tail_pid \in 0 .. NUM_PCBS /\ executing \in InUse /\ progs_running \in Nat \ {0}
    BY KernelAssumption DEF LoopInit, SomeTable, Pids
  <2>2. age \in [Pids -> 0 .. AGE_MOD - 1] /\ base_priority \in [Pids -> 0 .. MaxBase]
    BY LoopsAssumption DEF LoopInit, SomeTable
  <2>3. ZeroContext \in Contexts
    BY DEF ZeroContext, Contexts
  <2>4. /\ pid \in [Pids -> Pids] /\ stack_top \in [Pids -> Tops]
        /\ saved \in [Pids -> Contexts] /\ ctx \in Contexts
        /\ mem \in [Tops -> Contents]
    BY <2>3, KernelAssumption DEF LoopInit, SomeTable, Tops
  <2> QED
    BY <2>1, <2>2, <2>4 DEF LoopInit, SomeTable, TypeOK
<1>2. i \in Nat /\ search \in Searches /\ ~returned
  BY <1>1 DEF LoopInit, Searches, TypeOK, InUse, Pids
<1>3. CASE search = "find_next_proc"
  <2>1. Seen = {}
    BY <1>3 DEF LoopInit, Searches, Seen, Live, LiveIn, InUse, Pids
  <2>2. BestSoFar
    BY <1>2, <1>3, <2>1 DEF LoopInit, BestSoFar
  <2> QED
    BY <1>1, <1>2, <1>3, <2>2 DEF LoopInv
<1>4. CASE search # "find_next_proc"
  <2>1. \A p \in Candidates : p >= i
    BY <1>1, <1>2, <1>4
       DEF LoopInit, Searches, Candidates, Empty, Live, LiveIn, InUse, Pids, TypeOK
  <2>2. search = "next_alive_prog" => i > executing
    BY <1>1 DEF LoopInit, InUse, Pids, TypeOK
  <2>3. found = Nothing
    BY <1>4 DEF LoopInit, Nothing
  <2>4. FirstSoFar
    BY <1>2, <2>1, <2>2, <2>3 DEF FirstSoFar
  <2> QED
    BY <1>1, <1>2, <1>4, <2>4 DEF LoopInv
<1> QED
  BY <1>3, <1>4

\* One more PCB is seen if it is alive, and none otherwise.
LEMMA OneMoreSeen ==
  ASSUME TypeOK, i \in Nat, i <= tail_pid, tail_pid \in Pids, i' = i + 1, UNCHANGED vars
  PROVE  /\ i \in Pids
         /\ Seen' = IF status[i] \in Alive THEN Seen \cup {i} ELSE Seen
<1>1. Live' = Live
  BY DEF vars, Live, LiveIn, InUse
<1>2. i \in Pids /\ \A p \in Live : p \in Nat
  BY KernelAssumption DEF Live, LiveIn, InUse, Pids
<1>3. i \in Live <=> status[i] \in Alive
  BY <1>2 DEF Live, LiveIn, InUse
<1> QED
  BY <1>1, <1>2, <1>3 DEF Seen

LEMMA FindNextProcKeeps ==
  ASSUME LoopInv, tail_pid \in Pids, FindNextProc, ~returned, UNCHANGED vars
  PROVE  BestSoFar'
<1>1. /\ search = "find_next_proc" /\ i \in Nat /\ i <= tail_pid /\ i' = i + 1
      /\ pri' = NextPri /\ returned' = FALSE
      /\ TypeOK /\ BestSoFar
  BY DEF FindNextProc, LoopInv
<1>2. /\ i \in Pids
      /\ Seen' = IF status[i] \in Alive THEN Seen \cup {i} ELSE Seen
  BY <1>1, OneMoreSeen
<1>3. /\ \A p \in Pids : get_priority(p) \in Nat /\ get_priority(p)' = get_priority(p)
      /\ \A p, q : Before(p, q)' = Before(p, q)
  BY <1>1, PriorityIsNat DEF vars, get_priority, Before
<1>4. Seen \subseteq Pids /\ \A p \in Seen : p < i /\ p \in Nat
  BY KernelAssumption DEF Seen, Live, LiveIn, InUse, Pids
<1>5. CASE status[i] \notin Alive
  <2>1. pri' = pri /\ Seen' = Seen
    BY <1>1, <1>2, <1>5 DEF NextPri
  <2>2. highest_pri' = highest_pri /\ found' = found
    BY <1>1, <2>1 DEF FindNextProc, Improves, BestSoFar
  <2> QED
    BY <1>1, <1>3, <1>4, <2>1, <2>2 DEF BestSoFar
<1>6. CASE status[i] \in Alive
  <2>1. pri' = get_priority(i) /\ Seen' = Seen \cup {i} /\ pri' \in Nat
    BY <1>1, <1>2, <1>3, <1>6 DEF NextPri
  <2>2. CASE Improves(NextPri)
    <3>1. highest_pri' = get_priority(i) /\ found' = i /\ get_priority(i) > highest_pri
      BY <1>1, <2>1, <2>2 DEF FindNextProc, Improves
    <3>2. \A q \in Seen : Before(i, q)
      <4> TAKE q \in Seen
      <4>1. Before(found, q) /\ found \in Seen /\ highest_pri = get_priority(found)
        BY <1>1 DEF BestSoFar
      <4> QED
        BY <1>2, <1>3, <1>4, <3>1, <4>1 DEF Before
    <3>3. Before(i, i)
      BY <1>1, <1>2, <1>3 DEF Before
    <3> QED
      BY <1>1, <1>2, <1>3, <2>1, <3>1, <3>2, <3>3 DEF BestSoFar
  <2>3. CASE ~Improves(NextPri)
    <3>1. highest_pri' = highest_pri /\ found' = found /\ get_priority(i) <= highest_pri
      BY <1>1, <1>2, <1>3, <2>1, <2>3 DEF FindNextProc, Improves, BestSoFar
    <3>2. found \in Seen /\ highest_pri = get_priority(found)
      BY <1>1, <1>2, <1>3, <3>1 DEF BestSoFar
    <3>3. Before(found, i)
      BY <1>1, <1>2, <1>3, <1>4, <3>1, <3>2 DEF Before
    <3>4. found' \in Seen' /\ \A q \in Seen' : Before(found', q)
      BY <1>1, <2>1, <3>1, <3>2, <3>3 DEF BestSoFar
    <3>5. highest_pri' = get_priority(found) /\ found \in Pids /\ pri' <= highest_pri'
      BY <1>4, <2>1, <3>1, <3>2
    <3>6. highest_pri' \in Int
      BY <1>3, <3>5
    <3> QED
      BY <1>1, <1>3, <2>1, <3>1, <3>4, <3>5, <3>6 DEF BestSoFar
  <2> QED
    BY <2>2, <2>3
<1> QED
  BY <1>5, <1>6

LEMMA FirstMatchKeeps ==
  ASSUME LoopInv, tail_pid \in Pids, FirstMatch, ~returned, UNCHANGED vars
  PROVE  FirstSoFar'
<1>1. /\ search # "find_next_proc" /\ search \in Searches /\ search' = search
      /\ i \in Nat /\ i <= tail_pid /\ TypeOK /\ FirstSoFar
      /\ i \in Pids
  BY KernelAssumption DEF FirstMatch, LoopInv, Pids
<1>2. Candidates' = Candidates /\ Nothing' = Nothing
  BY <1>1 DEF Candidates, Nothing, Empty, Live, LiveIn, InUse, vars
<1>3. \A p \in Candidates : p \in Nat
  BY DEF Candidates, Empty, Live, LiveIn, InUse, Pids
<1>4. i \in Candidates <=> Wanted(i)
  BY <1>1 DEF Candidates, Wanted, Empty, Live, LiveIn, InUse, FirstSoFar, Searches
<1>5. CASE Wanted(i) /\ found' = i /\ returned' = TRUE /\ UNCHANGED i
  BY <1>1, <1>2, <1>4, <1>5 DEF FirstSoFar, vars
<1>6. CASE ~Wanted(i) /\ i' = i + 1 /\ UNCHANGED <<found, returned>>
  <2>1. \A p \in Candidates : p >= i'
    BY <1>1, <1>3, <1>4, <1>6 DEF FirstSoFar
  <2>2. search = "next_alive_prog" => i' > executing'
    BY <1>1, <1>6 DEF FirstSoFar, vars, TypeOK, InUse, Pids
  <2>3. found' = Nothing
    BY <1>1, <1>6 DEF FirstSoFar
  <2> QED
    BY <1>1, <1>2, <1>6, <2>1, <2>2, <2>3 DEF FirstSoFar
<1> QED
  BY <1>5, <1>6 DEF FirstMatch

LEMMA LoopKeeps == LoopInv /\ tail_pid \in Pids /\ [LoopNext]_loopVars => LoopInv'
<1> SUFFICES ASSUME LoopInv, tail_pid \in Pids, [LoopNext]_loopVars PROVE LoopInv'
  OBVIOUS
<1>1. UNCHANGED vars
  BY DEF LoopNext, loopVars
<1>2. TypeOK'
  BY <1>1 DEF LoopInv, TypeOK, InUse, vars
<1>3. CASE UNCHANGED loopVars
  BY <1>2, <1>3
     DEF LoopInv, BestSoFar, FirstSoFar, loopVars, loop, vars, Seen, Candidates, Nothing,
         Empty, Live, LiveIn, InUse, get_priority, Before
<1>4. CASE LoopNext /\ FindNextProc
  <2>1. BestSoFar'
    BY <1>1, <1>4, FindNextProcKeeps DEF LoopNext
  <2> QED
    BY <1>2, <1>4, <2>1 DEF LoopInv, FindNextProc, LoopNext
<1>5. CASE LoopNext /\ FirstMatch
  <2>1. FirstSoFar'
    BY <1>1, <1>5, FirstMatchKeeps DEF LoopNext
  <2>2. i' \in Nat
    BY <1>5 DEF LoopInv, FirstMatch
  <2> QED
    BY <1>2, <1>5, <2>1, <2>2 DEF LoopInv, FirstMatch
<1>6. CASE LoopNext /\ LoopEnd
  <2>1. Seen' = Seen /\ Candidates' = Candidates /\ Nothing' = Nothing
    BY <1>1, <1>6 DEF LoopEnd, Seen, Candidates, Nothing, Empty, Live, LiveIn, InUse, vars
  <2>2. BestSoFar => BestSoFar'
    BY <1>1, <1>6, <2>1 DEF LoopEnd, BestSoFar, get_priority, Before, vars
  <2>3. FirstSoFar => FirstSoFar'
    BY <1>1, <1>6, <2>1 DEF LoopNext, LoopEnd, FirstSoFar, vars
  <2> QED
    BY <1>2, <1>6, <2>2, <2>3 DEF LoopInv, LoopEnd
<1> QED
  BY <1>3, <1>4, <1>5, <1>6 DEF LoopNext

LEMMA LoopsAnswer == LoopInv /\ tail_pid \in Pids => LoopsAgree
<1> SUFFICES ASSUME LoopInv, tail_pid \in Pids, returned PROVE found = Expected
  BY DEF LoopsAgree
<1>1. TypeOK /\ search \in Searches /\ i \in Nat
  BY DEF LoopInv
<1>2. \A p \in Live \cup Empty : p \in Nat /\ p <= tail_pid
  BY DEF Live, LiveIn, Empty, InUse, Pids
<1>3. CASE search = "find_next_proc"
  <2>1. Seen = Live /\ BestSoFar
    BY <1>1, <1>2, <1>3 DEF LoopInv, BestSoFar, Seen, Pids
  <2>2. CASE Live = {}
    BY <1>3, <2>1, <2>2 DEF Expected, find_next_proc, BestSoFar
  <2>3. CASE Live # {}
    <3>1. found \in Live /\ \A q \in Live : Before(found, q)
      BY <2>1, <2>3 DEF BestSoFar
    <3>2. Live \in SUBSET Pids
      BY DEF Live, LiveIn, InUse
    <3>3. /\ find_next_proc(Live) \in Live
          /\ \A q \in Live : Before(find_next_proc(Live), q)
      BY <1>1, <2>3, <3>2, Picked
    <3>4. Before(found, find_next_proc(Live)) /\ Before(find_next_proc(Live), found)
      BY <3>1, <3>3
    <3>5. get_priority(found) \in Nat /\ get_priority(find_next_proc(Live)) \in Nat
      BY <1>1, <3>1, <3>2, <3>3, PriorityIsNat
    <3>6. found = find_next_proc(Live)
      BY <1>2, <3>1, <3>3, <3>4, <3>5 DEF Before
    <3> QED
      BY <1>3, <3>6 DEF Expected
  <2> QED
    BY <2>2, <2>3
<1>4. CASE search # "find_next_proc"
  <2>1. FirstSoFar /\ \A p \in Candidates : p \in Nat /\ p <= tail_pid
    BY <1>2, <1>4 DEF LoopInv, Candidates
  <2>2. CASE found = i /\ i \in Candidates
    <3>1. \A p \in Candidates : (\A q \in Candidates : p <= q) => p = i
      BY <1>1, <2>1, <2>2 DEF FirstSoFar
    <3>2. i = CHOOSE p \in Candidates : \A q \in Candidates : p <= q
      BY <1>1, <2>1, <2>2, <3>1 DEF FirstSoFar
    <3> QED
      BY <1>1, <1>4, <2>2, <3>2
         DEF Expected, Candidates, Searches, next_alive_prog, find_empty_pcb
  <2>3. CASE found = Nothing /\ i > tail_pid
    <3>1. Candidates = {}
      BY <1>1, <2>1, <2>3 DEF FirstSoFar, Pids
    <3> QED
      BY <1>1, <1>4, <2>3, <3>1
         DEF Expected, Candidates, Nothing, Searches, next_alive_prog
  <2> QED
    BY <2>1, <2>2, <2>3 DEF FirstSoFar
<1> QED
  BY <1>3, <1>4

\* The searches of the table return what Kernel takes them to return, for every
\* table: ties go to the lowest pid, a TERMINATED PCB never inherits the priority of
\* the one before it, and nothing found is 0, 0 and -1 (hilevel.c:57-96, 188-197).
THEOREM SearchesFind == LoopSpec => []LoopsAgree
<1>1. LoopInit => tail_pid \in Pids
  BY DEF LoopInit, SomeTable
<1>2. tail_pid \in Pids /\ [LoopNext]_loopVars => (tail_pid \in Pids)'
  BY DEF LoopNext, loopVars, vars, Pids
<1> QED
  BY <1>1, <1>2, LoopStart, LoopKeeps, LoopsAnswer, PTL DEF LoopSpec
=============================================================================

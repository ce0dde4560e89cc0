---------------------------- MODULE KernelProofs ----------------------------
(***************************************************************************)
(* The invariants of the kernel, for every size of the process table and   *)
(* every set of programs.                                                  *)
(***************************************************************************)
EXTENDS KernelProperties, FiniteSetTheorems, WellFoundedInduction, TLAPS

Statuses == {"READY", "EXECUTING", "TERMINATED"}

-----------------------------------------------------------------------------
(***************************************************************************)
(* What the searches of the table return.                                  *)
(***************************************************************************)

\* A nonempty set of natural numbers has a least element.
LEMMA Least ==
  ASSUME NEW S \in SUBSET Nat, S # {}
  PROVE  \E m \in S : \A n \in S : m <= n
<1>1. \E m \in S : \A n \in S : ~ (<<n, m>> \in OpToRel(<, Nat))
  BY WFMin, NatLessThanWellFounded
<1>2. ASSUME NEW m \in S, NEW n \in S, ~ (<<n, m>> \in OpToRel(<, Nat))
      PROVE  m <= n
  BY <1>2 DEF OpToRel
<1> QED
  BY <1>1, <1>2

\* The priorities find_next_proc compares are natural numbers.
LEMMA PriorityIsNat ==
  ASSUME TypeOK, NEW p \in Pids
  PROVE  get_priority(p) \in Nat
BY KernelAssumption DEF TypeOK, get_priority

\* find_next_proc returns the live PCB that goes before all others, and PCB 0
\* if no PCB is alive.
LEMMA Picked ==
  ASSUME TypeOK, NEW alive \in SUBSET Pids
  PROVE  /\ find_next_proc(alive) \in Pids
         /\ alive # {} => /\ find_next_proc(alive) \in alive
                          /\ \A q \in alive : Before(find_next_proc(alive), q)
<1>1. CASE alive = {}
  BY <1>1, KernelAssumption DEF find_next_proc, Pids
<1>2. CASE alive # {}
  <2> DEFINE top == AGE_MOD + MaxBase
             Gap(p) == top - get_priority(p)
             Gaps == {Gap(p) : p \in alive}
  <2>1. \A p \in alive : Gap(p) \in Nat
    BY KernelAssumption DEF TypeOK, get_priority
  <2>2. PICK g \in Gaps : \A h \in Gaps : g <= h
    <3>1. Gaps \in SUBSET Nat /\ Gaps # {}
      BY <1>2, <2>1
    <3> QED BY <3>1, Least
  <2> DEFINE best == {p \in alive : Gap(p) = g}
  <2>3. PICK b \in best : \A q \in best : b <= q
    <3>1. PICK p \in alive : Gap(p) = g
      BY <2>2
    <3>2. best \in SUBSET Nat
      <4>1. best \subseteq alive OBVIOUS
      <4>2. \A q \in Pids : q \in Nat BY DEF Pids
      <4> HIDE DEF best
      <4> QED BY <4>1, <4>2
    <3>3. p \in best
      BY <3>1
    <3> HIDE DEF best
    <3> QED BY <3>2, <3>3, Least
  <2>4. ASSUME NEW q \in alive PROVE Before(b, q)
    <3>1. get_priority(b) \in Nat /\ get_priority(q) \in Nat /\ top \in Nat
      BY PriorityIsNat, KernelAssumption
    <3>2. Gap(b) <= Gap(q)
      <4>1. Gap(b) = g /\ Gap(q) \in Gaps
        BY <2>3
      <4>2. g <= Gap(q)
        BY <4>1, <2>2
      <4> QED BY <4>1, <4>2
    <3>3. Gap(b) = Gap(q) => b <= q
      BY <2>3
    <3> QED
      BY <3>1, <3>2, <3>3 DEF Before
  <2>5. find_next_proc(alive) \in alive /\ \A q \in alive : Before(find_next_proc(alive), q)
    BY <1>2, <2>3, <2>4 DEF find_next_proc
  <2> QED BY <2>5
<1> QED BY <1>1, <1>2

\* The PCB the scheduler switches to is one in use.
LEMMA ChoiceInUse ==
  ASSUME TypeOK, NEW alive \in SUBSET InUse
  PROVE  Choice(alive) \in InUse /\ Choice(alive) \in Pids
<1>1. 0 \in InUse
  BY KernelAssumption DEF TypeOK, InUse, Pids
<1>2. find_next_proc(alive) \in InUse
  <2>1. CASE alive = {}
    BY <1>1, <2>1 DEF find_next_proc
  <2>2. CASE alive # {}
    BY <2>2, Picked DEF InUse
  <2> QED BY <2>1, <2>2
<1> QED BY <1>1, <1>2 DEF Choice, InUse

\* fork gets a TERMINATED PCB in use when there is one.
LEMMA EmptyPicked ==
  ASSUME TypeOK, Empty # {}
  PROVE  find_empty_pcb \in Empty
<1>1. Empty \in SUBSET Nat
  BY DEF Empty, InUse, Pids
<1>2. \E m \in Empty : \A n \in Empty : m <= n
  BY <1>1, Least
<1> QED BY <1>2 DEF find_empty_pcb
-----------------------------------------------------------------------------
(***************************************************************************)
(* Type correctness.                                                       *)
(***************************************************************************)

LEMMA TypeInit == Init => TypeOK
BY KernelAssumption
   DEF Init, TypeOK, InUse, Pids, Tops, Contexts, BootContext, ZeroContext

\* Stack tops are addresses.
LEMMA TopsAreInts ==
  /\ \A p \in Pids : StackTop(p) \in Int
  /\ \A t \in Tops : t \in Int
BY KernelAssumption DEF Tops, StackTop, TOS_PROCS, Pids

\* A register file with a new integer in r0 is a register file.
LEMMA ResultType ==
  ASSUME TypeOK, NEW r \in Int
  PROVE  Result(r) \in Contexts
BY DEF TypeOK, Result, Contexts

\* So is one with a new sp and 0 in r0.
LEMMA Relocated ==
  ASSUME NEW c \in Contexts, NEW t \in Int
  PROVE  [c EXCEPT !.sp = t, !.r0 = 0] \in Contexts
<1>1. [c EXCEPT !.sp = t] \in Contexts
  BY DEF Contexts
<1>2. ASSUME NEW d \in Contexts PROVE [d EXCEPT !.r0 = 0] \in Contexts
  BY DEF Contexts
<1> QED BY <1>1, <1>2

\* Ages stay below 2^32, wrapping around.
LEMMA OlderType ==
  ASSUME NEW a \in 0 .. AGE_MOD - 1
  PROVE  Older(a) \in 0 .. AGE_MOD - 1
BY KernelAssumption DEF Older

LEMMA AgesType ==
  ASSUME TypeOK, NEW next \in Pids
  PROVE  Ages(next) \in [Pids -> 0 .. AGE_MOD - 1]
<1>1. Aged \in [Pids -> 0 .. AGE_MOD - 1]
  BY OlderType DEF TypeOK, Aged
<1>2. 0 \in 0 .. AGE_MOD - 1
  BY KernelAssumption
<1> QED BY <1>1, <1>2 DEF Ages

\* The scheduler leaves a well-typed state, whatever statuses, program count
\* and registers the handler calls it with.
LEMMA SchedulerType ==
  ASSUME TypeOK, NEW st \in [Pids -> Statuses], NEW n \in Nat \ {0},
         NEW c \in Contexts, scheduler(st, n, c)
  PROVE  TypeOK'
<1> USE DEF TypeOK, table
<1>1. CASE n > 1 /\ SwitchTo(Choice(LiveIn(st)), st, c)
  <2> DEFINE next == Choice(LiveIn(st))
  <2>1. next \in InUse /\ next \in Pids
    BY ChoiceInUse DEF LiveIn
  <2> HIDE DEF next
  <2>2. age' \in [Pids -> 0 .. AGE_MOD - 1]
    BY <1>1, <2>1, AgesType DEF SwitchTo, next
  <2>3. status' \in [Pids -> Statuses]
    BY <1>1, <2>1 DEF SwitchTo, Marked, Statuses, next
  <2>4. saved' \in [Pids -> Contexts] /\ ctx' \in Contexts
    BY <1>1, <2>1 DEF SwitchTo, next
  <2>5. executing' \in InUse'
    BY <1>1, <2>1 DEF SwitchTo, scheduler, InUse, next
  <2> QED BY <2>2, <2>3, <2>4, <2>5 DEF scheduler, Statuses
<1>2. CASE ~ (n > 1 /\ SwitchTo(Choice(LiveIn(st)), st, c))
  BY <1>2 DEF scheduler, Statuses, InUse
<1> QED BY <1>1, <1>2

\* fork leaves a well-typed state once it has a PCB.
LEMMA ForkIntoType ==
  ASSUME TypeOK, NEW free \in Pids, ForkInto(free),
         tail_pid' \in 0 .. NUM_PCBS, free <= tail_pid'
  PROVE  TypeOK'
<1> USE DEF TypeOK
<1>1. stack_top' \in [Pids -> Tops] /\ pid' \in [Pids -> Pids]
  BY DEF ForkInto, Tops
<1>2. /\ Cleared(free) \in [Pids -> Tops]
      /\ executing \in Pids
  BY DEF Cleared, Tops, InUse
<1>3. mem' \in [Tops -> Contents]
  BY <1>2 DEF ForkInto
<1>4. saved' \in [Pids -> Contexts] /\ ctx' \in Contexts
  <2> DEFINE copied == [saved EXCEPT ![free] = ctx]
             sp_offset == Cleared(free)[executing] - copied[executing].sp
  <2>1. StackTop(free) \in Int /\ Cleared(free)[executing] \in Int
    BY <1>2, TopsAreInts
  <2>2. copied \in [Pids -> Contexts] /\ copied[executing].sp \in Int
    BY <1>2 DEF Contexts
  <2>3. ChildContext(free) \in Contexts
    <3>1. sp_offset \in Int
      BY <2>1, <2>2
    <3>2. ChildContext(free) = [ctx EXCEPT !.sp = StackTop(free) - sp_offset, !.r0 = 0]
      BY DEF ChildContext
    <3>3. \A t \in Int : [ctx EXCEPT !.sp = t, !.r0 = 0] \in Contexts
      BY Relocated
    <3>4. StackTop(free) - sp_offset \in Int
      BY <2>1, <3>1
    <3> QED BY <3>2, <3>3, <3>4
  <2>4. Result(free) \in Contexts
    BY ResultType DEF Pids
  <2> QED BY <2>3, <2>4 DEF ForkInto, Paused
<1>5. age' \in [Pids -> 0 .. AGE_MOD - 1] /\ base_priority' \in [Pids -> 0 .. MaxBase]
  BY KernelAssumption DEF ForkInto
<1>6. /\ status' \in [Pids -> Statuses]
      /\ executing' \in InUse'
      /\ progs_running' \in Nat \ {0}
      /\ scheduler_mode' \in {"ROUND_ROBIN", "PRIORITY"}
  BY DEF ForkInto, Statuses, InUse
<1> QED BY <1>1, <1>3, <1>4, <1>5, <1>6 DEF Statuses

LEMMA TypeNext == TypeOK /\ [Next]_vars => TypeOK'
<1> SUFFICES ASSUME TypeOK, [Next]_vars PROVE TypeOK'
  OBVIOUS
<1>0. /\ executing \in Pids
      /\ status \in [Pids -> Statuses]
      /\ ctx \in Contexts
      /\ OneLess \in Nat \ {0}
  BY DEF TypeOK, InUse, Statuses, OneLess
<1>1. CASE TimerIRQ \/ Yield
  BY <1>0, <1>1, SchedulerType DEF TimerIRQ, Yield, TypeOK
<1>2. CASE Exit
  <2>1. [status EXCEPT ![executing] = "TERMINATED"] \in [Pids -> Statuses]
    BY <1>0 DEF Statuses
  <2> QED BY <1>0, <1>2, <2>1, SchedulerType DEF Exit
<1>3. ASSUME NEW p \in Pids, Kill(p) PROVE TypeOK'
  <2>1. [status EXCEPT ![p] = "TERMINATED"] \in [Pids -> Statuses]
    BY <1>0 DEF Statuses
  <2>2. Result(1) \in Contexts /\ Result(-1) \in Contexts
    BY ResultType
  <2>3. CASE scheduler([status EXCEPT ![p] = "TERMINATED"], OneLess, Result(1))
    BY <1>0, <2>1, <2>2, <2>3, SchedulerType
  <2>4. CASE status[p] \notin Alive
    BY <1>3, <2>2, <2>4 DEF Kill, TypeOK, table, InUse
  <2> QED BY <1>3, <2>3, <2>4 DEF Kill
<1>4. ASSUME NEW image \in Images, Exec(image) PROVE TypeOK'
  <2>1. stack_top[executing] \in Tops /\ stack_top[executing] \in Int
    BY <1>0, TopsAreInts DEF TypeOK
  <2>2. Priority[image] \in 0 .. MaxBase
    BY KernelAssumption
  <2>3. ctx' \in Contexts
    BY <1>4, <2>1, <1>0 DEF Exec, Contexts
  <2>4. base_priority' \in [Pids -> 0 .. MaxBase] /\ age' \in [Pids -> 0 .. AGE_MOD - 1]
    <3>1. 0 \in 0 .. AGE_MOD - 1
      BY KernelAssumption
    <3> QED BY <1>4, <2>2, <3>1 DEF Exec, TypeOK
  <2>5. mem' \in [Tops -> Contents]
    BY <1>4, <2>1, KernelAssumption DEF Exec, TypeOK
  <2> QED BY <1>4, <2>3, <2>4, <2>5 DEF Exec, TypeOK, InUse
<1>5. CASE Fork
  <2>1. CASE Empty # {} /\ ForkInto(find_empty_pcb) /\ UNCHANGED tail_pid
    <3>1. find_empty_pcb \in Pids /\ find_empty_pcb <= tail_pid'
      BY <2>1, EmptyPicked DEF Empty, InUse
    <3> QED BY <2>1, <3>1, ForkIntoType DEF TypeOK
  <2>2. CASE /\ tail_pid + 1 \in Pids
             /\ ForkInto(tail_pid + 1)
             /\ tail_pid' = tail_pid + 1
    <3>1. tail_pid' \in 0 .. NUM_PCBS /\ tail_pid + 1 <= tail_pid'
      BY <2>2, KernelAssumption DEF Pids
    <3> QED BY <2>2, <3>1, ForkIntoType
  <2> QED BY <1>5, <2>1, <2>2 DEF Fork
<1>6. CASE ForkBeyondTable /\ tail_pid \in Pids
  <2>1. tail_pid' \in 0 .. NUM_PCBS /\ tail_pid <= tail_pid'
    BY <1>6, KernelAssumption DEF ForkBeyondTable, Pids
  <2>2. executing \in InUse'
    BY <1>6, <2>1 DEF TypeOK, InUse, Pids
  <2> QED BY <1>6, <2>1, <2>2 DEF ForkBeyondTable, TypeOK
<1>7. CASE GetPid
  <2>1. Result(pid[executing]) \in Contexts
    BY <1>0, ResultType DEF TypeOK, Pids
  <2> QED BY <1>7, <2>1 DEF GetPid, TypeOK, table, InUse
<1>8. ASSUME NEW n \in Lengths, Write(n) PROVE TypeOK'
  <2>1. Result(n) \in Contexts
    BY ResultType, KernelAssumption
  <2> QED BY <1>8, <2>1 DEF Write, TypeOK, table, InUse
<1>9. ASSUME NEW mode \in 0 .. 2, SwitchSched(mode) PROVE TypeOK'
  BY <1>9 DEF SwitchSched, TypeOK, table, InUse
<1>10. ASSUME NEW depth \in Depths, NEW content \in Contents, UserStep(depth, content)
       PROVE TypeOK'
  <2>1. stack_top[executing] \in Tops /\ stack_top[executing] \in Int /\ depth \in Int
    BY <1>0, TopsAreInts, KernelAssumption DEF TypeOK
  <2> QED BY <1>0, <1>10, <2>1 DEF UserStep, TypeOK, table, InUse, Contexts
<1>11. CASE UNCHANGED vars
  BY <1>11 DEF vars, TypeOK, InUse
<1> QED
  BY <1>1, <1>2, <1>3, <1>4, <1>5, <1>6, <1>7, <1>8, <1>9, <1>10, <1>11
     DEF Next, Calls

\* The type invariant of the kernel: every index stays in the table, every age
\* in 32 bits, and progs_running at least 1 (hilevel.c:264, 300).
THEOREM Typed == Spec => []TypeOK
BY TypeInit, TypeNext, PTL DEF Spec

-----------------------------------------------------------------------------
(***************************************************************************)
(* One process is marked as running.                                       *)
(***************************************************************************)

LEMMA OneExecutingScheduler ==
  ASSUME TypeOK, NEW st \in [Pids -> Statuses], NEW n, NEW c,
         \A p \in Pids : st[p] = "EXECUTING" => p = executing,
         scheduler(st, n, c)
  PROVE  OneExecuting'
<1>1. CASE SwitchTo(Choice(LiveIn(st)), st, c)
  <2>1. Choice(LiveIn(st)) \in Pids
    BY ChoiceInUse DEF LiveIn
  <2>2. executing \in Pids
    BY DEF TypeOK, InUse
  <2> QED BY <1>1, <2>1, <2>2 DEF SwitchTo, Marked, OneExecuting
<1>2. CASE ~ SwitchTo(Choice(LiveIn(st)), st, c)
  BY <1>2 DEF scheduler, OneExecuting
<1> QED BY <1>1, <1>2

LEMMA OneExecutingNext == TypeOK /\ OneExecuting /\ [Next]_vars => OneExecuting'
<1> SUFFICES ASSUME TypeOK, OneExecuting, [Next]_vars PROVE OneExecuting'
  OBVIOUS
<1>0. /\ executing \in Pids
      /\ status \in [Pids -> Statuses]
      /\ \A p \in Pids : status[p] = "EXECUTING" => p = executing
  BY DEF TypeOK, InUse, Statuses, OneExecuting
<1>1. \A p \in Pids :
        LET st == [status EXCEPT ![p] = "TERMINATED"]
        IN  /\ st \in [Pids -> Statuses]
            /\ \A q \in Pids : st[q] = "EXECUTING" => q = executing
  BY <1>0 DEF Statuses
<1>2. CASE TimerIRQ \/ Yield
  BY <1>0, <1>2, OneExecutingScheduler DEF TimerIRQ, Yield
<1>3. CASE Exit
  BY <1>0, <1>1, <1>3, OneExecutingScheduler DEF Exit
<1>4. ASSUME NEW p \in Pids, Kill(p) PROVE OneExecuting'
  <2>1. CASE status[p] \in Alive
    BY <1>1, <1>4, <2>1, OneExecutingScheduler DEF Kill
  <2>2. CASE status[p] \notin Alive
    BY <1>0, <1>4, <2>2 DEF Kill, OneExecuting
  <2> QED BY <2>1, <2>2
<1>5. CASE Fork
  <2>1. PICK free \in Pids : ForkInto(free)
    <3>1. Empty # {} => find_empty_pcb \in Pids
      BY EmptyPicked DEF Empty, InUse
    <3> QED BY <1>5, <3>1 DEF Fork
  <2> QED BY <1>0, <2>1 DEF ForkInto, OneExecuting
<1>6. CASE \/ ForkBeyondTable \/ GetPid \/ UNCHANGED vars
           \/ \E n \in Lengths : Write(n)
           \/ \E image \in Images : Exec(image)
           \/ \E mode \in 0 .. 2 : SwitchSched(mode)
           \/ \E depth \in Depths, content \in Contents : UserStep(depth, content)
  <2>1. UNCHANGED <<status, executing>>
    BY <1>6 DEF ForkBeyondTable, GetPid, vars, Write, Exec, SwitchSched, UserStep
  <2> QED BY <2>1 DEF OneExecuting
<1> QED BY <1>2, <1>3, <1>4, <1>5, <1>6 DEF Next, Calls

\* At most one PCB is marked EXECUTING, and it is the current one, for every
\* sequence of calls (hilevel.c:117-126, 240-254).
THEOREM OneProcessExecutes == Spec => []OneExecuting
<1>1. Init => OneExecuting
  BY DEF Init, OneExecuting
<1> QED BY <1>1, TypeInit, TypeNext, OneExecutingNext, PTL DEF Spec

-----------------------------------------------------------------------------
(***************************************************************************)
(* Ageing is bounded.  A priority above MaxBase comes from having been     *)
(* passed over, and each turn the scheduler serves a process of highest    *)
(* priority.  So of the NUM_PCBS processes at most NUM_PCBS - 1 are above  *)
(* MaxBase, of these at most NUM_PCBS - 2 above MaxBase + 1, and so on: the*)
(* process served is one of those above any level that is occupied, and    *)
(* leaves it.                                                              *)
(***************************************************************************)
Waiting(t) == {p \in Live : get_priority(p) > MaxBase + t}

AgeLevels ==
  \A t \in 0 .. NUM_PCBS - 1 : Cardinality(Waiting(t)) <= NUM_PCBS - 1 - t

LEMMA PidsFinite == IsFiniteSet(Pids) /\ Cardinality(Pids) = NUM_PCBS
BY FS_Interval, KernelAssumption DEF Pids

\* Sets of pids are finite, and a part is no larger than the whole.
LEMMA PartIsSmaller ==
  ASSUME NEW T \in SUBSET Pids, NEW S \in SUBSET T
  PROVE  /\ IsFiniteSet(S) /\ IsFiniteSet(T)
         /\ Cardinality(S) \in Nat /\ Cardinality(T) \in Nat
         /\ Cardinality(S) <= Cardinality(T)
<1>1. IsFiniteSet(T)
  BY PidsFinite, FS_Subset
<1>2. IsFiniteSet(S) /\ Cardinality(S) <= Cardinality(T)
  BY <1>1, FS_Subset
<1> QED BY <1>1, <1>2, FS_CardinalityType

\* The levels hold after any step that raises no live process.
LEMMA NobodyRises ==
  ASSUME TypeOK, TypeOK', AgeLevels,
         \A p \in Live' : \/ get_priority(p)' <= MaxBase
                          \/ p \in Live /\ get_priority(p)' = get_priority(p)
  PROVE  AgeLevels'
<1> SUFFICES ASSUME NEW t \in 0 .. NUM_PCBS - 1
             PROVE  Cardinality(Waiting(t)') <= NUM_PCBS - 1 - t
  BY DEF AgeLevels
<1>1. \A p \in Pids : get_priority(p)' \in Nat
  BY KernelAssumption DEF TypeOK, get_priority
<1>2. Waiting(t)' \subseteq Waiting(t)
  BY <1>1, KernelAssumption DEF Waiting, Live, LiveIn, InUse
<1>3. Waiting(t) \in SUBSET Pids
  BY DEF Waiting, Live, LiveIn, InUse
<1>4. /\ Cardinality(Waiting(t)) \in Nat /\ Cardinality(Waiting(t)') \in Nat
      /\ Cardinality(Waiting(t)') <= Cardinality(Waiting(t))
  BY <1>2, <1>3, PartIsSmaller
<1>5. Cardinality(Waiting(t)) <= NUM_PCBS - 1 - t
  BY DEF AgeLevels
<1> QED BY <1>4, <1>5, KernelAssumption

\* Ages of waiting processes do not wrap.
LEMMA NoWrap ==
  ASSUME TypeOK, AgeLevels, NEW p \in Live
  PROVE  get_priority(p) < MaxBase + NUM_PCBS /\ Older(age[p]) = age[p] + 1
<1> DEFINE t == NUM_PCBS - 1
<1>1. t \in 0 .. NUM_PCBS - 1 /\ NUM_PCBS - 1 - t = 0
  BY KernelAssumption
<1>2. p \in Pids /\ get_priority(p) \in Nat
  BY PriorityIsNat DEF Live, LiveIn, InUse
<1>3. Waiting(t) = {}
  <2>1. Waiting(t) \in SUBSET Pids
    BY DEF Waiting, Live, LiveIn, InUse
  <2>2. IsFiniteSet(Waiting(t)) /\ Cardinality(Waiting(t)) \in Nat
    BY <2>1, PartIsSmaller
  <2>3. Cardinality(Waiting(t)) <= 0
    BY <1>1 DEF AgeLevels
  <2>4. Cardinality(Waiting(t)) = 0
    BY <2>2, <2>3
  <2> QED BY <2>2, <2>4, FS_EmptySet
<1>4. ~ (get_priority(p) > MaxBase + t)
  BY <1>3 DEF Waiting
<1>5. get_priority(p) < MaxBase + NUM_PCBS
  BY <1>2, <1>4, KernelAssumption
<1>6. age[p] \in Nat /\ age[p] <= get_priority(p)
  BY <1>2, KernelAssumption DEF TypeOK, get_priority
<1> QED BY <1>2, <1>5, <1>6, KernelAssumption DEF Older

\* A turn in PRIORITY mode: everyone but the process served moves up one.
LEMMA Turn ==
  ASSUME TypeOK, AgeLevels, scheduler_mode = "PRIORITY",
         NEW st \in [Pids -> Statuses], NEW c,
         \A p \in Pids : st[p] \in Alive => status[p] \in Alive,
         SwitchTo(Choice(LiveIn(st)), st, c),
         UNCHANGED <<tail_pid, base_priority>>,
         NEW p \in Live', p # executing'
  PROVE  /\ p \in Live /\ Before(executing', p)
         /\ executing' \in LiveIn(st) /\ executing' \in Live
         /\ get_priority(p)' = get_priority(p) + 1
<1>1. LiveIn(st) \subseteq Live /\ Live \subseteq Pids
  BY DEF LiveIn, Live, InUse
<1>2. /\ executing' \in Pids
      /\ LiveIn(st) # {} => /\ executing' \in LiveIn(st)
                            /\ \A q \in LiveIn(st) : Before(executing', q)
  BY <1>1, Picked DEF Choice, SwitchTo
<1>3. age' = [Aged EXCEPT ![executing'] = 0] /\ status' = Marked(executing', st)
  BY DEF SwitchTo, Ages
<1>4. p \in Pids /\ p \in InUse
  BY DEF Live, LiveIn, InUse
<1>5. st[p] \in Alive
  <2>1. status'[p] \in Alive
    BY DEF Live, LiveIn
  <2>2. status'[p] = IF p = executing
                     THEN IF st[executing] = "TERMINATED" THEN "TERMINATED" ELSE "READY"
                     ELSE st[p]
    BY <1>2, <1>3, <1>4 DEF Marked, TypeOK, InUse
  <2> QED BY <1>4, <2>1, <2>2 DEF Alive, Statuses
<1>6. p \in LiveIn(st) /\ p \in Live
  BY <1>1, <1>4, <1>5 DEF LiveIn
<1>7. age'[p] = age[p] + 1
  <2>1. age'[p] = Older(age[p])
    BY <1>2, <1>3, <1>4 DEF Aged
  <2> QED BY <1>6, <2>1, NoWrap
<1>8. age[p] \in Nat /\ base_priority[p] \in Nat
  BY <1>4, KernelAssumption DEF TypeOK
<1> QED BY <1>1, <1>2, <1>6, <1>7, <1>8 DEF get_priority

LEMMA OneServed ==
  ASSUME TypeOK, TypeOK', AgeLevels, scheduler_mode = "PRIORITY",
         NEW st \in [Pids -> Statuses], NEW c,
         \A p \in Pids : st[p] \in Alive => status[p] \in Alive,
         SwitchTo(Choice(LiveIn(st)), st, c),
         UNCHANGED <<tail_pid, base_priority>>
  PROVE  AgeLevels'
<1>2. LiveIn(st) \subseteq Live /\ Live \subseteq Pids
  BY DEF LiveIn, Live, InUse
<1>3. PICK next \in Pids : Choice(LiveIn(st)) = next
  BY <1>2, Picked DEF Choice
<1>4. age' = [Aged EXCEPT ![next] = 0] /\ executing' = next
  BY <1>3 DEF SwitchTo, Ages
<1>5. ASSUME NEW p \in Live', p # next
      PROVE  /\ p \in Live /\ next \in Live /\ Before(next, p)
             /\ get_priority(p)' = get_priority(p) + 1
  BY <1>4, <1>5, Turn
<1>6. get_priority(next)' <= MaxBase
  BY <1>3, <1>4, KernelAssumption DEF get_priority, TypeOK, Aged
<1> SUFFICES ASSUME NEW t \in 0 .. NUM_PCBS - 1
             PROVE  Cardinality(Waiting(t)') <= NUM_PCBS - 1 - t
  BY DEF AgeLevels
<1>7. Waiting(t)' \in SUBSET Pids /\ next \notin Waiting(t)'
  <2>1. Waiting(t)' \in SUBSET Pids
    BY DEF Waiting, Live, LiveIn, InUse
  <2>2. get_priority(next)' \in Nat
    BY <1>3, KernelAssumption DEF TypeOK, get_priority
  <2> QED BY <1>6, <2>1, <2>2, KernelAssumption DEF Waiting
<1>8. CASE t = 0
  <2>1. Waiting(t)' \subseteq Pids \ {next}
    BY <1>7
  <2>2. Cardinality(Pids \ {next}) = NUM_PCBS - 1
    BY <1>3, PidsFinite, FS_RemoveElement
  <2>3. /\ Pids \ {next} \in SUBSET Pids
        /\ Cardinality(Waiting(t)') <= Cardinality(Pids \ {next})
    BY <2>1, PartIsSmaller
  <2> QED BY <1>8, <2>2, <2>3, KernelAssumption
<1>9. CASE t # 0
  <2> DEFINE below == Waiting(t - 1)
  <2>1. t - 1 \in 0 .. NUM_PCBS - 1
    BY <1>9, KernelAssumption
  <2>2. below \in SUBSET Pids
    BY DEF Waiting, Live, LiveIn, InUse
  <2>3. ASSUME NEW p \in Waiting(t)'
        PROVE  p \in below \ {next} /\ next \in below
    <3>1. p # next /\ p \in Live' /\ get_priority(p)' > MaxBase + t
      BY <1>7, <2>3 DEF Waiting
    <3>2. p \in Live /\ get_priority(p)' = get_priority(p) + 1
      BY <1>5, <3>1
    <3>3. next \in Live /\ Before(next, p)
      BY <1>5, <3>1
    <3>4. get_priority(p) \in Nat /\ get_priority(next) \in Nat
      BY <1>2, <3>2, <3>3, PriorityIsNat
    <3>5. get_priority(p) > MaxBase + (t - 1)
      BY <3>1, <3>2, <3>4, KernelAssumption
    <3>6. get_priority(next) > MaxBase + (t - 1)
      BY <3>3, <3>4, <3>5, KernelAssumption DEF Before
    <3> QED BY <3>1, <3>2, <3>3, <3>5, <3>6 DEF Waiting
  <2>4. Cardinality(below) <= NUM_PCBS - 1 - (t - 1)
    BY <2>1 DEF AgeLevels
  <2>5. CASE Waiting(t)' = {}
    BY <2>5, FS_EmptySet, KernelAssumption
  <2>6. CASE Waiting(t)' # {}
    <3>1. next \in below /\ Waiting(t)' \subseteq below \ {next}
      BY <2>3, <2>6
    <3> HIDE DEF below
    <3>2. IsFiniteSet(below) /\ Cardinality(below) \in Nat
      BY <2>2, PartIsSmaller
    <3>3. Cardinality(below \ {next}) = Cardinality(below) - 1
      BY <3>1, <3>2, FS_RemoveElement
    <3>4. /\ Cardinality(Waiting(t)') <= Cardinality(below \ {next})
          /\ Cardinality(Waiting(t)') \in Nat
      BY <2>2, <3>1, PartIsSmaller
    <3> QED BY <2>4, <3>2, <3>3, <3>4, KernelAssumption
  <2> QED BY <2>5, <2>6
<1> QED BY <1>8, <1>9

LEMMA AgeLevelsScheduler ==
  ASSUME TypeOK, TypeOK', AgeLevels,
         NEW st \in [Pids -> Statuses], NEW n, NEW c,
         \A p \in Pids : st[p] \in Alive => status[p] \in Alive,
         scheduler(st, n, c)
  PROVE  AgeLevels'
<1>1. UNCHANGED <<tail_pid, base_priority>>
  BY DEF scheduler, table
<1>2. CASE SwitchTo(Choice(LiveIn(st)), st, c) /\ scheduler_mode = "PRIORITY"
  BY <1>1, <1>2, OneServed
<1>3. CASE SwitchTo(Choice(LiveIn(st)), st, c) /\ scheduler_mode # "PRIORITY"
  <2>1. Choice(LiveIn(st)) = 0
    BY <1>3 DEF Choice
  <2>2. 0 \in Pids /\ executing \in Pids
    BY KernelAssumption DEF Pids, TypeOK, InUse
  <2>3. /\ status' = Marked(0, st)
        /\ age' = [Aged EXCEPT ![0] = 0]
    BY <1>3, <2>1 DEF SwitchTo, Ages
  <2>4. /\ age' = [age EXCEPT ![0] = 0]
    BY <1>3, <2>3 DEF Aged, TypeOK
  <2>5. ASSUME NEW p \in Live'
        PROVE  \/ get_priority(p)' <= MaxBase
               \/ p \in Live /\ get_priority(p)' = get_priority(p)
    <3>1. p \in Pids /\ p \in InUse /\ status'[p] \in Alive
      BY <1>1 DEF Live, LiveIn, InUse
    <3>2. CASE p = 0
      BY <1>1, <2>2, <2>4, <3>2, KernelAssumption DEF get_priority, TypeOK
    <3>3. CASE p # 0
      <4>1. status'[p] = IF p = executing
                         THEN IF st[executing] = "TERMINATED" THEN "TERMINATED" ELSE "READY"
                         ELSE st[p]
        BY <2>2, <2>3, <3>1, <3>3 DEF Marked
      <4>2. st[p] \in Alive
        BY <3>1, <4>1 DEF Alive, Statuses
      <4>3. get_priority(p)' = get_priority(p)
        BY <1>1, <2>4, <3>1, <3>3 DEF get_priority, TypeOK
      <4> QED BY <3>1, <4>2, <4>3 DEF Live, LiveIn
    <3> QED BY <3>2, <3>3
  <2> QED BY <2>5, NobodyRises
<1>4. CASE ~ SwitchTo(Choice(LiveIn(st)), st, c)
  <2>1. status' = st /\ age' = age
    BY <1>4 DEF scheduler
  <2>2. \A p \in Live' : p \in Live /\ get_priority(p)' = get_priority(p)
    BY <1>1, <2>1 DEF Live, LiveIn, InUse, get_priority
  <2> QED BY <2>2, NobodyRises
<1> QED BY <1>2, <1>3, <1>4

\* The child of a fork starts with priority 0.  Its parent keeps its age, which
\* is 0 while it runs: it matters when the parent had exited, for fork revives it.
LEMMA AgeLevelsFork ==
  ASSUME TypeOK, TypeOK', AgeLevels, NEW free \in Pids, ForkInto(free),
         \A p \in InUse' : p \in InUse \/ p = free,
         age[executing] = 0
  PROVE  AgeLevels'
<1>1. ASSUME NEW p \in Live'
      PROVE  \/ get_priority(p)' <= MaxBase
             \/ p \in Live /\ get_priority(p)' = get_priority(p)
  <2>1. p \in Pids /\ p \in InUse' /\ status'[p] \in Alive
    BY DEF Live, LiveIn, InUse
  <2>2. CASE p = free
    BY <2>2, KernelAssumption DEF ForkInto, get_priority, TypeOK
  <2>3. CASE p # free
    <3>1. p \in InUse /\ get_priority(p)' = get_priority(p)
      BY <2>1, <2>3 DEF ForkInto, get_priority, TypeOK
    <3>2. status'[p] = IF p = executing THEN "READY" ELSE status[p]
      BY <2>1, <2>3 DEF ForkInto, TypeOK
    <3>3. CASE p = executing
      BY <2>1, <3>1, <3>3, KernelAssumption DEF get_priority, TypeOK
    <3>4. CASE p # executing
      BY <2>1, <3>1, <3>2, <3>4 DEF Live, LiveIn
    <3> QED BY <3>3, <3>4
  <2> QED BY <2>2, <2>3
<1> QED BY <1>1, NobodyRises

AgeInv == AgeLevels /\ age[executing] = 0

LEMMA AgeInit == Init => AgeInv
<1> SUFFICES ASSUME Init PROVE AgeInv
  OBVIOUS
<1>1. TypeOK
  BY TypeInit
<1>2. ASSUME NEW t \in 0 .. NUM_PCBS - 1
      PROVE  Cardinality(Waiting(t)) <= NUM_PCBS - 1 - t
  <2>1. \A p \in Live : get_priority(p) <= 1
    BY DEF Init, Live, LiveIn, InUse, Pids, get_priority
  <2>2. \A p \in Live : p \in Pids
    BY DEF Live, LiveIn, InUse
  <2>3. Waiting(t) = {}
    BY <1>1, <2>1, <2>2, PriorityIsNat, KernelAssumption DEF Waiting
  <2> QED BY <2>3, FS_EmptySet, KernelAssumption
<1> QED BY <1>2, KernelAssumption DEF AgeInv, AgeLevels, Init, Pids

LEMMA AgeNext == TypeOK /\ TypeOK' /\ AgeInv /\ [Next]_vars => AgeInv'
<1> SUFFICES ASSUME TypeOK, TypeOK', AgeInv, [Next]_vars PROVE AgeInv'
  OBVIOUS
<1>0. /\ executing \in Pids
      /\ status \in [Pids -> Statuses]
      /\ AgeLevels /\ age[executing] = 0
  BY DEF TypeOK, InUse, Statuses, AgeInv
<1>1. ASSUME NEW st \in [Pids -> Statuses], NEW n, NEW c,
             \A p \in Pids : st[p] \in Alive => status[p] \in Alive,
             scheduler(st, n, c)
      PROVE  AgeInv'
  <2>1. age'[executing'] = 0
    <3>1. CASE SwitchTo(Choice(LiveIn(st)), st, c)
      <4>1. PICK next \in Pids : Choice(LiveIn(st)) = next
        BY ChoiceInUse DEF LiveIn
      <4> QED BY <3>1, <4>1 DEF SwitchTo, Ages, Aged
    <3>2. CASE ~ SwitchTo(Choice(LiveIn(st)), st, c)
      BY <1>0, <1>1, <3>2 DEF scheduler
    <3> QED BY <3>1, <3>2
  <2> QED BY <1>0, <1>1, <2>1, AgeLevelsScheduler DEF AgeInv
<1>2. \A p \in Pids :
        LET st == [status EXCEPT ![p] = "TERMINATED"]
        IN  /\ st \in [Pids -> Statuses]
            /\ \A q \in Pids : st[q] \in Alive => status[q] \in Alive
  BY <1>0 DEF Statuses, Alive
<1>3. CASE TimerIRQ \/ Yield
  BY <1>0, <1>1, <1>3 DEF TimerIRQ, Yield
<1>4. CASE Exit
  BY <1>0, <1>1, <1>2, <1>4 DEF Exit
<1>5. CASE Fork
  <2>1. PICK free \in Pids : /\ ForkInto(free)
                             /\ \A p \in InUse' : p \in InUse \/ p = free
    <3>1. CASE Empty # {} /\ ForkInto(find_empty_pcb) /\ UNCHANGED tail_pid
      <4>1. find_empty_pcb \in Pids
        BY <3>1, EmptyPicked DEF Empty, InUse
      <4> QED BY <3>1, <4>1 DEF InUse
    <3>2. CASE /\ tail_pid + 1 \in Pids
               /\ ForkInto(tail_pid + 1)
               /\ tail_pid' = tail_pid + 1
      <4>1. \A p \in InUse' : p \in InUse \/ p = tail_pid + 1
        BY <3>2 DEF InUse, Pids, TypeOK
      <4> QED BY <3>2, <4>1
    <3> QED BY <1>5, <3>1, <3>2 DEF Fork
  <2>2. AgeLevels'
    BY <1>0, <2>1, AgeLevelsFork
  <2>3. age'[executing'] = 0
    BY <2>1 DEF ForkInto, TypeOK
  <2> QED BY <2>2, <2>3 DEF AgeInv
<1>6. ASSUME NEW image \in Images, Exec(image) PROVE AgeInv'
  <2>1. ASSUME NEW p \in Live'
        PROVE  \/ get_priority(p)' <= MaxBase
               \/ p \in Live /\ get_priority(p)' = get_priority(p)
    <3>1. p \in Pids /\ p \in Live
      BY <1>6 DEF Exec, Live, LiveIn, InUse
    <3>2. CASE p = executing
      BY <1>0, <1>6, <3>2, KernelAssumption DEF Exec, get_priority, TypeOK
    <3>3. CASE p # executing
      BY <1>0, <1>6, <3>1, <3>3 DEF Exec, get_priority, TypeOK
    <3> QED BY <3>2, <3>3
  <2>2. AgeLevels'
    BY <1>0, <2>1, NobodyRises
  <2>3. age'[executing'] = 0
    BY <1>0, <1>6 DEF Exec, TypeOK
  <2> QED BY <2>2, <2>3 DEF AgeInv
<1>7. ASSUME UNCHANGED <<status, executing, age, base_priority>>, InUse' = InUse
      PROVE  AgeInv'
  <2>1. \A p \in Live' : p \in Live /\ get_priority(p)' = get_priority(p)
    BY <1>7 DEF Live, LiveIn, get_priority
  <2> QED BY <1>0, <1>7, <2>1, NobodyRises DEF AgeInv
<1>8. ASSUME NEW p \in Pids, Kill(p) PROVE AgeInv'
  <2>1. CASE status[p] \in Alive
    BY <1>1, <1>2, <1>8, <2>1 DEF Kill
  <2>2. CASE status[p] \notin Alive
    BY <1>7, <1>8, <2>2 DEF Kill, table, InUse
  <2> QED BY <2>1, <2>2
<1>9. CASE tail_pid \in Pids /\ ForkBeyondTable
  <2>1. InUse' = InUse
    BY <1>9, KernelAssumption DEF ForkBeyondTable, InUse, Pids
  <2> QED BY <1>7, <1>9, <2>1 DEF ForkBeyondTable
<1>10. CASE \/ GetPid \/ UNCHANGED vars
            \/ \E n \in Lengths : Write(n)
            \/ \E mode \in 0 .. 2 : SwitchSched(mode)
            \/ \E depth \in Depths, content \in Contents : UserStep(depth, content)
  <2>1. UNCHANGED <<tail_pid, status, executing, age, base_priority>>
    BY <1>10 DEF GetPid, vars, table, Write, SwitchSched, UserStep
  <2> QED BY <1>7, <2>1 DEF InUse
<1> QED
  BY <1>3, <1>4, <1>5, <1>6, <1>8, <1>9, <1>10 DEF Next, Calls

\* No live process ever reaches priority MaxBase + NUM_PCBS, whatever is called:
\* waiting is bounded and ages never overflow (hilevel.c:53-81, 125).
THEOREM AgesBounded == Spec => []AgeBound
<1>1. TypeOK /\ AgeInv => AgeBound
  BY NoWrap DEF AgeInv, AgeBound
<1> QED BY <1>1, TypeInit, TypeNext, AgeInit, AgeNext, PTL DEF Spec

\* Only the scheduler gives the processor to a process that was there before: a
\* fork gives it to one that was not, and the others keep it.
LEMMA ServedNext ==
  ASSUME TypeOK, AgeInv, [Next]_vars, scheduler_mode = "PRIORITY",
         executing' # executing, executing' \in Live,
         NEW p \in (Live \cap Live') \ {executing'}
  PROVE  Before(executing', p) /\ get_priority(p)' = get_priority(p) + 1
<1>0. status \in [Pids -> Statuses] /\ AgeLevels
  BY DEF TypeOK, Statuses, AgeInv
<1>1. ASSUME NEW st \in [Pids -> Statuses], NEW n, NEW c,
             \A q \in Pids : st[q] \in Alive => status[q] \in Alive,
             scheduler(st, n, c)
      PROVE  Before(executing', p) /\ get_priority(p)' = get_priority(p) + 1
  <2>1. SwitchTo(Choice(LiveIn(st)), st, c) /\ UNCHANGED <<tail_pid, base_priority>>
    BY <1>1 DEF scheduler, table
  <2> QED BY <1>0, <1>1, <2>1, Turn
<1>2. \A q \in Pids :
        LET st == [status EXCEPT ![q] = "TERMINATED"]
        IN  /\ st \in [Pids -> Statuses]
            /\ \A r \in Pids : st[r] \in Alive => status[r] \in Alive
  BY <1>0 DEF Statuses, Alive
<1>3. CASE TimerIRQ \/ Yield
  BY <1>0, <1>1, <1>3 DEF TimerIRQ, Yield
<1>4. CASE Exit
  BY <1>1, <1>2, <1>4 DEF Exit, TypeOK, InUse
<1>5. ASSUME NEW q \in Pids, Kill(q)
      PROVE  Before(executing', p) /\ get_priority(p)' = get_priority(p) + 1
  BY <1>1, <1>2, <1>5 DEF Kill
<1>6. ~Fork
  <2>1. ASSUME Empty # {} PROVE find_empty_pcb \notin Live
    BY <2>1, EmptyPicked DEF Empty, Live, LiveIn, Alive
  <2>2. tail_pid + 1 \notin Live
    BY KernelAssumption DEF Live, LiveIn, InUse, TypeOK
  <2> QED BY <2>1, <2>2 DEF Fork, ForkInto
<1> QED
  BY <1>3, <1>4, <1>5, <1>6
     DEF Next, Calls, ForkBeyondTable, GetPid, Write, Exec, SwitchSched, UserStep, vars

\* Every turn goes to the first in priority, and everyone passed over gains one, in
\* every table and under any calls; with AgesBounded this bounds how often a process
\* can be passed over (hilevel.c:57-81, 101-126).
THEOREM TurnsInOrder == Spec => PassedOver
<1>1. TypeOK /\ AgeInv /\ [Next]_vars
        => [scheduler_mode = "PRIORITY" /\ executing' # executing /\ executing' \in Live
              => \A p \in (Live \cap Live') \ {executing'} :
                   /\ Before(executing', p)
                   /\ get_priority(p)' = get_priority(p) + 1]_vars
  BY ServedNext
<1>2. TypeOK /\ TypeOK' /\ AgeInv /\ [Next]_vars => AgeInv'
  BY AgeNext
<1> QED BY <1>1, <1>2, TypeInit, TypeNext, AgeInit, PTL DEF Spec, PassedOver

-----------------------------------------------------------------------------
(***************************************************************************)
(* Stacks are disjoint.  A PCB in use has the stack fork computed for its  *)
(* index, or, for PCB 0, the one the console got at reset: no call moves a *)
(* stack, and fork clears stack_top only to compute it anew.  Tops are     *)
(* 4 * STACK_SIZE apart, and the console's is below all others.            *)
(***************************************************************************)
OwnTop(p) == stack_top[p] = StackTop(p) \/ (p = 0 /\ stack_top[p] = TOS_CONSOLE)
StackInv == \A p \in InUse : OwnTop(p)

\* The stacks fork gives to two PCBs do not touch.
LEMMA TopsApart ==
  ASSUME NEW p \in Pids, NEW q \in Pids, p < q
  PROVE  StackTop(p) <= StackTop(q) - STACK_SIZE
<1> DEFINE k == 4 * STACK_SIZE
<1>1. p \in Nat /\ q \in Nat /\ k \in Nat /\ STACK_SIZE <= k
  BY KernelAssumption DEF Pids
<1> HIDE DEF k
<1>2. q * k >= p * k + k
  <2>1. PICK d \in Nat : q = p + 1 + d
    <3>1. q - p - 1 \in Nat /\ q = p + 1 + (q - p - 1)
      BY <1>1
    <3> QED BY <3>1
  <2>2. (p + 1 + d) * k = p * k + k + d * k
    BY <1>1, <2>1
  <2>3. d * k \in Nat /\ p * k \in Nat
    BY <1>1, <2>1
  <2> QED BY <1>1, <2>1, <2>2, <2>3
<1>3. TOS_PROCS \in Int
  BY KernelAssumption DEF TOS_PROCS
<1>4. p * k \in Int /\ q * k \in Int
  BY <1>1
<1>5. StackTop(p) = TOS_PROCS + p * k /\ StackTop(q) = TOS_PROCS + q * k
  BY DEF StackTop, k
<1> QED BY <1>1, <1>2, <1>3, <1>4, <1>5, KernelAssumption

\* They lie above the console's stack.
LEMMA ConsoleBelow ==
  ASSUME NEW p \in Pids
  PROVE  TOS_CONSOLE <= StackTop(p) - STACK_SIZE
<1>1. TOS_CONSOLE + STACK_SIZE <= TOS_PROCS /\ TOS_PROCS \in Int
  <2>1. NUM_PCBS * STACK_SIZE >= STACK_SIZE /\ NUM_PCBS * STACK_SIZE \in Nat
    <3>1. PICK d \in Nat : NUM_PCBS = 1 + d
      <4>1. NUM_PCBS - 1 \in Nat /\ NUM_PCBS = 1 + (NUM_PCBS - 1)
        BY KernelAssumption
      <4> QED BY <4>1
    <3>2. (1 + d) * STACK_SIZE = STACK_SIZE + d * STACK_SIZE /\ d * STACK_SIZE \in Nat
      BY <3>1, KernelAssumption
    <3> QED BY <3>1, <3>2, KernelAssumption
  <2> QED BY <2>1, KernelAssumption DEF TOS_PROCS
<1>2. p * (4 * STACK_SIZE) \in Nat
  BY KernelAssumption DEF Pids
<1> QED BY <1>1, <1>2, KernelAssumption DEF StackTop

LEMMA ApartByInv ==
  ASSUME StackInv
  PROVE  StacksDisjoint
<1> SUFFICES ASSUME NEW p \in Live, NEW q \in Live, p < q
             PROVE  stack_top[p] <= stack_top[q] - STACK_SIZE
  <2>1. \A p, q \in Live : p # q => p < q \/ q < p
    BY DEF Live, LiveIn, InUse, Pids
  <2> QED BY <2>1 DEF StacksDisjoint
<1>1. p \in Pids /\ q \in Pids /\ OwnTop(p) /\ OwnTop(q) /\ q # 0
  BY DEF Live, LiveIn, InUse, StackInv, Pids
<1> QED BY <1>1, TopsApart, ConsoleBelow DEF OwnTop

LEMMA StackNext == TypeOK /\ StackInv /\ [Next]_vars => StackInv'
<1> SUFFICES ASSUME TypeOK, StackInv, [Next]_vars PROVE StackInv'
  OBVIOUS
<1>1. CASE Fork
  <2>1. ASSUME NEW free \in Pids, ForkInto(free),
               \A p \in Pids : p <= tail_pid' => p <= tail_pid \/ p = free
        PROVE  StackInv'
    <3>1. stack_top' = [stack_top EXCEPT ![free] = StackTop(free)]
      BY <2>1 DEF ForkInto
    <3>2. ASSUME NEW p \in Pids, p <= tail_pid' PROVE OwnTop(p)'
      <4>1. CASE p = free
        BY <3>1, <4>1 DEF TypeOK, OwnTop
      <4>2. CASE p # free
        BY <2>1, <3>1, <3>2, <4>2 DEF TypeOK, OwnTop, StackInv, InUse
      <4> QED BY <4>1, <4>2
    <3> QED BY <3>2 DEF StackInv, InUse
  <2>2. CASE Empty # {} /\ ForkInto(find_empty_pcb) /\ UNCHANGED tail_pid
    <3>1. find_empty_pcb \in Pids
      BY <2>2, EmptyPicked DEF Empty, InUse
    <3> QED BY <2>1, <2>2, <3>1
  <2>3. CASE tail_pid + 1 \in Pids /\ ForkInto(tail_pid + 1) /\ tail_pid' = tail_pid + 1
    <3>1. \A p \in Pids : p <= tail_pid + 1 => p <= tail_pid \/ p = tail_pid + 1
      BY DEF Pids, TypeOK
    <3> QED BY <2>1, <2>3, <3>1
  <2> QED BY <1>1, <2>2, <2>3 DEF Fork
<1>2. CASE ForkBeyondTable
  <2>1. \A p \in Pids : p <= tail_pid
    BY <1>2, KernelAssumption DEF ForkBeyondTable, TypeOK, Pids
  <2> QED BY <1>2, <2>1 DEF ForkBeyondTable, StackInv, InUse, OwnTop
<1>3. CASE \/ TimerIRQ \/ Yield \/ Exit \/ GetPid \/ UNCHANGED vars
           \/ \E p \in Pids : Kill(p)
           \/ \E n \in Lengths : Write(n)
           \/ \E image \in Images : Exec(image)
           \/ \E mode \in 0 .. 2 : SwitchSched(mode)
           \/ \E depth \in Depths, content \in Contents : UserStep(depth, content)
  <2>1. UNCHANGED <<tail_pid, stack_top>>
    BY <1>3 DEF TimerIRQ, Yield, Exit, Kill, GetPid, Write, Exec, SwitchSched, UserStep,
                scheduler, table, vars
  <2> QED BY <2>1 DEF StackInv, InUse, OwnTop
<1> QED BY <1>1, <1>2, <1>3 DEF Next, Calls

LEMMA StackInit == Init => StackInv
<1> SUFFICES ASSUME Init, NEW p \in InUse PROVE OwnTop(p)
  BY DEF StackInv
<1>1. p = 0 /\ p \in Pids
  BY DEF Init, InUse, Pids
<1> QED BY <1>1 DEF Init, OwnTop

\* The stacks of two live processes never overlap, whatever processes call and
\* however PCBs are used again (hilevel.c:235, 242).
THEOREM StacksApart == Spec => []StacksDisjoint
<1>1. StackInv => StacksDisjoint
  BY ApartByInv
<1> QED BY <1>1, TypeInit, TypeNext, StackInit, StackNext, PTL DEF Spec

-----------------------------------------------------------------------------
(***************************************************************************)
(* The kernel's books, when it is used as it expects.  They need the       *)
(* console to live: it is what ROUND_ROBIN always chooses.                 *)
(***************************************************************************)
BooksInv == Books /\ 0 \in Live /\ tail_pid \in Pids

\* A well used kernel takes steps of Next.
LEMMA WellUsedIsNext ==
  ASSUME TypeOK, tail_pid \in Pids, [WellUsedNext]_vars
  PROVE  [Next]_vars
BY DEF WellUsedNext, Next, Calls, InUse

\* While the console lives the scheduler ends and revives nobody, and switches
\* to a live process if it switches.
LEMMA SchedulerLive ==
  ASSUME TypeOK, NEW st \in [Pids -> Statuses], NEW n, NEW c, 0 \in LiveIn(st),
         scheduler(st, n, c)
  PROVE  /\ Live' = LiveIn(st)
         /\ \/ executing' \in Live' /\ status'[executing'] = "EXECUTING"
            \/ n <= 1 /\ UNCHANGED executing /\ status' = st
<1> DEFINE alive == LiveIn(st)
           next == Choice(alive)
<1>1. tail_pid' = tail_pid
  BY DEF scheduler, table
<1>2. CASE n > 1 /\ SwitchTo(next, st, c)
  <2>1. next \in alive /\ next \in Pids
    <3>1. alive \in SUBSET Pids
      BY DEF LiveIn, InUse
    <3> QED BY <3>1, Picked DEF Choice
  <2>2. executing \in Pids
    BY DEF TypeOK, InUse
  <2>3. status' = Marked(next, st) /\ executing' = next
    BY <1>2 DEF SwitchTo
  <2>4. Live' = alive
    <3>1. ASSUME NEW p \in Pids PROVE (status'[p] \in Alive) = (st[p] \in Alive)
      <4>1. CASE p = next
        BY <2>1, <2>3, <4>1 DEF Marked, Alive, LiveIn
      <4>2. CASE p # next /\ p = executing
        BY <2>1, <2>2, <2>3, <4>2 DEF Marked, Alive, Statuses
      <4>3. CASE p # next /\ p # executing
        BY <2>1, <2>2, <2>3, <4>3 DEF Marked
      <4> QED BY <4>1, <4>2, <4>3
    <3> QED BY <1>1, <3>1 DEF Live, LiveIn, InUse
  <2>5. status'[executing'] = "EXECUTING"
    BY <2>1, <2>2, <2>3 DEF Marked
  <2> QED BY <2>1, <2>3, <2>4, <2>5
<1>3. CASE n <= 1 /\ UNCHANGED executing /\ status' = st
  BY <1>1, <1>3 DEF Live, LiveIn, InUse
<1> QED BY <1>2, <1>3 DEF scheduler

\* With a process to switch to, and progs_running counting them, the scheduler
\* keeps the books.
LEMMA BooksScheduler ==
  ASSUME TypeOK, NEW st \in [Pids -> Statuses], NEW n, NEW c, tail_pid \in Pids,
         n = Cardinality(LiveIn(st)), 0 \in LiveIn(st),
         n <= 1 => executing \in LiveIn(st) /\ st[executing] = "EXECUTING",
         scheduler(st, n, c)
  PROVE  BooksInv' /\ Live' = LiveIn(st)
<1>1. tail_pid' = tail_pid /\ progs_running' = n
  BY DEF scheduler, table
<1>2. /\ Live' = LiveIn(st)
      /\ executing' \in Live' /\ status'[executing'] = "EXECUTING"
  BY SchedulerLive
<1> QED BY <1>1, <1>2 DEF BooksInv, Books

\* Ending p, which is not the console, takes one from the books; if p is the
\* process that runs, another one than the console remains to switch to.
LEMMA BooksEnding ==
  ASSUME TypeOK, BooksInv, NEW p \in Live, MayEnd(p), NEW c,
         scheduler([status EXCEPT ![p] = "TERMINATED"], OneLess, c)
  PROVE  BooksInv' /\ Live' = Live \ {p}
<1> DEFINE st == [status EXCEPT ![p] = "TERMINATED"]
<1>1. p \in Pids /\ st \in [Pids -> Statuses]
  BY DEF Live, LiveIn, InUse, TypeOK, Statuses
<1>2. LiveIn(st) = Live \ {p}
  BY <1>1 DEF Live, LiveIn, Alive, TypeOK
<1>3. IsFiniteSet(Live)
  BY PidsFinite, FS_Subset DEF Live, LiveIn, InUse
<1>4. Cardinality(LiveIn(st)) = progs_running - 1
  BY <1>2, <1>3, FS_RemoveElement DEF BooksInv, Books
<1>5. 0 \in LiveIn(st)
  BY <1>2 DEF BooksInv, MayEnd
<1>6. progs_running - 1 >= 1
  <2>1. IsFiniteSet(LiveIn(st))
    BY <1>2, <1>3, FS_RemoveElement
  <2>2. Cardinality(LiveIn(st)) \in Nat /\ Cardinality(LiveIn(st)) # 0
    BY <1>5, <2>1, FS_EmptySet, FS_CardinalityType
  <2>3. \A m \in Nat : m # 0 => m >= 1
    OBVIOUS
  <2> QED BY <1>4, <2>2, <2>3
<1>7. OneLess = Cardinality(LiveIn(st))
  BY <1>4, <1>6 DEF OneLess, TypeOK
<1>8. OneLess <= 1 => executing \in LiveIn(st) /\ st[executing] = "EXECUTING"
  <2>1. CASE p = executing
    BY <1>4, <1>7, <2>1 DEF MayEnd, TypeOK
  <2>2. CASE p # executing
    <3>1. executing \in Live /\ executing \in Pids /\ status[executing] = "EXECUTING"
      BY DEF BooksInv, Books, TypeOK, InUse
    <3>2. st[executing] = status[executing]
      BY <2>2, <3>1 DEF TypeOK
    <3> QED BY <1>2, <2>2, <3>1, <3>2
  <2> QED BY <2>1, <2>2
<1>9. tail_pid \in Pids
  BY DEF BooksInv
<1> HIDE DEF st
<1> QED BY <1>1, <1>2, <1>5, <1>7, <1>8, <1>9, BooksScheduler DEF st

\* fork takes a PCB no live process has, while the table has room; the caller is
\* alive afterwards, and may have forked into its own PCB if it was not before.
LEMMA ForkLive ==
  ASSUME TypeOK, tail_pid \in Pids, Fork
  PROVE  \E free \in Pids \ Live :
           /\ ForkInto(free) /\ tail_pid' \in Pids
           /\ Live' = Live \cup {free, executing}
<1>1. ASSUME NEW free \in Pids, free \notin Live, ForkInto(free), tail_pid' \in Pids,
             \A q \in Pids : q <= tail_pid' <=> q <= tail_pid \/ q = free
      PROVE  Live' = Live \cup {free, executing}
  <2>1. status' = [status EXCEPT ![executing] = "READY", ![free] = "EXECUTING"]
    BY <1>1 DEF ForkInto
  <2>2. executing \in Pids /\ executing <= tail_pid
    BY DEF TypeOK, InUse
  <2>3. ASSUME NEW q \in Pids
        PROVE  (status'[q] \in Alive) = (status[q] \in Alive \/ q \in {free, executing})
    BY <2>1, <2>2 DEF Alive, TypeOK
  <2> QED BY <1>1, <2>2, <2>3 DEF Live, LiveIn, InUse
<1>2. CASE Empty # {} /\ ForkInto(find_empty_pcb) /\ UNCHANGED tail_pid
  <2>1. /\ find_empty_pcb \in Pids /\ find_empty_pcb <= tail_pid
        /\ find_empty_pcb \notin Live
    BY <1>2, EmptyPicked DEF Empty, InUse, Live, LiveIn, Alive
  <2> QED BY <1>1, <1>2, <2>1
<1>3. CASE tail_pid + 1 \in Pids /\ ForkInto(tail_pid + 1) /\ tail_pid' = tail_pid + 1
  <2>1. \A q \in Pids : q <= tail_pid + 1 <=> q <= tail_pid \/ q = tail_pid + 1
    BY DEF Pids, TypeOK
  <2>2. tail_pid + 1 \notin Live
    BY KernelAssumption DEF Live, LiveIn, InUse, TypeOK
  <2> QED BY <1>1, <1>3, <2>1, <2>2
<1> QED BY <1>2, <1>3 DEF Fork

LEMMA BooksFork ==
  ASSUME TypeOK, BooksInv, Fork
  PROVE  BooksInv'
<1>1. IsFiniteSet(Live) /\ tail_pid \in Pids /\ executing \in Live
  BY PidsFinite, FS_Subset DEF Live, LiveIn, InUse, BooksInv, Books
<1>2. PICK free \in Pids \ Live :
        ForkInto(free) /\ Live' = Live \cup {free} /\ tail_pid' \in Pids
  <2>1. \A free : Live \cup {free, executing} = Live \cup {free}
    BY <1>1
  <2> QED BY <1>1, <2>1, ForkLive
<1>3. /\ executing' = free /\ progs_running' = progs_running + 1
      /\ status' = [status EXCEPT ![executing] = "READY", ![free] = "EXECUTING"]
  BY <1>2 DEF ForkInto
<1>4. Cardinality(Live') = progs_running'
  BY <1>1, <1>2, <1>3, FS_AddElement DEF BooksInv, Books
<1>5. status'[executing'] = "EXECUTING"
  BY <1>2, <1>3 DEF TypeOK
<1> QED BY <1>2, <1>3, <1>4, <1>5 DEF BooksInv, Books

LEMMA BooksNext == TypeOK /\ BooksInv /\ [WellUsedNext]_vars => BooksInv'
<1> SUFFICES ASSUME TypeOK, BooksInv, [WellUsedNext]_vars PROVE BooksInv'
  OBVIOUS
<1>0. /\ status \in [Pids -> Statuses] /\ tail_pid \in Pids
      /\ progs_running = Cardinality(LiveIn(status))
      /\ 0 \in LiveIn(status) /\ executing \in LiveIn(status)
      /\ status[executing] = "EXECUTING"
  BY DEF BooksInv, Books, TypeOK, Statuses, Live
<1>1. CASE TimerIRQ \/ Yield
  BY <1>0, <1>1, BooksScheduler DEF TimerIRQ, Yield
<1>2. CASE MayEnd(executing) /\ Exit
  BY <1>0, <1>2, BooksEnding DEF Exit, Live
<1>3. ASSUME NEW p \in InUse, MayEnd(p), Kill(p) PROVE BooksInv'
  <2>1. CASE status[p] \in Alive
    BY <1>3, <2>1, BooksEnding DEF Kill, Live, LiveIn
  <2>2. CASE status[p] \notin Alive
    BY <1>3, <2>2 DEF Kill, table, BooksInv, Books, Live, LiveIn, InUse
  <2> QED BY <2>1, <2>2
<1>4. CASE Fork
  BY <1>4, BooksFork
<1>5. CASE \/ GetPid \/ UNCHANGED vars
           \/ \E n \in Lengths : Write(n)
           \/ \E image \in Images : Exec(image)
           \/ \E mode \in 0 .. 2 : SwitchSched(mode)
           \/ \E depth \in Depths, content \in Contents : UserStep(depth, content)
  <2>1. UNCHANGED <<tail_pid, executing, progs_running, status>>
    BY <1>5 DEF GetPid, Write, Exec, SwitchSched, UserStep, table, vars
  <2> QED BY <2>1 DEF BooksInv, Books, Live, LiveIn, InUse
<1> QED BY <1>1, <1>2, <1>3, <1>4, <1>5 DEF WellUsedNext

LEMMA BooksInit == Init => BooksInv
<1> SUFFICES ASSUME Init PROVE BooksInv
  OBVIOUS
<1>1. 0 \in Pids
  BY KernelAssumption DEF Pids
<1>2. Live = {0}
  BY <1>1 DEF Init, Live, LiveIn, InUse, Pids, Alive
<1> QED BY <1>1, <1>2, FS_Singleton DEF Init, BooksInv, Books

\* A well used kernel counts its live processes right and runs one of them, for
\* every table and every sequence of calls (hilevel.c:104, 256, 264, 300).
THEOREM BooksBalance == WellUsedSpec => []Books
<1>1. Init => BooksInv
  BY BooksInit
<1>2. TypeOK /\ BooksInv /\ [WellUsedNext]_vars => TypeOK' /\ BooksInv'
  BY TypeNext, BooksNext, WellUsedIsNext DEF BooksInv
<1>3. BooksInv => Books
  BY DEF BooksInv
<1> QED BY <1>1, <1>2, <1>3, TypeInit, PTL DEF WellUsedSpec

-----------------------------------------------------------------------------
(***************************************************************************)
(* Stack pointers.  fork relocates the sp the parent had when it was last  *)
(* set aside, so that one has to be in the parent's stack as well, also    *)
(* while the parent runs with another.                                     *)
(***************************************************************************)
InStack(p, sp) == stack_top[p] - sp \in 0 .. STACK_SIZE
SpInv == InStack(executing, ctx.sp) /\ \A p \in Live : InStack(p, saved[p].sp)

\* The scheduler exchanges registers and moves no stack.
LEMMA SpScheduler ==
  ASSUME TypeOK, BooksInv, BooksInv', SpInv, NEW st, NEW n, NEW c \in Contexts,
         c.sp = ctx.sp, scheduler(st, n, c), Live' \subseteq Live
  PROVE  SpInv'
<1>1. /\ executing \in Live /\ executing \in Pids /\ executing' \in Live
      /\ stack_top' = stack_top /\ saved \in [Pids -> Contexts]
  BY DEF BooksInv, Books, TypeOK, InUse, scheduler, table
<1>2. Live \subseteq Pids
  BY DEF Live, LiveIn, InUse
<1>3. CASE SwitchTo(Choice(LiveIn(st)), st, c)
  <2>1. /\ saved' = [saved EXCEPT ![executing] = c]
        /\ ctx' = saved'[executing']
    BY <1>3 DEF SwitchTo
  <2>2. \A p \in Live : InStack(p, saved'[p].sp)
    BY <1>1, <1>2, <2>1 DEF SpInv
  <2> QED BY <1>1, <2>1, <2>2 DEF SpInv, InStack
<1>4. CASE ctx' = c /\ UNCHANGED <<executing, saved>>
  BY <1>1, <1>4 DEF SpInv, InStack
<1> QED BY <1>3, <1>4 DEF scheduler

LEMMA SpFork ==
  ASSUME TypeOK, BooksInv, SpInv, Fork
  PROVE  SpInv'
<1>1. ASSUME NEW free \in Pids, free \notin Live, ForkInto(free),
             \A q \in Pids : q <= tail_pid' => q <= tail_pid \/ q = free
      PROVE  SpInv'
  <2>1. executing \in Live /\ executing \in Pids /\ executing # free /\ Live \subseteq Pids
    BY <1>1 DEF BooksInv, Books, TypeOK, Live, LiveIn, InUse
  <2> DEFINE child == ChildContext(free)
             offset == stack_top[executing] - saved[executing].sp
  <2>2. StackTop(free) \in Int /\ offset \in 0 .. STACK_SIZE
    BY <2>1, TopsAreInts DEF SpInv, InStack
  <2>3. child.sp = StackTop(free) - offset
    BY <2>1, <2>2 DEF ChildContext, Cleared, TypeOK, Contexts
  <2>4. StackTop(free) - child.sp \in 0 .. STACK_SIZE
    BY <2>2, <2>3
  <2>5. Result(free).sp = ctx.sp
    BY DEF Result, TypeOK, Contexts
  <2> HIDE DEF child, offset
  <2>6. /\ executing' = free
        /\ stack_top' = [stack_top EXCEPT ![free] = StackTop(free)]
        /\ saved' = [saved EXCEPT ![free] = child, ![executing] = Result(free)]
        /\ ctx' = saved'[free]
        /\ status' = [status EXCEPT ![executing] = "READY", ![free] = "EXECUTING"]
    BY <1>1 DEF ForkInto, Paused, child
  <2>7. saved \in [Pids -> Contexts] /\ stack_top \in [Pids -> Tops] /\ status \in [Pids -> Statuses]
    BY DEF TypeOK, Statuses
  <2>8. /\ saved'[free] = child /\ saved'[executing] = Result(free)
        /\ \A p \in Pids \ {free, executing} : saved'[p] = saved[p]
        /\ stack_top'[free] = StackTop(free)
        /\ \A p \in Pids \ {free} : stack_top'[p] = stack_top[p]
    BY <2>1, <2>6, <2>7
  <2>9. Live' \subseteq Live \cup {free}
    <3>1. ASSUME NEW p \in Pids, p # free, status'[p] \in Alive PROVE status[p] \in Alive
      BY <2>1, <2>6, <2>7, <3>1 DEF Live, LiveIn
    <3> QED BY <1>1, <3>1 DEF Live, LiveIn, InUse
  <2>10. ASSUME NEW p \in Live' PROVE InStack(p, saved[p].sp)'
    <3>1. CASE p = free
      BY <2>4, <2>8, <3>1 DEF InStack
    <3>2. CASE p = executing
      BY <2>1, <2>5, <2>8, <3>2 DEF InStack, SpInv
    <3>3. CASE p # free /\ p # executing
      BY <2>1, <2>8, <2>9, <3>3 DEF InStack, SpInv
    <3> QED BY <3>1, <3>2, <3>3
  <2> QED BY <2>4, <2>6, <2>8, <2>10 DEF SpInv, InStack
<1>2. CASE Empty # {} /\ ForkInto(find_empty_pcb) /\ UNCHANGED tail_pid
  <2>1. find_empty_pcb \in Pids /\ find_empty_pcb \notin Live
    BY <1>2, EmptyPicked DEF Empty, InUse, Live, LiveIn, Alive
  <2> QED BY <1>1, <1>2, <2>1
<1>3. CASE tail_pid + 1 \in Pids /\ ForkInto(tail_pid + 1) /\ tail_pid' = tail_pid + 1
  <2>1. \A q \in Pids : q <= tail_pid + 1 => q <= tail_pid \/ q = tail_pid + 1
    BY DEF Pids, TypeOK
  <2>2. tail_pid + 1 \notin Live
    BY KernelAssumption DEF Live, LiveIn, InUse, TypeOK
  <2> QED BY <1>1, <1>3, <2>1, <2>2
<1> QED BY <1>2, <1>3 DEF Fork

LEMMA SpNext ==
  TypeOK /\ BooksInv /\ SpInv /\ [WellUsedNext]_vars => SpInv'
<1> SUFFICES ASSUME TypeOK, BooksInv, SpInv, [WellUsedNext]_vars PROVE SpInv'
  OBVIOUS
<1>0. /\ BooksInv' /\ ctx \in Contexts /\ executing \in Live
      /\ stack_top \in [Pids -> Int]
  BY BooksNext, TopsAreInts DEF TypeOK, BooksInv, Books
<1>1. CASE TimerIRQ \/ Yield
  <2>1. scheduler(status, progs_running, ctx)
    BY <1>1 DEF TimerIRQ, Yield
  <2>2. Live' = Live
    BY <2>1, BooksScheduler DEF BooksInv, Books, TypeOK, Statuses, Live
  <2> QED BY <1>0, <2>1, <2>2, SpScheduler
<1>2. CASE MayEnd(executing) /\ Exit
  BY <1>0, <1>2, BooksEnding, SpScheduler DEF Exit
<1>3. ASSUME NEW p \in InUse, MayEnd(p), Kill(p) PROVE SpInv'
  <2>1. \A r \in Int : Result(r) \in Contexts /\ Result(r).sp = ctx.sp
    BY <1>0, ResultType DEF Result, Contexts
  <2>2. CASE status[p] \in Alive
    <3>1. scheduler([status EXCEPT ![p] = "TERMINATED"], OneLess, Result(1)) /\ p \in Live
      BY <1>3, <2>2 DEF Kill, Live, LiveIn
    <3> QED BY <1>0, <1>3, <2>1, <3>1, BooksEnding, SpScheduler
  <2>3. CASE status[p] \notin Alive
    BY <1>3, <2>1, <2>3 DEF Kill, table, SpInv, InStack, Live, LiveIn, InUse
  <2> QED BY <2>2, <2>3
<1>4. CASE Fork
  BY <1>4, SpFork
<1>5. ASSUME ctx'.sp = ctx.sp, UNCHANGED <<tail_pid, executing, status, stack_top, saved>>
      PROVE  SpInv'
  BY <1>5 DEF SpInv, InStack, Live, LiveIn, InUse
<1>6. CASE \/ GetPid \/ UNCHANGED vars
           \/ \E n \in Lengths : Write(n)
           \/ \E mode \in 0 .. 2 : SwitchSched(mode)
  BY <1>0, <1>5, <1>6 DEF GetPid, Write, SwitchSched, Result, Contexts, table, vars
<1>7. ASSUME NEW depth \in 0 .. STACK_SIZE, ctx'.sp = stack_top[executing] - depth,
             UNCHANGED <<tail_pid, executing, status, stack_top, saved>>
      PROVE  SpInv'
  <2>1. stack_top[executing] \in Int
    BY <1>0 DEF Live, LiveIn, InUse
  <2>2. stack_top[executing] - (stack_top[executing] - depth) = depth
    BY <2>1
  <2> QED BY <1>7, <2>2 DEF SpInv, InStack, Live, LiveIn, InUse
<1>8. ASSUME NEW image \in Images, Exec(image) PROVE SpInv'
  <2>1. ctx'.sp = stack_top[executing] - 0
    BY <1>0, <1>8 DEF Exec, Contexts, Live, LiveIn, InUse
  <2>2. 0 \in 0 .. STACK_SIZE
    BY KernelAssumption
  <2> QED BY <1>7, <1>8, <2>1, <2>2 DEF Exec
<1>9. ASSUME NEW depth \in Depths, NEW content \in Contents, UserStep(depth, content)
      PROVE  SpInv'
  <2>1. ctx'.sp = stack_top[executing] - depth /\ depth \in 0 .. STACK_SIZE
    BY <1>0, <1>9, KernelAssumption DEF UserStep, Contexts
  <2> QED BY <1>7, <1>9, <2>1 DEF UserStep, table
<1> QED BY <1>1, <1>2, <1>3, <1>4, <1>6, <1>8, <1>9 DEF WellUsedNext

\* In a well used kernel the stack pointer of every live process is in its own
\* stack, running or set aside (hilevel.c:117, 123, 238-243, 287).
THEOREM StackPointersHome == WellUsedSpec => []SpInOwnStack
<1>1. Init => BooksInv
  BY BooksInit
<1>2. Init => SpInv
  <2> SUFFICES ASSUME Init PROVE SpInv
    OBVIOUS
  <2>1. 0 \in Pids /\ Live \subseteq {0}
    BY KernelAssumption DEF Init, Live, LiveIn, InUse, Pids
  <2> QED BY <2>1, KernelAssumption DEF Init, SpInv, InStack, BootContext
<1>3. TypeOK /\ BooksInv /\ [WellUsedNext]_vars => TypeOK' /\ BooksInv'
  BY TypeNext, BooksNext, WellUsedIsNext DEF BooksInv
<1>4. SpInv => SpInOwnStack
  BY DEF SpInv, InStack, SpInOwnStack, Registers
<1> QED BY <1>1, <1>2, <1>3, <1>4, TypeInit, SpNext, PTL DEF WellUsedSpec

-----------------------------------------------------------------------------
(***************************************************************************)
(* The kernel, used as it expects, implements VirtualProcessors: for every *)
(* size of the table and every set of programs, each step of it is one of  *)
(* theirs or changes nothing they see.                                     *)
(***************************************************************************)
\* The scheduler sets the registers c of the process that runs aside, and no
\* others, whichever process it loads.
LEMMA SchedulerRegisters ==
  ASSUME TypeOK, NEW st \in [Pids -> Statuses], NEW n, NEW c,
         scheduler(st, n, c), NEW p \in Pids
  PROVE  Registers(p)' = IF p = executing THEN c ELSE Registers(p)
<1>1. CASE n > 1 /\ SwitchTo(Choice(LiveIn(st)), st, c)
  <2>1. Choice(LiveIn(st)) \in Pids
    BY ChoiceInUse DEF LiveIn
  <2>2. executing \in Pids /\ saved \in [Pids -> Contexts]
    BY DEF TypeOK, InUse
  <2>3. Registers(p)' = saved'[p]
    BY <1>1, <2>1 DEF SwitchTo, Registers
  <2> QED
    BY <1>1, <2>2, <2>3 DEF SwitchTo, Registers
<1>2. CASE UNCHANGED <<executing, saved>> /\ ctx' = c
  BY <1>2 DEF Registers
<1> QED
  BY <1>1, <1>2 DEF scheduler

LEMMA SwitchVirtual ==
  ASSUME TypeOK, BooksInv, TimerIRQ \/ Yield
  PROVE  Virtual!Switch
<1>1. scheduler(status, progs_running, ctx) /\ status \in [Pids -> Statuses]
  BY DEF TimerIRQ, Yield, TypeOK, Statuses
<1>2. /\ progs_running = Cardinality(LiveIn(status)) /\ 0 \in LiveIn(status)
      /\ executing \in LiveIn(status) /\ status[executing] = "EXECUTING"
      /\ tail_pid \in Pids
  BY DEF BooksInv, Books, Live
<1>3. BooksInv' /\ Live' = Live
  BY <1>1, <1>2, BooksScheduler DEF Live
<1>4. \A p \in Live : Registers(p)' = Registers(p)
  BY <1>1, SchedulerRegisters DEF Registers, Live, LiveIn, InUse
<1>5. executing' \in Live'
  BY <1>3 DEF BooksInv, Books
<1> QED
  BY <1>3, <1>4, <1>5 DEF Virtual!Switch, Virtual!Dispatch

\* A process ends: itself, or another one, which is told so.
LEMMA EndVirtual ==
  ASSUME TypeOK, BooksInv, NEW p \in Live, MayEnd(p), NEW c,
         scheduler([status EXCEPT ![p] = "TERMINATED"], OneLess, c),
         p # executing => c = Result(1)
  PROVE  Virtual!Next
<1>1. BooksInv' /\ Live' = Live \ {p}
  BY BooksEnding
<1>2. executing \in Live /\ executing' \in Live'
  BY <1>1 DEF BooksInv, Books
<1>3. ASSUME NEW q \in Live
      PROVE  Registers(q)' = IF q = executing THEN c ELSE Registers(q)
  <2>1. q \in Pids /\ [status EXCEPT ![p] = "TERMINATED"] \in [Pids -> Statuses]
    BY DEF Live, LiveIn, InUse, TypeOK, Statuses
  <2> QED
    BY <2>1, SchedulerRegisters
<1>4. CASE p = executing
  BY <1>1, <1>2, <1>3, <1>4 DEF Virtual!Next, Virtual!Leave, Virtual!Dispatch, Virtual!Keep
<1>5. CASE p # executing
  <2>1. c = [Registers(executing) EXCEPT !.r0 = 1]
    BY <1>5 DEF Registers, Result
  <2>2. Virtual!EndOther
    BY <1>1, <1>2, <1>3, <1>5, <2>1 DEF Virtual!EndOther, Virtual!Dispatch, Virtual!Keep
  <2> QED
    BY <2>2 DEF Virtual!Next
<1> QED
  BY <1>4, <1>5

\* A step of the process that runs is its own business.
LEMMA RunVirtual ==
  ASSUME BooksInv, UNCHANGED <<tail_pid, status, executing, saved>>
  PROVE  Virtual!Run
<1>1. Live' = Live
  BY DEF Live, LiveIn, InUse
<1>2. \A p \in Live \ {executing} : Registers(p)' = Registers(p)
  BY DEF Registers
<1> QED
  BY <1>1, <1>2 DEF Virtual!Run, Virtual!Keep

\* fork returns twice: to the parent with the child's pid, and to the child, in
\* the same program, with 0; nobody else notices.
LEMMA ForkRegisters ==
  ASSUME TypeOK, executing \in Live, NEW free \in Pids \ Live, ForkInto(free)
  PROVE  /\ \A q \in Live : Registers(q)' = IF q = executing
                                          THEN [Registers(q) EXCEPT !.r0 = free]
                                          ELSE Registers(q)
         /\ Registers(free)'.pc = ctx.pc /\ Registers(free)'.r0 = 0
<1>1. /\ executing \in Pids /\ executing # free
      /\ saved \in [Pids -> Contexts] /\ ctx \in Contexts
  BY DEF Live, LiveIn, InUse, TypeOK
<1>2. /\ executing' = free /\ ctx' = saved'[free]
      /\ saved' = [saved EXCEPT ![free] = ChildContext(free), ![executing] = Result(free)]
  BY DEF ForkInto, Paused
<1>3. ctx' = ChildContext(free)
  BY <1>1, <1>2
<1>4. Registers(free)'.pc = ctx.pc /\ Registers(free)'.r0 = 0
  BY <1>1, <1>2, <1>3 DEF Registers, ChildContext, Contexts
<1>5. ASSUME NEW q \in Live
      PROVE  Registers(q)' = IF q = executing THEN [Registers(q) EXCEPT !.r0 = free]
                                              ELSE Registers(q)
  <2>1. q \in Pids /\ q # free
    BY DEF Live, LiveIn, InUse
  <2>2. Registers(q)' = saved'[q]
    BY <1>2, <2>1 DEF Registers
  <2>3. saved'[q] = IF q = executing THEN Result(free) ELSE saved[q]
    BY <1>1, <1>2, <2>1
  <2> QED BY <2>2, <2>3 DEF Registers, Result
<1> QED BY <1>4, <1>5

\* Whoever forks, alive or not: no other process changes its image, and the child
\* begins in that of the caller.
LEMMA ForkImages ==
  ASSUME TypeOK, NEW free \in Pids, ForkInto(free)
  PROVE  /\ \A q \in Pids \ {free} : Registers(q)'.pc = Registers(q).pc
         /\ Registers(free)'.pc = ctx.pc
<1>1. executing \in Pids /\ saved \in [Pids -> Contexts] /\ ctx \in Contexts
  BY DEF InUse, TypeOK
<1>2. /\ executing' = free /\ ctx' = saved'[free]
      /\ saved' = [saved EXCEPT ![free] = ChildContext(free), ![executing] = Result(free)]
  BY DEF ForkInto, Paused
<1>3. ChildContext(free).pc = ctx.pc /\ Result(free).pc = ctx.pc
  BY <1>1 DEF ChildContext, Result, Contexts
<1>4. \A q \in Pids : Registers(q)' = saved'[q]
  BY <1>2 DEF Registers
<1> QED BY <1>1, <1>2, <1>3, <1>4 DEF Registers

LEMMA ForkVirtual ==
  ASSUME TypeOK, BooksInv, Fork
  PROVE  Virtual!Fork
<1>1. executing \in Live /\ 0 \in Live /\ tail_pid \in Pids
  BY DEF BooksInv, Books
<1>2. PICK free \in Pids \ Live : ForkInto(free) /\ Live' = Live \cup {free}
  <2>1. \A free : Live \cup {free, executing} = Live \cup {free}
    BY <1>1
  <2> QED BY <1>1, <2>1, ForkLive
<1>3. \A q \in Live : Registers(q)' = IF q = executing
                                     THEN [Registers(q) EXCEPT !.r0 = free]
                                     ELSE Registers(q)
  BY <1>1, <1>2, ForkRegisters
<1>4. Registers(free)'.pc = Registers(executing).pc /\ Registers(free)'.r0 = 0
  <2>1. Registers(executing) = ctx
    BY DEF Registers
  <2> QED BY <1>1, <1>2, <2>1, ForkRegisters
<1>5. executing' = free /\ executing # free /\ free > 0 /\ \A q \in Live : q # free
  BY <1>1, <1>2 DEF ForkInto, Pids
<1> QED BY <1>1, <1>2, <1>3, <1>4, <1>5 DEF Virtual!Fork, Virtual!Keep

LEMMA VirtualNext ==
  TypeOK /\ BooksInv /\ [WellUsedNext]_vars => [Virtual!Next]_(Virtual!vars)
<1> SUFFICES ASSUME TypeOK, BooksInv, [WellUsedNext]_vars
             PROVE  [Virtual!Next]_(Virtual!vars)
  OBVIOUS
<1>1. CASE TimerIRQ \/ Yield
  BY <1>1, SwitchVirtual DEF Virtual!Next
<1>2. CASE MayEnd(executing) /\ Exit
  <2>1. executing \in Live
    BY DEF BooksInv, Books
  <2> QED
    BY <1>2, <2>1, EndVirtual DEF Exit
<1>3. ASSUME NEW p \in InUse, MayEnd(p), Kill(p)
      PROVE  [Virtual!Next]_(Virtual!vars)
  <2>1. CASE status[p] \in Alive
    BY <1>3, <2>1, EndVirtual DEF Kill, Live, LiveIn
  <2>2. CASE status[p] \notin Alive
    BY <1>3, <2>2, RunVirtual DEF Kill, table, Virtual!Next
  <2> QED BY <2>1, <2>2
<1>4. CASE Fork
  BY <1>4, ForkVirtual DEF Virtual!Next
<1>5. CASE \/ GetPid
           \/ \E n \in Lengths : Write(n)
           \/ \E image \in Images : Exec(image)
           \/ \E depth \in Depths, content \in Contents : UserStep(depth, content)
  <2>1. UNCHANGED <<tail_pid, status, executing, saved>>
    BY <1>5 DEF GetPid, Write, Exec, UserStep, table
  <2> QED BY <2>1, RunVirtual DEF Virtual!Next
<1>6. CASE UNCHANGED vars \/ \E mode \in 0 .. 2 : SwitchSched(mode)
  <2>1. UNCHANGED <<tail_pid, status, executing, saved, ctx>>
    BY <1>6 DEF vars, SwitchSched, table
  <2>2. Live' = Live /\ \A p \in Live : Registers(p)' = Registers(p)
    BY <2>1 DEF Live, LiveIn, InUse, Registers
  <2> QED BY <2>1, <2>2 DEF Virtual!vars
<1> QED BY <1>1, <1>2, <1>3, <1>4, <1>5, <1>6 DEF WellUsedNext

LEMMA VirtualInit == Init => Virtual!Init
<1> SUFFICES ASSUME Init PROVE Virtual!Init
  OBVIOUS
<1>1. Live = {0}
  BY KernelAssumption DEF Init, Live, LiveIn, InUse, Pids, Alive
<1>2. Registers(0) = BootContext
  BY DEF Init, Registers
<1> QED BY <1>1, <1>2 DEF Init, Virtual!Init

\* A kernel used as it expects gives every live process a processor of its own:
\* switching, forking and ending never mix up the registers of two processes,
\* whatever the size of the table (hilevel.c:101-128, 223-310).
THEOREM KernelImplementsVirtual == WellUsedSpec => VirtualSpec
<1>1. TypeOK /\ BooksInv /\ [WellUsedNext]_vars => TypeOK' /\ BooksInv'
  BY TypeNext, BooksNext, WellUsedIsNext DEF BooksInv
<1>2. Init => TypeOK /\ BooksInv
  BY TypeInit, BooksInit
<1> QED
  BY <1>1, <1>2, VirtualInit, VirtualNext, PTL DEF WellUsedSpec, VirtualSpec, Virtual!Spec
-----------------------------------------------------------------------------
(***************************************************************************)
(* The count and the live processes, whatever the processes do.            *)
(***************************************************************************)
\* The count exceeds the live processes by one at most, and one that executes
\* TERMINATED is alone in the count.
CountInv ==
  /\ progs_running - 1 <= Cardinality(Live)
  /\ executing \in Live \/ progs_running = 1

\* When the scheduler finds no fewer than n - 1 live processes, it takes one of
\* them in PRIORITY mode, and the one it takes is alive afterwards in both.
LEMMA CountScheduler ==
  ASSUME TypeOK, NEW st \in [Pids -> Statuses], NEW n \in Nat \ {0}, NEW c,
         n - 1 <= Cardinality(LiveIn(st)), scheduler(st, n, c)
  PROVE  CountInv' /\ (scheduler_mode = "PRIORITY" => Live' = LiveIn(st))
<1> DEFINE alive == LiveIn(st)
           next == Choice(alive)
<1>0. progs_running' = n /\ tail_pid' = tail_pid /\ InUse' = InUse
  BY DEF scheduler, table, InUse
<1>1. alive \in SUBSET InUse /\ alive \in SUBSET Pids
  BY DEF LiveIn, InUse
<1>2. CASE n > 1 /\ SwitchTo(next, st, c)
  <2>1. next \in Pids /\ next \in InUse
    BY <1>1, ChoiceInUse
  <2>2. scheduler_mode = "PRIORITY" => next \in alive
    <3>1. alive # {}
      <4>1. Cardinality(alive) # 0
        BY <1>1, <1>2, PartIsSmaller
      <4> QED BY <4>1, FS_EmptySet
    <3> QED BY <1>1, <3>1, Picked DEF Choice
  <2>3. status' = Marked(next, st) /\ executing' = next /\ executing \in Pids
    BY <1>2 DEF SwitchTo, TypeOK, InUse
  <2>4. Live' = alive \cup {next}
    <3>1. ASSUME NEW p \in Pids PROVE (status'[p] \in Alive) = (st[p] \in Alive \/ p = next)
      <4>1. CASE p = next
        BY <2>1, <2>3, <4>1 DEF Marked, Alive
      <4>2. CASE p # next /\ p = executing
        BY <2>1, <2>3, <4>2 DEF Marked, Alive, Statuses
      <4>3. CASE p # next /\ p # executing
        BY <2>1, <2>3, <4>3 DEF Marked
      <4> QED BY <4>1, <4>2, <4>3
    <3> QED BY <1>0, <2>1, <3>1 DEF Live, LiveIn, InUse
  <2>5. /\ Cardinality(alive) \in Nat /\ Cardinality(alive \cup {next}) \in Nat
        /\ Cardinality(alive) <= Cardinality(alive \cup {next})
    <3> HIDE DEF alive, next
    <3> QED BY <1>1, <2>1, PartIsSmaller
  <2> HIDE DEF alive, next
  <2>6. n - 1 <= Cardinality(Live')
    <3>1. n - 1 <= Cardinality(alive)
      BY DEF alive
    <3> QED BY <2>4, <2>5, <3>1
  <2> QED BY <1>0, <2>2, <2>3, <2>4, <2>6 DEF CountInv, alive
<1>3. CASE n <= 1 /\ status' = st
  BY <1>0, <1>3 DEF CountInv, Live, LiveIn
<1> QED BY <1>2, <1>3 DEF scheduler

\* Ending a process, which may be TERMINATED or its PCB not in use.
LEMMA CountEnding ==
  ASSUME TypeOK, CountInv, NEW p \in Pids, NEW c,
         scheduler([status EXCEPT ![p] = "TERMINATED"], OneLess, c)
  PROVE  CountInv' /\ (scheduler_mode = "PRIORITY" => Live' \subseteq Live)
<1> DEFINE st == [status EXCEPT ![p] = "TERMINATED"]
<1>1. st \in [Pids -> Statuses] /\ LiveIn(st) = Live \ {p}
  BY DEF TypeOK, Statuses, Live, LiveIn, InUse, Alive
<1>2. IsFiniteSet(Live) /\ Cardinality(Live) \in Nat /\ Cardinality(Live \ {p}) \in Nat
  BY PidsFinite, FS_Subset, FS_CardinalityType DEF Live, LiveIn, InUse
<1>3. OneLess \in Nat \ {0} /\ OneLess - 1 <= Cardinality(Live \ {p})
  <2>1. CASE p \in Live
    <3>1. Cardinality(Live \ {p}) = Cardinality(Live) - 1
      BY <1>2, <2>1, FS_RemoveElement
    <3> QED BY <1>2, <3>1 DEF OneLess, TypeOK, CountInv
  <2>2. CASE p \notin Live
    <3>1. Cardinality(Live \ {p}) = Cardinality(Live)
      <4>1. Live \ {p} = Live
        BY <2>2
      <4> QED BY <4>1
    <3> QED BY <1>2, <3>1 DEF OneLess, TypeOK, CountInv
  <2> QED BY <2>1, <2>2
<1>4. scheduler(st, OneLess, c)
  OBVIOUS
<1> HIDE DEF st
<1>5. CountInv' /\ (scheduler_mode = "PRIORITY" => Live' = LiveIn(st))
  BY <1>1, <1>3, <1>4, CountScheduler
<1> QED BY <1>1, <1>5

\* fork counts one more, and makes alive its PCB and the caller.
LEMMA CountFork ==
  ASSUME TypeOK, CountInv, tail_pid \in Pids, Fork
  PROVE  CountInv' /\ progs_running' = progs_running + 1
<1>1. PICK free \in Pids \ Live : /\ ForkInto(free)
                                  /\ Live' = Live \cup {free, executing}
  BY ForkLive
<1>2. progs_running' = progs_running + 1 /\ executing' = free
  BY <1>1 DEF ForkInto
<1>3. IsFiniteSet(Live) /\ Live \in SUBSET Pids /\ executing \in Pids
  BY PidsFinite, FS_Subset DEF Live, LiveIn, InUse, TypeOK
<1>4. /\ IsFiniteSet(Live \cup {free})
      /\ Cardinality(Live \cup {free}) = Cardinality(Live) + 1
  BY <1>1, <1>3, FS_AddElement
<1>5. /\ Cardinality(Live) \in Nat /\ Cardinality(Live') \in Nat
      /\ Cardinality(Live \cup {free}) <= Cardinality(Live')
  <2>1. Live' \in SUBSET Pids /\ Live \cup {free} \in SUBSET Live'
    BY <1>1, <1>3
  <2> QED BY <1>3, <2>1, PartIsSmaller
<1> QED BY <1>1, <1>2, <1>4, <1>5 DEF CountInv, TypeOK

\* What a step does to the count, and whom it brings to life.
LEMMA CountNext ==
  ASSUME TypeOK, CountInv, [Next]_vars
  PROVE  /\ CountInv'
         /\ scheduler_mode = "PRIORITY" /\ progs_running' <= progs_running
              => Live' \subseteq Live
<1>0. /\ status \in [Pids -> Statuses] /\ executing \in Pids
      /\ progs_running \in Nat \ {0} /\ Live = LiveIn(status)
  BY DEF TypeOK, Statuses, InUse, Live
<1>1. CASE TimerIRQ \/ Yield
  <2>1. scheduler(status, progs_running, ctx)
    BY <1>1 DEF TimerIRQ, Yield
  <2>2. progs_running - 1 <= Cardinality(LiveIn(status))
    BY DEF CountInv, Live
  <2> QED BY <1>0, <2>1, <2>2, CountScheduler
<1>2. CASE Exit
  BY <1>0, <1>2, CountEnding DEF Exit
<1>3. ASSUME NEW p \in Pids, Kill(p) PROVE CountInv' /\ (scheduler_mode = "PRIORITY" => Live' \subseteq Live)
  <2>1. CASE scheduler([status EXCEPT ![p] = "TERMINATED"], OneLess, Result(1))
    BY <2>1, CountEnding
  <2>2. CASE UNCHANGED <<table, executing, progs_running, status>>
    BY <2>2 DEF CountInv, Live, LiveIn, InUse, table
  <2> QED BY <1>3, <2>1, <2>2 DEF Kill
<1>4. CASE Fork /\ tail_pid \in Pids
  BY <1>0, <1>4, CountFork
<1>5. CASE ForkBeyondTable /\ tail_pid \in Pids
  <2>1. InUse' = InUse
    BY <1>5, KernelAssumption DEF ForkBeyondTable, InUse, Pids
  <2> QED BY <1>5, <2>1 DEF ForkBeyondTable, CountInv, Live, LiveIn
<1>6. CASE UNCHANGED <<tail_pid, executing, progs_running, status>>
  BY <1>6 DEF CountInv, Live, LiveIn, InUse
<1>7. ASSUME NEW image \in Images, Exec(image)
      PROVE  UNCHANGED <<tail_pid, executing, progs_running, status>>
  BY <1>7 DEF Exec
<1>8. ASSUME NEW n \in Lengths, Write(n)
      PROVE  UNCHANGED <<tail_pid, executing, progs_running, status>>
  BY <1>8 DEF Write, table
<1>9. ASSUME NEW mode \in 0 .. 2, SwitchSched(mode)
      PROVE  UNCHANGED <<tail_pid, executing, progs_running, status>>
  BY <1>9 DEF SwitchSched, table
<1>10. ASSUME NEW depth \in Depths, NEW content \in Contents, UserStep(depth, content)
       PROVE  UNCHANGED <<tail_pid, executing, progs_running, status>>
  BY <1>10 DEF UserStep, table
<1>11. CASE GetPid
  <2>1. UNCHANGED <<tail_pid, executing, progs_running, status>>
    BY <1>11 DEF GetPid, table
  <2> QED BY <1>6, <2>1
<1>12. CASE UNCHANGED vars
  <2>1. UNCHANGED <<tail_pid, executing, progs_running, status>>
    BY <1>12 DEF vars
  <2> QED BY <1>6, <2>1
<1> QED
  BY <1>1, <1>2, <1>3, <1>4, <1>5, <1>6, <1>7, <1>8, <1>9, <1>10, <1>11, <1>12
     DEF Next, Calls

LEMMA CountInit == Init => CountInv
<1> SUFFICES ASSUME Init PROVE CountInv
  OBVIOUS
<1>1. executing \in Live /\ progs_running = 1
  BY KernelAssumption DEF Init, Live, LiveIn, InUse, Pids, Alive
<1>2. Cardinality(Live) \in Nat
  BY PidsFinite, FS_Subset, FS_CardinalityType DEF Live, LiveIn, InUse
<1> QED BY <1>1, <1>2 DEF CountInv

\* Only fork makes a TERMINATED process live again, in PRIORITY mode
\* (hilevel.c:67, 104, 249-255).
THEOREM NobodyIsRevived == Spec => NobodyRevived
<1>1. TypeOK /\ CountInv /\ [Next]_vars
        => [scheduler_mode = "PRIORITY" /\ progs_running' <= progs_running
              => Live' \subseteq Live]_vars
  BY CountNext
<1>2. TypeOK /\ CountInv /\ [Next]_vars => TypeOK' /\ CountInv'
  BY TypeNext, CountNext
<1> QED BY <1>1, <1>2, TypeInit, CountInit, PTL DEF Spec, NobodyRevived
=============================================================================

# A TLA+ model of uob-kernel

`uob-kernel` is a teaching kernel for a Cortex-A8 under QEMU: a console, up to 32
processes in a table, a priority scheduler with ageing (and a round robin mode),
fork / exec / exit / kill, blocking channels between processes, with the dining
philosophers as the test of those channels, and a driver for a disk that a program
on the host serves. This directory models it in TLA+, checks the models with TLC
and proves most of what is checked with TLAPS. Paths below are relative to the
repository's `files/`.

## 1. Inventory

| Component | Code | State | Operations |
|---|---|---|---|
| Process table and scheduler | `kernel/hilevel.c` 20-128 | `pcb[32]` (pid, status, register file, age, base priority, stack top), `tail_pid`, `executing`, `progs_running`, `scheduler_mode` | `scheduler`, `find_next_proc`, `update_ages`, `next_alive_prog`, `find_empty_pcb` |
| Handlers | `kernel/hilevel.c` 135-464 | the above, and the live register file `ctx` | reset, timer IRQ; yield, write, fork, exit, exec, kill, getpid, switch_sched |
| Channels | `kernel/hilevel.c` 327-442 | `chan[64]`: two ends, connection count, a flag and a value per direction | chanend, send, receive, check, which_end |
| Low level entry | `kernel/lolevel.s`, `kernel/int.s`, `image.ld` | IRQ and SVC stacks, banked registers | save and restore of the registers of a process, argument of the C handlers |
| libc | `user/libc.c` | none | system call stubs; `send` and `receive`, which loop over several system calls; `atoi`, `itoa` |
| Console | `user/console.c` | a line buffer | `execute P` = fork, then exec in the child; `terminate n` = kill |
| Handshake | `user/P1.c`, `user/P2.c` | a received message | one message each way over channel 1 |
| Dining philosophers | `user/W.c`, `user/PH.c` | the waiter's list of forks; flags of each philosopher | forks and channels at start; ask / give / accept / reject |
| Disk | `device/disk.c`, `device/disk.py`, `device/PL011.c` | the disk image; a request and an acknowledgement on the line | two queries, write and read of a block, each with three attempts |
| Compute programs | `user/P3.c` `P4.c` `P5.c` | locals | `weight`, `gcd`, `is_prime` between writes |
| Other devices | `device/` | register addresses | none that is called |

How they interact: a program traps into the kernel through a libc stub; the
kernel runs the handler with IRQs masked and returns to whichever process is then
current; the timer interrupts user code about ten times a second and calls the
scheduler. Processes share nothing except channels. The console, a process like
any other, starts and ends the others. The disk driver is a library that no
program of this commit calls: its model has one caller, which calls anything.

What is hard: preemption between any two system calls of a library routine;
processes that end in the middle of one, and PCBs, pids and with them channel ends
that are used again; four pieces of state (`status`, `executing`, `progs_running`,
`age`) that several handlers change and that have to stay consistent; starvation
under ageing with ties; register files copied in three C handlers and taken off
the stack of a mode in assembly; message flags polled by two sides; a request
protocol without sequence numbers, in which an answer of unexpected length would
be taken for the next one. `hazards` in `PROJECT.json` lists each at its line, with
the properties about it.

What makes each component correct:

- *table and scheduler*: the counters agree with the statuses; at most the
  current PCB is `EXECUTING`; ages are bounded; every live process is served;
- *fork, exec, exit, kill*: registers are never mixed up, stacks are disjoint and
  each process stays in its own;
- *low level entry*: no register of a process is lost on the way in or out, and the
  kernel's own stacks are empty when a process runs;
- *channels*: a message is neither lost nor overwritten, both sides return, a
  third process has no influence;
- *handshake*: both messages arrive, whatever the console does meanwhile, and both
  programs of a pair that is left alone end;
- *dining philosophers*: neighbours never hold the same fork, nobody starves;
- *disk*: the two sides together are an array of blocks; requests and
  acknowledgements stay paired, and calls return.

## 2. Modules

| Module | What it is |
|---|---|
| `Kernel` | table, scheduler and handlers; one action per handler |
| `KernelProperties` | what they keep, under three kinds of use (section 3) |
| `VirtualProcessors` | abstract specification: a processor for each live process |
| `SchedulerLoops` | the three searches of the table, one step per iteration |
| `LowLevel` | exception entry, `lolevel.s` and `int.s`: banked registers and stacks |
| `Channels` | channel handlers; libc's `send` and `receive`, one step per system call |
| `ChannelUse` | arbitrary use of channels, by processes that end at any time |
| `Handshake` | `P1` and `P2` over `Channels`, started and ended at any time |
| `System` | `Handshake` composed with `Kernel`: console, scheduler, programs, channel |
| `DiningTable` | abstract specification: neighbours do not eat together |
| `Dining` | `W` and `PH` over `Channels`, a refinement of `DiningTable` |
| `PL011` | the hexadecimal functions of the UART driver, and Python's |
| `Disk` | `disk.c` and `disk.py` over two UART streams |
| `BlockStore` | abstract specification: an array of blocks, as `disk.h` promises |
| `KernelProofs`, `SchedulerLoopsProofs`, `LowLevelProofs`, `ChannelsProofs` (lemmas), `ChannelUseProofs`, `SystemProofs` (`Handshake` and `System`), `DiningProofs`, `DiskProofs` | the TLAPS proofs |
| `MC*` | constants for TLC |

Operators whose names end in `_slip` are their successors with a plausible
mistake; nothing uses them. They show, when put in place of the right definition,
that each property can fail.

### Kernel

C globals keep their names; `pcb[i].f` is `f[i]`, and `pcb[i].ctx` is `saved[i]`.
`ctx` is the register file `lolevel.s` passes to a handler. A handler is one
action because it runs with IRQs masked from its first instruction to its last
(`lolevel.s` never clears the I bit; the reset handler does, before any process
runs). `TimerIRQ` may happen between any two actions, which is where preemption is.

Register files keep `pc` (the program image), `sp` and `r0`; a stack is one token
in `mem`, indexed by the address of its top. Addresses are kept, because what fork
does with them matters: `&tos_procs` is a `uint32_t*`, so a stack top moves by
`4 * STACK_SIZE` per process, and `memset` clears `stack_top` before the stack copy
reads it, so the copy goes below address 0 (where the board has no memory).
`UserStep` is the program itself: its stack pointer moves within its stack and it
leaves something there.

Two kinds of undefined behaviour are at the edge of the model. `fork` with the
table full writes `pcb[NUM_PCBS]`: `ForkBeyondTable` records the index and nothing
happens afterwards (what follows depends on what the linker put there). `kill` of
a pid that is no index of the table is left out.

### Low level

`LowLevel` is what lets `Kernel` treat a handler as one action on `ctx`. The
processor has one set of general registers, and a `sp`, `lr` and `spsr` per mode;
`stack` is the memory of the two kernel stacks, in words from their top, with the
15 words of `{ r0-r12, sp, lr }^` as one block. A handler is `Save`, `Pass`, the C function (`Reset`,
`Handle`) and `Restore`, which are the groups of instructions of `lolevel.s`; the C
function leaves in the frame what it was given, or another context (a switch), and
anything in the registers it may use. `Trap` needs an instruction after the svc;
`Abort` is each of the vectors of `int.s` that loop. `Ctx` says where the registers of
the process are at any moment, and `Transparent` that nothing but the process and
the C function changes them.

Left out: the copy of the vector table, done before anything else, and an interrupt
in the last instructions of the reset handler, which enables them while it is
itself in IRQ mode; the timer has just been loaded with 2^20 ticks.

### Channels

A library call is not atomic. `send` is: set the message (a system call), ask
whether it is there, then poll until it is gone; `receive` polls until there is
just a message for it, then takes it. Each of these system calls is a step, and
the process's place is in `call[p]`. Three calls are not steps: `getpid` and
`which_end` read what stays as it is for the caller (property `EndsStay` of
`ChannelUse` is the reason), and `yield` changes no channel. A poll that fails is no
step, since the process would be where it was.

No handler tells the channels that a process has ended. `Abandon` is such an end, at
any point of a library call, and the pid may then run something else: a channel
compares ends by pid, so the new process inherits the end, and what waits on it.

### Handshake and System

In `Handshake` any process runs `P1` or `P2`, is killed at any time and is told to run
either again. `System` is where that comes from: the state of `Kernel` and of
`Handshake` side by side. A shell, which is a process in the image of the console,
forks (`Execute`), its child calls exec (`Child`), a shell kills (`Terminate`); a program takes a
step of `Handshake` while `executing` is its pid (`Run`); a look at the channel that finds
nothing ends in the kernel's `Yield` (`Poll`); and the timer interrupts.

`exit` is the step that needs care, because it may return: when the kernel counts one
program after it, the scheduler does nothing and the caller, `TERMINATED`, goes on (the
finding `finding_exit`). So `Run` joins a program's exit with the kernel's `Exit`, and
whether the program is gone or goes on is what the kernel decides: it is gone if
another PCB executes. What goes on:

- a refused program (`Refused` to "refused") goes on with `send` and `receive` over
  channel -1, gets -1 from both, and comes to its last exit (`Onward`, then "unserved").
  Of `chan[-1]` see section 6;
- a program at its last exit ("exited", "unserved") returns to its caller. exec has set
  `pc` and `sp` and left `lr`, so this is the place in `main_console` after the call of
  `exec` (console.c:110), on the program's own stack: the process is a second shell
  (`FallBack`, which is `Leave` of `Handshake`). It may kill, and fork: its own PCB is
  `TERMINATED`, so fork may give it to the child, and otherwise fork makes it `READY`, with
  two live processes more and one more in `progs_running`.

So in `System` `progs_running` may be too small, and then the scheduler may stop switching
with several processes alive. `Counted` says that it is right.

`ProgramsSpec` is what remains of the idea of a processor for each program: every step is
one of `Handshake`'s `Spec`, whatever has been counted, and a program that can go on does,
provided that from some time on the count stays right (weak fairness of `Counted /\
Proc(p)`). `Terminates` has the same condition, at the time when the pair is connected.
`Coupled` relates the two halves of the state: a process in the middle of a program has
its registers, live or set aside, in that program, and its PCB is alive, unless it was
refused and its exit has returned; and no other process has a program's image, except one
that executes, `TERMINATED`, after its last exit.

`Exchanged` says that a program that got an end and is at its last exit has the other
one's message. It holds for every mixture of starts, kills and reused pids, and not for
an obvious reason: a second `P2` can find the end, the flags and the message of one that
was killed. `Terminates` is weaker: a connected pair ends as long as nobody is killed.
Neither a program whose partner is terminated nor one of two `P1`s on the channel ends:
they poll for ever, and no property says otherwise.

### Dining

Philosopher `i` has pid `W + 1 + i`, as it has after boot, and its three local flags
are one, being always set together. These flags become true some steps after the
waiter's acceptance has been received, and become false some steps after the forks
have been given back, so that *mutual exclusion is false of the flags alone*: TLC
finds a philosopher whose neighbour's flag is still up. What holds is mutual
exclusion of holding: from receiving an acceptance of `FORK_WANT` to receiving one
of `FORK_RET`. `Holds` is the refinement mapping.

Left out: a second execution of DPP in one boot. The channels of the first are never
freed, `chanend` answers -1, and the waiter, which does not check, goes on with
`chan[-1]`.

### Disk

The driver and the server share two UART streams. The server reads a line before
it looks at it, so a request is one message, `tx`. The driver reads as many
characters as it expects, whatever arrives, so the other direction is a FIFO of
characters, `rx`, and an answer of another length than expected would leave
characters for the next attempt. Characters are ASCII codes and the conversions are
those of the code, because the two sides write digits in different case, and the
driver sends a word byte by byte where the server unpacks a signed one.

`os.read` and `os.write` may be short (`Wr`, `Rd`): a short write leaves a block half new.
A request is refused (`Refuse`), or kills the server (`Die`) when an address is negative
once signed or when a write has no data, for `strip` then removes the separator and the
third field is missing. The comments of `disk.py` (26-27, 53) say of both that the request
fails. `Returns` leaves these calls (`Fatal`) out, and `Line` allows a dead server for
them. The driver has no timeout: after that its call never returns.
`BlockStore` is what remains for the caller: a call that succeeds has done what it
says, one that fails has at most overwritten some bytes of the block it was to write.
`Line` says what is on the line: nothing while the driver is at rest, and otherwise a
request the server is still to read or an acknowledgement of just the length the
driver reads, which answers the request that was sent.

Preconditions: a read asks for as many bytes as a block has, which `disk_rd` does not
check (any other length puts the two sides out of step for good); the line loses
nothing, and `putc` does not wait.

## 3. Under which use

The kernel checks few of the calls made to it, so properties of `KernelProperties`
come in groups, by specification:

- `Spec`: any process makes any call. Types, marks, ages and stacks hold
  even so, and nobody but fork brings a process back.
- `WellUsedSpec`: kill names a PCB in use that is not the console's, a process ends
  itself only while two others remain, and a fork finds room. Then the books agree,
  stack pointers stay at home and the kernel implements `VirtualProcessors`. The
  console has no exit and no user of the console has a reason to kill it; the other
  conditions are what the findings show to be needed.
- `FairSpec`: `WellUsedSpec` in PRIORITY mode with weak fairness of `TimerIRQ`.
- `ProgramSpec`: the calls the programs of `user/` do make, in their order. The
  findings are behaviours of this specification.

`System` does not assume `WellUsedSpec`: its programs exit when they come to their end,
also when only the console is left, and go on where that exit returns. It assumes room
for a fork, and that a shell names a live process other than the console.

## 4. Runs

Every run finishes within about three minutes.

| Run | Instance | States | Shows |
|---|---|---|---|
| `kernel_any_calls` | 3 PCBs, 2 images, view `SchedView` | 66,956 | `TypeOK`, `OneExecuting`, `AgeBound`, `PassedOver`, `NobodyRevived`, `StacksDisjoint` under any calls |
| `kernel_virtual` | 3 PCBs, 1 image | 657,110 | refinement of `VirtualProcessors` (`VirtualSpec`), `Books`, `SpInOwnStack` under good use |
| `kernel_served` | 3 PCBs, 1 image | 219,376 | `Served`, under `FairSpec` |
| `scheduler_loops` | every table of 4 PCBs with ages and base priorities 0 and 1 | 2,195,968 | `LoopsAgree` |
| `low_level` | 3 contexts, svc instructions with different operands | 2,044 | `TypeOK`, `Balanced`, `Passed`, `Transparent` |
| `channel_use` | 3 processes, 1 channel | 73,312 | `ChannelsTypeOK`, `EndsStay`, `OutsidersHarmless` |
| `system` | 3 PCBs: the console, and two processes that run P1 or P2 or become shells | 246,034 | `TypeOK`, `Exchanged`, `Coupled`, `ProgramsSpec`, `Terminates` |
| `dining` | 4 philosophers, the number in `W.c` | 61,614 | `TypeOK`, `NotBothOn`, `ForksAgree`, `EatApart`, `NoOverwrite`, `NoStarvation` |
| `disk` | 2 blocks of 2 bytes, words of 2 bytes, 3 attempts (as in `disk.c`) | 36,372 | `TypeOK`, `Line`, `StoreSpec`, `Returns`, `GivesUpLate` |

Bounds. There is no bound on the length of a behaviour and no state constraint:
ages are bounded by `AgeBound` (which a run checks and `KernelProofs` proves for all
sizes), and `progs_running` by the table. Three PCBs are the least with which a PCB
can be ended and used again while two other processes live, and in which a
process can be passed over for two others; two image priorities are the least that
make priorities differ beyond the console's. `AGE_MOD` is the smallest
value its assumption allows, so an age that is off by one too many would wrap.
In the loops, ages and base priorities of two values each give ties, a priority made
of age against one made of base, and every pattern of live and ended PCBs. In `disk` the
addresses are both blocks, the first beyond, one that is block 1 with its bytes
swapped, and the least and greatest that are negative when signed; data are too short, too
long, empty or a block, of bytes whose digits are letters. In `low_level` contexts differ in every
register. In `kernel_virtual` the stack pointer of a running process is always at its
stack top (`Depths` is {0}): a second depth takes more than five minutes. So the stale offset
that fork uses never differs from the right one there, and it is the theorem
`StackPointersHome` that covers `SpInOwnStack` at other depths. In `system` three PCBs are
enough for a refused program with only the console left, for one that forks after its last
exit, into its own PCB and into another, and for a count that is too small. What is proved (section 5) is proved without these bounds.

View. `SchedView` forgets register files, stack contents and `pid`. The next value
of a remembered variable never depends on a forgotten one (`TimerIRQ`, `Yield`,
`Exit`, `Kill`, `Fork`, `Exec` and `SwitchSched` read only status, age, priority, stack
tops and the counters; images and modes are inputs), and `OneExecuting`,
`AgeBound`, `PassedOver`, `NobodyRevived` and `StacksDisjoint` read only remembered ones, so nothing is missed. `TypeOK`
reads forgotten ones too: TLC checks that part of it on one representative of each
view, and `KernelProofs` proves it. No other run uses a view.

Deadlock is checked in `kernel_virtual`, `kernel_served`, `low_level`, `channel_use`, `system` and
`dining`. It is not checked where stopping is right: in `kernel_any_calls` and in the
findings the model stops after `ForkBeyondTable`; in `scheduler_loops` the loops return; in
`disk` the server may be dead and the driver waiting. That some step is always possible
says little of `channel_use` and `system`, where processes can be ended and the timer
goes on; there `Terminates` is the property that counts.

Fairness.

- `FairSpec`: `WF(TimerIRQ)`. The timer is periodic, enabled at reset and unmasked in
  user mode (`cpsr` is 0x50 there), so it interrupts again and again whatever the
  processes do. Nothing is assumed of the processes.
- `System`: `WF(Interrupt)` for the same reason, and `SF(Run(p))`: a process that gets the
  processor again and again, with something to do, does it. A time slice is longer
  than a system call, and interrupts are masked during one. Nothing is assumed of the
  console, nor of polls.
- `Handshake`: none. That a program which can go on does is not assumed of the kernel: it
  is what `ProgramsSpec` checks beyond `Spec`, for two programs at a time, while the kernel
  counts right.
- `Dining`: weak fairness of the waiter and each philosopher, on the strength of `Served`
  (a live process gets the processor) and of `ProgramsSpec` (that is enough for programs
  over channels; waiter and philosophers make the same library calls, and while DPP runs
  no exit returns: the waiter never ends, so the count stays above one).
- `Disk`: `WF(Driver)`, which spins on the UART, and `WF(Server)`, a running program.

### Findings

Each is a run that ends in a violation, under `ProgramSpec` with three PCBs.

| Run | The code | What it says of itself |
|---|---|---|
| `finding_exit` | an exit with one other process left does not leave the ended process | `libc.h:83` "terminate process with status x" |
| `finding_fork_copy` | the child's `sp` is at a stale offset, and the stack is copied to the wrong place; in the trace all stacks are blank, so it shows the offset, and `ForkInto` says the other | `hilevel.c:234` "Replicate state of parent in child" |
| `finding_round_robin` | a shadowed variable makes round robin choose PCB 0, which need not be the next; no program of `user/` calls `switch_sched` | `hilevel.c:87` "For use of Round-robin scheduler" |

The conditions of `WellUsedSpec` are needed for related reasons, visible in the actions
themselves: `Kill` of a PCB that was never used finds status 0, which is `STATUS_READY`,
and takes one off `progs_running` although no process ended; a process that has ended
without being switched away from (`finding_exit`) can fork into the PCB it runs in, and
then nobody gets 0 (`System` has what follows from it); `ForkBeyondTable` is the fork nobody refuses. Stacks lie above the
region `image.ld` reserves (`TOS_PROCS` is the region's end, not its beginning).

## 5. Proofs

Eight modules, all for every value of the constants, from the `ASSUME`s of the modules
they are about alone. Each follows one plan: an inductive invariant (first checked
with TLC), a lemma per action, a temporal step at the end.

`KernelProofs`, for every table size, set of images, priorities and stack size:

- `Typed`: `Spec => []TypeOK`. The type invariant is inductive as it stands. The part
  that needs an argument is that the searches return PCBs in use: `Picked` (a nonempty
  set of live PCBs has one that goes before all others, by well-foundedness twice:
  highest priority, then lowest index), `ChoiceInUse` and `EmptyPicked`.
- `OneProcessExecutes`: `Spec => []OneExecuting`. Inductive together with `TypeOK`.
- `AgesBounded`: `Spec => []AgeBound`. `AgeBound` is not inductive: a step adds one to
  every age. The invariant is `AgeInv`: for each `t`, at most `NUM_PCBS - t` live
  processes have a priority above `MaxBase + t` (`AgeLevels`), and the age of the current
  process is 0. When the scheduler runs, the processes above level `t + 1` were above
  level `t` before it, and if there was any, the one chosen was among them and is not
  any more; so there is one fewer. At `t = NUM_PCBS` there is none. `NoWrap` uses the
  bound to show that the `uint32_t` increment does not wrap in the step that has to
  preserve it; the counts are finite cardinalities, and `PartIsSmaller`, `NobodyRises`
  and `OneServed` are the three facts about them.
- `TurnsInOrder`: `Spec => PassedOver`, an action property, from the same invariant. `Turn`
  is the step of the scheduler; what remains is that no other call gives the
  processor to a process that was there before. With `AgesBounded` it bounds how often a
  live process is passed over, which is the safety half of `Served`.
- `StacksApart`: `Spec => []StacksDisjoint`. The invariant `StackInv` says which stack
  top a PCB in use has; the rest is arithmetic of the tops (`TopsApart`, `ConsoleBelow`).
- `NobodyIsRevived`: `Spec => NobodyRevived`, an action property. The invariant `CountInv`
  says that `progs_running` exceeds the live processes by one at most, and that a process
  which executes `TERMINATED` is alone in the count. So the scheduler, which switches when
  it counts two, finds one alive (`CountScheduler`); without that it would mark PCB 0. Too
  small a count is possible and does no such harm.
- `BooksBalance`: `WellUsedSpec => []Books`. `Books` is not inductive: in ROUND_ROBIN mode
  the kernel always switches to PCB 0, alive or not, so `BooksInv` adds that the console
  lives. `BooksEnding` is where `MayEnd` is used.
- `StackPointersHome`: `WellUsedSpec => []SpInOwnStack`. Fork relocates the stack pointer
  the parent had when it was last *set aside*, so the invariant `SpInv` asks of the
  executing process that both its live and its saved `sp` are in its stack.

- `KernelImplementsVirtual`: `WellUsedSpec => VirtualSpec`, the refinement. A lemma per step
  of the abstract specification says which handlers implement it (`SwitchVirtual`,
  `EndVirtual`, `ForkVirtual`, and `RunVirtual` for what changes nothing outside the running
  process); all rest on `BooksInv` and on `SchedulerRegisters` (the scheduler sets aside the
  registers of the process that runs, and touches no others) and `ForkRegisters`.

The assumption `AGE_MOD > NUM_PCBS + MaxBase` holds of the code by far (2^32 against
32 + 4).

`SchedulerLoopsProofs`: `SearchesFind`, `LoopSpec => []LoopsAgree`, by the loop invariants
`BestSoFar` (of those passed, `found` goes before all others, and a `pri` left over from
an earlier PCB is never above the highest) and `FirstSoFar`. The sets of ages and base
priorities are constants here, so the theorem covers every table.

`LowLevelProofs`: `Typed`, `StacksBalanced`, `OperandPassed` and `RegistersKept`. The invariant
is that a kernel stack is empty except for one frame, that of the handler that runs,
and that in `Pass` the link register is the return address in that frame.

`ChannelsProofs` has the lemmas about handlers and library that the next three share;
its `EndsSet` says that the ends of a channel are filled in order.

`ChannelUseProofs`: `ChannelsTyped`, `EndsStayPut` and `OutsidersCannotTouch`, for any number
of processes and channels.

`SystemProofs`, first part: `HandshakeTyped` and `MessagesExchanged`, for any number of
processes. The invariant `IInv` follows both messages and both flags, not the two programs,
for the ones that wrote them may be gone: an end has a value for a reader only with its
flag up; a 5 is there only when there was a 12 to answer; two 12s (the end of a killed P1
taken over by another) leave both flags up for ever, in which state nobody reads; and one
process that has got both ends finds nothing to read. A refused program that goes on is
no end of the channel, so it changes none of this (`UnservedKeeps`).

`SystemProofs`, second part: the composition, for every size of the table.
`SystemRunsPrograms` (`SysSpec => Spec`) says that each step of the system is a step of the
programs, or none, so what is proved of `Handshake` holds here, `SystemTyped` and
`SystemExchanged` among it. The same is not true of the kernel: every step is a step of
`Kernel` (`KP` is the kernel of `KernelProofs`) except `FallBack`, in which a process moves
to another image without exec. `FallBack` leaves the table alone, so the invariants of the
table hold all the same: `SystemKeepsTable`. `SystemCoupled` relates the two halves, which
neither part can say alone. `Coupled` is not inductive: the invariant `SysIInv` adds that the
console is alive and in its own image (a child starts as its copy), that the process that
executes is alive or alone in the count and not to be taken for a child, the kernel's types and
invariants, and `IInv`, of which one part
is needed: a process inside a library call is inside a program. `SwitchCoupled`, `EndCoupled`,
`ExecuteCoupled`, `ChildCoupled`, `TerminateCoupled`, `RunCoupled` and `FallBackCoupled` are the
steps; they cite the lemmas of `KernelProofs` about what the scheduler and fork do to
live processes and registers (`SchedulerLive`, `SchedulerRegisters`, `ForkLive`, `ForkRegisters`,
`ForkImages`).

`DiningProofs`: `DiningTyped`, `OneMessage`, `NothingOverwritten`, `ListIsRight` and
`NeighboursEatApart`, for any number of philosophers. The invariant has two halves. Each
seat's talk with the waiter rests, is `Ordered`, `Taken` by the waiter or `Told` the
verdict (`Talk`), which fixes both flags, what is on the channel, and where both sides
are in their library calls. And the waiter's list (`List`) is right about every
philosopher except one: the one whose answer the waiter is still waiting to see gone, and who may
already have it (`Pending`, `Listed`). Of `Step` it matters that a step which changes who
holds forks is that philosopher's taking of an answer; that a grant meant free forks
is in `List`, and `FreeForks` turns it into neighbours that hold none.

`DiskProofs`: `DiskTypeOK`, `DiskLine`, `DiskGivesUpLate` and `DiskImplementsStore`, for
words and blocks of any length, disks of any size, any addresses and data, and any
`DISK_RETRY`. The conversions come first: hexadecimal digits of either case read back
as the byte, and a word sent least significant byte first and unpacked by Python is the
word, or the word less `Modulus` (2^32 in the code) when it is half of that or more. Place
values and unpacking are recursive functions of the number of bytes (`Place`, `Unsigned`);
that they exist and what they compute is proved by the least number at which it would fail
(`Induction`). `Line` is then inductive: it says, for every place the driver can be
in, what is on the line and what is on the disk; `DiskGivesUpLate`
needs the history of attempts in `Line`; and `DiskImplementsStore` shows that each step of `Disk`
is a step of `BlockStore` or none: a write changes the store when the server writes, not
when the driver learns of it.

Only model-checked:

- liveness under fairness (`Served`, `Terminates`, `Returns`, `NoStarvation`): it needs `ENABLED`,
  for which the prover has no rules;
- the fairness in `ProgramsSpec`, for the same reason; its safety is `SystemRunsPrograms`.

Every other property of a passing run is a theorem.

## 6. Not modelled

- *P3, P4, P5*: arithmetic between writes; as processes they are the images of `Kernel`.
- *PL050, PL111, SYS, MMU*, and the register layouts of GIC, SP804 and PL011: addresses
  and instructions that nothing calls, or that have no state of the program's.
- *UART*: FIFO limits and the non-blocking variants, which nothing calls. A UART that
  stops draining would stop the kernel in `write`.
- *Console*: reading a line, `strtok` and `atoi`; an unknown program name, for which exec
  gets NULL and the child runs the vector table in user mode.
- *`terminate 0`*, which kills the console, and a `terminate` of a PCB that is not alive: in
  `System` a shell names a live process other than the console. `Kernel` has both.
- *`chan[-1]`*, which a refused program reads when its exit returns. In the image that is
  checked in, `chan` follows `pcb` in memory, so `chan[-1]` is the last 28 bytes of `pcb[31]`.
  While that PCB has never been used they are zero, no pid of a program is in them, and the
  send and receive handlers take the caller for an outsider: nothing changes and receive
  gives -1. `Onward` says this. With 32 processes, or another layout, anything may follow.
- *libc*: `atoi` and `itoa`, which reach nothing but the console's text and argument; the
  text `print_num` writes through an uninitialised pointer.
- *Undefined behaviour*: a channel id (but for the above) or a pid outside its array, a
  second run of DPP among them; what `ForkBeyondTable` overwrites.
- *Disk*: a read of another length than the block's; lost characters.
- *Boot*: the copy of the vector table; an interrupt during the reset handler.
- The build files.

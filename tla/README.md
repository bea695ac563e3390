# Formal models of the Epiphany design-verification environment

The repository is the environment in which the Epiphany chip was verified. Generators produce a
random test: **igen** the programs of the cores, **mgen** the transactions of the four hosts
around the chip. A SystemC testbench (**epiphany_models**) loads the hosts' transactions into
the Verilated chip, watches the cores until they are done, reads the memory back and dumps what
it got; **comparegen** compares the dump with what mgen expected. A debugger may drive the same
testbench through a pair of named pipes.

This directory holds TLA+ models of that environment, the TLC runs that check them on small
instances, and TLAPS proofs that hold for all instances. `PROJECT.json` lists the runs, the
source lines behind each definition, the hazards and the theorems.

## 1. Inventory

### 1.1 Components

| component | source | state | operations |
|---|---|---|---|
| Stimulus (one per host port, one for the SPI) | `stimulus.{h,cpp}` | queue `stimulusArray`, `signoffArray`, `signOffStarted`, `fSlaveInterfaceActive`, the driver's entry and counters, output logs | thread `drive_stimulus`: load the file, then pop and drive; thread `Sample`: take the chip's reads and writes; `AddStimulus`, `AddWriteBackStimulus`, `DispathSignOff`, `GetStimulusPendingSize`, `GetClearISSlaveInfActive` |
| Host memory | `sc_main.cpp` (one map) | `map<address, byte>` shared by all ports, the monitor and the debugger's server | store, find, erase, clear, dump |
| Monitor, access | `monitor.cpp:134-225` | polling counter, answer address | `GetDataByHost`, `SeDataByHost` |
| Monitor, flow | `monitor.cpp:46-129, 229-891` | `coreDone`, the phase of the test, cycle counter | threads `CheckCoreStatus`, `monitor_loop`, `StdioHandler`; `stop_test` |
| Debugger's server | `namedPipeMemServer.*` | the core last selected, two pipes | `mainloop`, `readMem`, `writeMem`, `HandleStopSignal` |
| Top level | `sc_main.cpp`, `maddr_defs.h`, `vmodel_utils.h` | configuration flags, base addresses | arguments, wiring, `load_stimulus`, port binding of the server |
| Chip | `dv_top.h` (stub), Verilator's output | memory, response queue | slave interface, master interface |
| igen allocator | `mem_manager.h` | list of free address ranges, used ranges, memory image | `GetGenRange`, `RemoveUpdateRange`, `UnifyLSList`, `AddLoadMultiUseRange`, `SetMem` |
| igen registers | `regs.h` | per register: value known, value, memory pointer range, locked | `SetReg`, `GetReg`, `CreateSetMemPointerReg`, `InvalidateReg` |
| igen programs | `igen/main.cpp`, `dma.h`, instruction classes | worklist of subroutines, DMA descriptor chains | `CreateProgram`, `FillSubroutine`, `GenerateDescrList` |
| mgen | `mgen/main.cpp`, `host_tran.h` | slices of each core's memory, expected contents | `GenerateMap`, `PackTransactionToFile` |
| comparegen | `comparegen.cpp` | expected and actual maps | compare cores, hosts, count garbage |

All testbench threads are SystemC threads sensitive to the falling clock edge: exactly one runs
at a time, a thread gives up control only at `wait`, and the order of the threads within one
edge is not specified. The chip works on the rising edge.

### 1.2 Interactions

* The clients (monitor, debugger's server) put entries into a port's queue with `AddStimulus`
  and later look for the chip's answer in the host memory. There is no other signal: an answer
  is a key that has appeared in a map.
* A port's two threads share its queue: `Sample` inserts the answers to the chip's reads in
  front of the regular entries while `drive_stimulus` takes from the front.
* A port and the chip share a synchronous interface in each direction, with a wait signal from
  the receiver.
* The monitor decides from queue sizes and activity flags that the traffic has stopped, then
  dispatches the sign-off reads, and later dumps the host memory.
* igen and mgen agree on the use of each core's memory through a file of ranges.

### 1.3 What is hard

* Interleavings: the two threads of a port with the chip; two monitor threads inside the access
  functions at the same time; any thread between `clear`, `wait(10)` and `sc_stop` of an error
  path.
* Ordering: answers against regular entries and ILAT writes; sign-off reads against their
  writes; the end of the test against transactions still under way.
* Time: the poll limit of the access functions against a late answer; the 300000 cycle limit of
  the driver; the fixed quiescence windows of the monitor.
* Boundaries: the allocator's ranges, the strides of a DMA transfer, the memory slices of mgen,
  the bit fields by which an address is given to the chip or to a host.
* Long sequences: what the generator believes of registers after many instructions, a loop and
  nested interrupts; the chain of DMA descriptors.

`PROJECT.json` ("hazards") puts each of these at its line and names the properties that cover
it, or says why none does.

### 1.4 What makes each component correct

* Port: each entry reaches the chip exactly once, in order within its class; answers are not
  delayed by regular entries, carry the right data and are never starved; every readable write
  is read back once.
* Monitor access: a call returns the answer to that call, whole; nothing is left behind for the
  next call; a call ends even if the chip is silent.
* Monitor flow: what the cores send to hosts arrives before the sign-off; the memory is dumped
  only when every read-back has come home; every run ends.
* Debugger's server: one response for each request, the value read is current, a write is
  visible to a later read. Trap handler: the core runs on with the result of its call.
* Allocator: ranges handed out are disjoint and inside the initial memory; what stays free has
  room for another request.
* Program: routines fit in what they claim, nothing of the linked test overlaps, every branch
  target is filled, transfers stay inside their ranges and apart from other data.
* Registers: what the generator believes of a register is true whenever an instruction that
  rests on it runs; an interrupt leaves no trace.
* mgen and comparegen: a good chip passes and a lost write is told.

## 2. Plan

| step | module | contents | state |
|---|---|---|---|
| 1 | `HostChannel` | abstract specification of a port: two classes of transactions, submitted, committed, accepted | done |
| 2 | `HostPort`, `HostPortMC` | a port with its threads, queue, handshake and the chip's side | done |
| 3 | `HostPortProofs` | type correctness, inductive invariant, safety, refinement of `HostChannel` | done |
| 4 | `MonitorAccess`, `MonitorAccessMC` | `GetDataByHost`, `SeDataByHost` under several threads | done |
| 5 | `MemManager`, `DmaEngineProofs` (part 1) | igen's allocator; disjointness for any sequence of requests | done |
| 6 | `DmaEngine`, `Program`, `ProgramMC` | igen's worklist, routines, loops, DMA chains and sections over the allocator | done |
| 7 | `MonitorFlow`, `MonitorFlowMC` | end of the test over several ports and cores; safety and liveness | done |
| 8 | `DebugMemory`, `DebugHost` | what the debugger is promised; the server and the trap handler over a port, and the refinement | done |
| 9 | `GeneratedCode`, `GeneratedCodeMC` | the register manager, the routines it generates and a core that runs them | done |
| 10 | `TransactionMap`, `TransactionMapMC` | mgen's slices and comparegen's verdict | done |
| 11 | `MonitorAccessProofs` | the invariants of `MonitorAccess`: one caller through the SPI, any number through the hosts | done |
| 12 | `DmaEngineProofs`, `ProgramProofs` | the exchange of free ranges, the descriptor chains, and every safety property of `Program` | done |
| 13 | `TransactionMapProofs` | `MulticastStaysHome` and `VerdictIsRight` for any number of cores, hosts and slices | done |
| 14 | `MonitorFlowProofs` | nothing is logged too late or dumped too early, for any hosts, cores and programs | done |
| 15 | more of `HostPortProofs` | `SignOffReadsBack`: the count of read-backs per write | done |
| 16 | `GeneratedCodeProofs` | what the generator believes of registers, and that interrupts leave no trace, for any instructions and lengths | done |
| 17 | `DebugHostProofs` | the safety part of the refinement of `DebugMemory`, and `RunsServed` of the trap handler, for any cores, registers and values | done |

What composes what: `Program` EXTENDS `DmaEngine` EXTENDS `MemManager` (one memory, three kinds
of clients). `HostPort` and `DebugHost` INSTANCE their abstract specifications. `MonitorFlow`
and `DebugHost` use a port as `HostChannel` describes it (queue, entry in hand, answer), not
again with the clock and the wait signals of `HostPort`, which the refinement justifies.

## 3. The modules

### 3.1 HostPort

One `Stimulus` and the chip's two interfaces to it. A state is a moment inside a clock cycle.
`todo` holds the threads that have not run at this falling edge; `Drive` and `Sample` take
themselves out of it in either order, and `RisingEdge`, when it is empty, is the chip's turn.
Clients act between any two steps.

* `pc` is where `drive_stimulus` waits: `idle` (no entry), `delay` (popped, not presented;
  `stimulus.cpp:268-283`), `hold` (presented; 345-368). Each action of `Drive` is one path from
  a wait to the next, including the pop, the sign-off read and the check of the destination when
  the path goes through the top of the loop.
* `backoff` is what `Sample` has left of its back-pressure loop; `stim_wr_wait` and
  `stim_rd_wait` are high exactly while it is positive.
* The chip: `SlaveInterface` takes what is presented unless its wait for that direction is high
  and then chooses its waits freely; `MasterInterface` holds its transaction while the host
  waits, and otherwise presents a read, a write or nothing. This is the real chip, which is not in
  the repository; the stub of `dv_top.h`, which never raises a wait, is one case of it.
* An entry is a record: its class (regular, or answer), a ticket within its class, its kind, its
  delay and what stands for its payload. Kinds are what the code distinguishes by address and
  mode: memory write, read, ILAT write, other register write, multicast, and an entry for
  nobody. The two addresses and the data are not modelled otherwise.
* `hostMem` is one location: the last chip write. An answer carries it; this is all that is
  needed to tell a right answer from one taken too early, too late or twice.
* `sub`, `com`, `got`, `regKind`, `signPoint`, and the tickets, are history.
* The error paths (`clear`, `wait(10)`, `sc_stop`) are one step that sets `aborted`.
  Addresses are not modelled, so any transaction of the chip may be one that `Sample` refuses
  (`OutOfRange`: `stimulus.cpp:437-455, 512-518, 578-583`).

`HostChannel` is the promise to the rest of the environment: per class, transactions are
submitted, committed to one at a time, accepted; an answer goes before every regular transaction
except an ILAT write that is already queued. `HostPort` implements it with `acc` the number of
accepted entries.

### 3.2 MonitorAccess

The calls of the monitor's threads. `hostMem` holds four bytes at each answer address, each byte
the number of the call whose answer brought it, or nothing. Through the SPI there is one answer
address; through the west host one per register or memory location. A call is submitted, polled
for (`Poll`), and either taken (`Take`, with the assertion on every byte) or given up
(`GiveUp`). The chip answers open calls in any order, or never. `AckSizes` is what the SPI block
sends back for a write: the code reads one byte, the chip is not in the repository, so all of 1,
2 and 4 are tried.

`Running` is the set of configurations: through the SPI before the timeout (one thread), through
the west host with `CheckCoreStatus` and `monitor_loop`, and batch mode. The constructor of the
monitor starts exactly these threads (`monitor.h:71-90`).

The clock is abstracted: a poll may happen at any time, so two callers may poll at different
rates. Every real schedule is among these.

### 3.3 MonitorFlow

`CheckCoreStatus` from the load of the test to `stop_test`, with the ports of all hosts, the
cores and, as an alternative end, the time limit of `monitor_loop`. `NCORES > 2` style: the
cores are read through the SPI, so the reads of the monitor are not in the queues of the hosts.

* A port is its queue, the entry in hand (`sEntry`), the sign-off reads kept so far
  (`signoffArray`) and its activity flag. `PopStimulus` empties the queue one entry before the
  chip has taken it: this is what `isHostDriversDone` (`monitor.h:144`) cannot see.
* A core is started, runs, is halted by a breakpoint, goes idle, has interrupts pending, and
  timers and DMA engines that end in an interrupt. Its registers are read in the order of the
  code, one action each (`ReadTimers`, `ReadILAT`, `ReadDMAStatus`, `ReadStatus`), and anything
  may happen in between; `Finilize` and `Done` are the stage with the page miss interrupt.
* The files of the hosts are their writes: to memory and to ILATs. The reads in them are left out,
  as the monitor waits for none, and their answers are ahead of those to the sign-off reads.
* A suspension of core 0 is `Suspend`, `ResumeSuspended` and `Resumed`: halt it, see it halted,
  resume it, see it running. A core seen not done is looked at in `NotDone` (its debug register),
  `ReadOpcode` (its PC, which stays while it is halted, and the instruction there) and
  `ResumeBreakpoint`. Which instruction it is, is not modelled: in a test whose `traps` is set it
  may be one that the code takes for an error (`monitor.cpp:599-607, 615-619`).
* `Ends` names two loops that can hold the monitor until the time limit, as neither resumes a
  breakpoint. `HeldInFinilize` (`monitor.cpp:554-571`): a core that its timer, or a late entry of
  a port, starts again after its registers were read halts while the monitor waits for it to be
  idle. `HeldInResume` (474-490): core 0 halts again before the monitor has seen it running.
* `FirstLook` and `SecondLook` are the two windows of quiet; the short-circuited conjunction of
  `GetClearISSlaveInfActive` clears only the flags up to the first true one.
* Time: a test that is `prompt` has a chip in which everything under way when a wait of 2000
  cycles or more begins is over when it ends (`old` is what is still to be over; the wait's end
  is guarded by it). Otherwise the chip is as slow as it likes but answers each host in order. A
  core halted at a breakpoint has nothing under way. `LoggedTraffic` needs the first,
  `DumpComplete` holds in both. A timer longer than the window, started by a routine that begins
  after the timers of its core were read, is thus no part of a prompt test, and nothing in the
  code sees it.
* `WaitLoad` sees each queue empty once, in the order of the ports; the code's check of all
  queues right after it passes whenever this one has, as nothing is added in between, and is not
  repeated.

### 3.4 DebugMemory and DebugHost

`DebugMemory`: one memory, one request at a time; a write is there for all later reads, a read
gives what was there at some moment between question and answer, every request is answered until
the debugger kills the simulation or lets the program run.

`DebugHost`: the server (`namedPipeMemServer.cpp`) or the handler of traps (`StdioHandler`),
whichever the options start, over the west port. `stimulusArray` and `answers` are the way to
the chip and back. A write is answered as soon as it is queued; `Seen` maps the abstract memory
to what the last queued write will make of a place, and `Found` is the value an answer under way
already carries.

What it assumes, all from the code:

* reading the pipe blocks the only operating system thread, so nothing runs between two
  requests;
* a resume never returns to the command loop (`while(true) wait`);
* what the chip sends to one host leaves in order, answers and writes of programs alike;
* the west option is on by default and none turns it off, so the server's port is the west one,
  or the east one, which is bound after it.

The answer to a read comes back to an address in the host's memory (`srcAddr`,
`namedPipeMemServer.cpp:325,334`), which is in the window that the debugger and its programs may
use (26-27, 346). So `BackLoc` is part of `HostLoc`, and both may write there; the first time one
does is `spoilt`. Until then the debugger sees one memory (`MemorySpec`), afterwards it need not:
`answer_address`. Requests are aligned and of one size: answers of which only some bytes are at
the address, and the assertion of line 426 about the others, are left out. Programs without a
debugger, in batch mode, are taken to leave the answer addresses alone.

For the trap handler, "opcode" stands for the two reads that find the trap's number, `R1` for
its arguments, "beyond" for a global address of no core, whose read need not be answered:
`GiveUp` is the poll counter of 30000 cycles.

### 3.5 MemManager, DmaEngine, Program

`MemManager` keeps the two lists of free ranges as sets. `ClaimFetch` and `ClaimLS` are
`GetGenRange...` with `RemoveUpdateRange` and `RemoveUpdateRangeLS`: take a range out of a free
one and keep of it what is long enough on either side. `AddLoadMultiUseRange` reads free memory
without claiming it. `failed` is set by the assertion that would stop the program.

`DmaEngine` is `GenerateDescrList`: the free ranges are dealt out again between code and data;
pairs of ranges are looked for; strides and counts are drawn and cut to the shorter range; the
descriptor goes to a code range below `MAX_CHAIN_ADDRESS`, or the list ends; the TCB before is
chained to it or starts it from an interrupt routine. `UpdateFields` is the pass over the
finished list.

`Program` is `CreateProgram`: the first branch, the worklist (`FillSubroutine` instruction by
instruction: only the instructions that touch memory or end a routine are told apart), hardware
loops, interrupt routines, the DMA engines and the printing of the sections. `jumps` holds where
the branches and interrupts go that were printed; `leaked` is a branch between the two claims
that it makes when a range's position is taken for a register's number. Registers are left out
here: a branch through one, a load or a store may go wherever the allocator agrees.

What `OnlyFirstBranchLost` and `LoopsFit` say is how far the code gets: exactly which branches
lead nowhere and which assertions about a hardware loop may fail. The plain statement about
branches, `BranchesLeadToCode`, is false, and `lost_branch` shows it.

### 3.6 GeneratedCode

The other half of igen: registers. In the phase "fill" the generator simulates each instruction
that it draws (`SetReg`, `InvalidateReg`, flags, conditions) and notes in `beliefs` what it knew
before it. In the phase "run" a core executes the routines: the body of the main routine in its
software loop, and interrupts between any two instructions, which save to and restore from the
words at `ISR_SAVE_RESTORE_SPACE` the registers that the generator recorded as changed, with the
status and, when nested interrupts are allowed, the return address. `BeliefsHold` compares the
two.

* `Instructions` is what the generators of `FillSubroutine` can draw here; a configuration picks
  menus from it. The registers of an instruction are below `NREGS`, as the constraints of
  `data_processing_instr.h:348` and `load_store_instr.h:223` say.
* Registers hold small numbers; sums modulo 2 stand for the data operations; of the flags there
  is zero; "BEQ" stands for the conditions on flags the generator never knows.
* Saving up to `gie` and restoring from `gid` are one step each, interrupts being disabled
  there.
* The interrupts' order of rank is the chip's (external); a routine is interrupted by one of
  higher rank only. igen raises the software interrupt no more, but its routine is wired and
  unmasked.
* Hardware loops, branches, floating point macros, `MOVT` and double loads are left out, and
  pointers are one abstract address.

### 3.7 TransactionMap

mgen: `Internal`, `AnyCore`, `HostSlave`, `HostMaster`, `ExtendedSpace` deal out the slices
under the options; `Burst` and its relatives put writes, reads back and multicasts into the file
of each host and into the expected contents. Then the test runs: the hosts drive their files,
the steps of different hosts in any order; the cores write all their slices in one step at any
moment among them (a core's slices are nobody else's, and `fCoreMem` is what the simulator says
they hold at the end); up to `Losses` writes of hosts are lost; and the sign-off reads back what
was written. `TestPass` is comparegen's verdict, with the host stripped off the addresses; where
two hosts' bytes fall on one address the later in the order of the file counts, which is north,
west, east, south.

A slice is one location and a burst one transaction; local and global addresses are the same
location. A burst that began with a read may write in the slice of a multicast group, as a
regular write (`BurstWrite`). The number of a host that is drawn is below that of the cores, or
an assertion stops mgen (`HostsToDraw`). The comparison of DMA areas, the counts of garbage
(`comparegen.cpp:292-371`), ILAT files, delays and message mode are left out.

## 4. The runs

| run | module, configuration | shows |
|---|---|---|
| `host_port` | `HostPortMC`, `HostPort.cfg` | all safety properties of a port, that it implements `HostChannel`, and that every read it has taken is answered |
| `monitor_access` | `MonitorAccessMC`, `MonitorAccess.cfg` | the access functions in every configuration but a timed-out run through the SPI |
| `monitor_race` | `MonitorAccessMC`, `MonitorRace.cfg` | violation: the timeout path takes another thread's answer and the assertion fails |
| `igen_program` | `ProgramMC`, `Program.cfg` | a generated test claims memory apart, fits, loses at most the first branch, its transfers are sound and the generator ends |
| `lost_branch` | `ProgramMC`, `ProgramBranch.cfg` | violation: the first branch of a test, or one without register and label, leads to no code |
| `monitor_flow` | `MonitorFlowMC`, `MonitorFlow.cfg` | no core's write is missed, the dump is complete, the test ends |
| `gdb_server` | `DebugHostMC`, `DebugHost.cfg` | the server implements `DebugMemory` until somebody writes to an answer's address, and answers in any case; no core runs on before its trap is served, and every trap is served |
| `answer_address` | `DebugHostMC`, `AnswerAddress.cfg` | violation: what a program or the debugger has written to an answer's address is taken for the answer |
| `transaction_map` | `TransactionMapMC`, `TransactionMap.cfg` | the verdict is right without multicast and without overlapping memories; multicasts stay in the slices of their host |
| `multicast` | `TransactionMapMC`, `Multicast.cfg` | violation: with multicast a good chip may fail |
| `generated_code` | `GeneratedCodeMC`, `GeneratedCode.cfg` | the generator's beliefs hold in the core; interrupts leave no trace |
| `isr_save_area` | `GeneratedCodeMC`, `ISRSaveArea.cfg` | violation: the registers that an interrupt routine saves may reach the word of the status |

### 4.1 Bounds, and why they are enough

* `host_port`: files of up to three entries that put ILAT writes on both sides of a memory write
  and before a multicast, or an entry for nobody; a client's entry behind the only one of a
  file (`AddStimulus` stops at two, a longer file is taken as it is); two chip transactions, in
  any mixture of reads and writes; back-pressure of one cycle; the chip's
  wait tolerated for one cycle. An answer can then find the queue empty, before, between and
  after ILAT writes, and behind another answer; each wait loop is entered, repeated and left.
  The proofs of all its safety properties hold without these bounds.
* `monitor_access`, `monitor_race`: four calls, two polls, places of 4, 2 and 1 bytes. A
  left-over byte needs a write and a later read; an answer taken by the wrong thread needs two
  calls; giving up needs the counter to run out once.
* `igen_program`, `lost_branch`: the sizes are those of the code; the memory is six small range
  files in which one or two routines use up a range, and an empty one, so that every leftover of
  a claim, the last range, an odd start and a target out of reach of a label occur. Each of the
  ten command lines turns on one feature, or two that meet (interrupts with loops, with DMA).
  Claims are at few offsets, which is what the proof over all offsets is for.
* `monitor_flow`: two hosts, one or two cores, one write of each host to memory; eight tests, each
  with what the hazards need: writes from programs and at the end of a DMA, a timer started again,
  breakpoints (with core 0 suspended, with a restarted timer, with a slow chip and instructions
  that are errors), a slow chip, a failing DMA, the timeout. Two ports are needed for the
  short-circuited flags, two cores for a core that is done while another runs. 200 thousand
  states.
* `gdb_server`, `answer_address`: two cores, one register, two values, two traps a core, one
  entry under way for the program (`MaxPosts`), one entry on its way when the debugger asks
  (`MaxQueue`), one address of the host's own and one at which answers come (`Addresses`). A stale
  answer needs two reads of one address; a wrong core two cores; 180 thousand states.
* `transaction_map`, `multicast`: three cores of two slices and two hosts (with one or two cores
  there is no multicast), two slices that change hands, one lost write; 840 thousand states. The
  cores' memory ends below the extended space here, as by default (0x8000). One
  slice of one group is enough for the multicast to collide.
* `generated_code`: seven registers are the fewest that leave room for the loop, frame and one
  pointer register on either side; the five that an interrupt routine may save there just fit
  before the status. Two instructions for the main body, one for an interrupt routine, two
  interrupts, the loop run once or twice: the second iteration sees what the first left, and a
  routine can be interrupted in another. The menus hold one instruction for each case of the
  simulation: known, unknown, own operand, condition true, false, unknown. 4.5 million states.

`CHECK_DEADLOCK FALSE` is said where the system stops by itself: all calls made
(`MonitorAccess`), the simulation ended (`MonitorFlow`, `DebugHost`), the program or the test
done (`Program`, `TransactionMap`, `GeneratedCode`).

### 4.2 Fairness

* Port: weak fairness of the clock (`~aborted /\ Cycle`): SystemC calls each thread at each edge
  and the edges come. Strong fairness of `ChipLetsGo`: a chip that stalls lowers both waits
  together again and again. The second is an assumption about the chip, which rules out one that
  takes nothing until it has the answer queued behind what it refuses; without it the code
  itself gives up after 300000 cycles, in one of its two wait loops only.
* Monitor, access: weak fairness of each caller: the clock runs. The chip owes nothing.
* Monitor, flow: weak fairness of the thread and of each port for the same reason; and of the
  answers, the programs and the engines: programs end, which igen's do by construction, and a
  chip answers. When that fails the time limit ends the test, which `Ends` allows only in the
  tests that have one.
* Server and traps: weak fairness of the thread, of the port and of the chip's answers. Nothing
  is assumed of the debugger and the programs.
* Generator: weak fairness of its only thread.

### 4.3 What was found

* `monitor_race`: in a run of more than two cores all calls share one answer address
  (`monitor.cpp:146,195`). When the timeout comes while `CheckCoreStatus` waits for an opcode (2
  bytes), `monitor_loop` may find that answer first, take its two bytes and fail the assertion
  at `monitor.cpp:175` on the third, instead of printing its report and dumping the memory.
* `lost_branch`: `igen/main.cpp:474` asks for free memory before the first branch is generated
  and `525` after it; when the branch itself takes the last range its target is not queued, and
  the test jumps to memory without code. Later branches are safe: their targets are queued
  whatever is left. But `branch_instr.h:181` tests a variable that the search before it sets only
  when it finds a register: with a small value there the branch neither has a register nor makes
  a label, and its unset address is queued as a subroutine.
* Told by a passing property, `LoopsFit`: `igen/main.cpp:171` counts the routines that are done,
  whatever they are; when the one at the limit is an interrupt routine at a multiple of 8 it
  becomes a hardware loop, and the assertion of line 191 fails on its 64 bytes. (`runGen.csh`
  does not combine the two options.) The assertion at the loop's end fails only when the memory
  for code is used up inside the loop.
* Told by a passing property, `Ends`: a breakpoint in the wrong moment keeps `CheckCoreStatus` in
  the stage FINILIZE (`monitor.cpp:554`) or in the wait for a resumed core (474) until the time
  limit, which fails a good test. Without either exception `Ends` is violated.
* `answer_address`: `readMem` polls the address at which it expects the answer before the chip can
  have answered (`namedPipeMemServer.cpp:420`). A program that is debugged, or the debugger itself,
  may have written there; the read then gives that data, removes it from the host's memory, and
  the answer, when it comes, is given to the next read of the address.
* `multicast`: `mgen/main.cpp:952` takes the core of the read-back address from an address that
  has been overwritten with that of the multicast, so what is read from all cores comes back to
  core 0's addresses. Where another master owns that slice, comparegen reports a good chip.
* Told by the condition of a passing property, `MemoryEndsBelow`: mgen deals out the extended
  slices, from 0x8000 on, as "not allocated previously" (`mgen/main.cpp:630`), but with
  `-core_mem_end_address` above 0x8000 (`main.cpp:1286`) they meet those of the cores, and a good
  chip may fail. Without the condition TLC shows it with `ExtendedSlice = 2`.
* `isr_save_area`: `regs.h:211` saves the changed registers from word 0 of the routine's area on,
  and the status follows in word `NREGS-2` (`main.cpp:711`) whether or not a register is there.
  When the loop register is `NREGS-2` and there are no pointers, an interrupt routine may change
  `NREGS-1` registers; the last, which is usually R1 (`main.cpp:664`), then comes back as the
  status. It came to light in the proof, which needed `SaveSpace`. The run has 7 registers and
  three instructions; with 16 registers it takes 12 of the 14 instructions of an interrupt
  routine.

## 5. The proofs

### 5.1 The port

`HostPortProofs` proves for every set of files, every bound, every set of delays and every
limit:

| theorem | property |
|---|---|
| `TypeCorrect` | `TypeOK` |
| `DeliveredInOrder` | `AcceptedInOrder`: exactly once, in order, per class |
| `AnswersGoFirst` | `AnswersAhead` |
| `ReadsGetTheirData` | `AnswersMatchReads` |
| `ChipWritesLogged` | `WritesLoggedOnce` |
| `WritesReadBack` | `SignOffReadsBack` |
| `Refinement` | `ImplementsChannel` |

The only assumption is `HostPortAssumption`, the types of the constants.

`AcceptedInOrder` speaks of what the chip has taken; it is not inductive, because it does not
say what is still in the queue, nor whether the entry in the driver's hand has been taken.
`IInv` (end of `HostPort.tla`) adds:

* `Numbered`: within each class the queue holds exactly the tickets after those popped, in
  increasing order. Appending, inserting an answer at `InsertPoint`, and dispatching the
  sign-off reads keep it; popping the head moves its lower end.
* `Ahead`, which says that the insertion point stands behind every answer, so that a new answer
  has the greatest ticket of its class up to there; and `Kinds`, which ties the queue to the
  kinds submitted (needed by the refinement).
* `Handshake`: who believes what about the entry in hand. In `hold`, the entry has been taken if
  and only if the driver has run at this edge and seen the wait low or has not run since a
  rising edge with the wait low; this is where the two sides could disagree.
* `Sampled`: whether the transaction the chip presents has been seen by `Sample`, and what the
  numbers of reads, answers and writes then are. `AllAnswer`: answers in the queue, in hand and
  delivered carry the data of their read.

`NextInv` shows that each action keeps `IInv`, with one lemma per kind of change to the queue
(`NumberedHead`, `NumberedTail`, `NumberedConcat`, `NumberedInsert`, `AheadInsert`, ...).
`AnswersMatchReads` and `WritesLoggedOnce` follow from it, the second with a history argument of
its own (`LogStep`). `Refinement` maps `PopStimulus` and `StrayStimulus` to `Commit`,
`RisingEdge` to `Accept` or a stutter, `SampleRead` to `Answer`, `AddStimulus` and
`DispathSignOff` to `Submit`, the rest to a stutter; `Commit` needs `Handshake` (nothing else is
under way) and `Ahead` (an answer is not passed over).

`WritesReadBack` needs an invariant of its own on top, `BackInv`. `Returning` is the set of the
reads that the sign-off added, wherever they are: queued, in the driver's hand or accepted. Every
step but `DispathSignOff` keeps this set as it is (`BackTake`, `BackRisingEdge`, ...), by the
numbering above and `InHand`, which says that what the driver lets go of has been accepted. Before
the sign-off the set is empty, and `KeptReads` says that `signoffArray` has one read for each write
driven; `DispathSignOff` makes this `SentReads`.

### 5.2 The allocator

The first part of `DmaEngineProofs` proves of the allocator, for every range file that
`InitialAssumption` describes (ranges apart, each with room for a routine, the first for code),
every routine size and every buffer size of at least 7 bytes (`SizeAssumption`), and for every
sequence of claims at any address:

| theorem | property |
|---|---|
| `AllocatorSafe` | `MemoryOK`, the conjunction of the four |
| `AllocatorClaimsApart` | `ClaimsApart` |
| `AllocatorFreeIsUnclaimed` | `FreeIsUnclaimed` |
| `AllocatorFreeIsRoomy` | `FreeIsRoomy` |

The claims are apart because what `RemoveUpdateRange` leaves lies in the old range without the
claim (`LeftoverInside`), in two parts that do not meet (`LeftoverApart`); `Claiming` lifts this
to the sets of free ranges and claims. `IInv` adds that the bytes with a value lie in claims and
that data that nobody claims is apart from free code memory, from which the two assertions of
the code follow (`NoFailure`). These theorems are about `MemSpec`, in which clients claim in any
order, and nothing else happens; the next ones are about the generator that uses it.

### 5.3 The generator

`ProgramProofs` proves of `Program`, for every range file, command line, size, offset, stride and
count that can be drawn:

| theorem | property |
|---|---|
| `ProgramInvariant` | `ProgramInv`, the inductive invariant |
| `AssertionsStand` | `GeneratorAsserts` |
| `FreeMemoryUnclaimed` | `FreeIsUnclaimed` |
| `FreeMemoryRoomy` | `FreeIsRoomy` |
| `ClaimedOnce` | `ClaimsApart` |
| `RoutinesFit` | `SubroutineFits` |
| `NothingOverlaps` | `LinksWithoutOverlap` |
| `OnlyFirstBranchIsLost` | `OnlyFirstBranchLost` |
| `MergedAsAsked` | `SectionsMerged` |
| `TransfersKeptApart` | `TransfersApart` |
| `TransfersStayInside` | `TransferInside` |
| `ChainsEnd` | `ChainEnds` |
| `VectorsFollow` | `VectorFollows` |

The assumptions are those on the constants: `InitialAssumption` and `SizeAssumption` as before;
`DmaAssumption` (a routine is longer than 32 bytes, so that every range in the engines' pool is
longer than a descriptor); `ProgramAssumption` (256 bytes for a routine, `igen/main.cpp:29`; the
range files are finite and start at the program's start, pauses are whole words). None of the
properties is inductive. `ProgramInv` is the conjunction of

* `Memory`: the allocator's invariant. The values of the memory image may now also be in what the
  engines took (`EngineValued`).
* `Filled`: a data section is a claim, shorter than any routine, or part of a transfer. With
  `Engines` it gives `LinksWithoutOverlap`: sections are merged (`UnifyLSList`), and `SectionHull`
  shows that a merged section holds no byte of a routine, because whatever lies between the
  sections it joins is itself in a section.
* `Engines`: the invariant of `DmaEngine` (below), and that before the engines' turn there is
  nothing of theirs.
* `LowCode`: code begins at or behind `PROGRAM_START`, so no address of a routine is 0, which the
  code uses for "none".
* `Distinct`, `Worklist`, `Covered`, `Leaks`: what is on a list has a claim of its own, and no
  routine is on two lists, which is what makes `RoutinesFit` imply `NothingOverlaps`. Where a
  branch goes is on the worklist, being filled or done; or (`Lost`) it is the only branch, both
  lists are empty, and no memory is left for another one.
* `Body`: what a routine has so far and what it may still add, for plain bodies, macros and
  hardware loops; `PutRoom` and `RoomLeft` do its arithmetic.
* `Types`, `Finite` (the lists are finite, so that a least range exists) and `Printed`.

Until the engines start, the stronger `EarlyInv` is kept, one lemma per action (`FirstBranchStep`
... `ClaimISRStep`), over a lemma per kind of claim (`CodeClaim`, `DataClaim`, `SharedLoad`).

`DmaEngineProofs` has the invariant of the engines, `EngineInv`: the lists of ranges to be dealt
out hold ranges apart from each other and from all claims (`Pool`, `PoolUnclaimed`); what a
descriptor has taken (its two areas, its own bytes, its interrupt routine) is apart from free
memory, claims and other descriptors (`AreasFree`, `AreasApart`, `RoutinesApart`), with the
exception that engine 1 may use a data area again; every descriptor leads to the next, which is
in low memory (`Chained`); and a transfer lies in its ranges (`StaysInside`). `AllocateInv` shows
that adding a descriptor keeps it, `FinishInv` that the pass over the finished list does. The
lemmas are about the operators: sorting by address and dealing out in pairs (`Sorting`,
`Sharing`, `SplitAtFirst`), removing from and joining lists (`Removing`, `Joining`), and the
reach of a transfer, outer and inner loop, up or down (`Walk`, `ShapesFit`).

### 5.4 The generated code

`GeneratedCodeProofs` proves of `GeneratedCode`, for every number of registers and of interrupt
routines, every pool of instructions and every length of the bodies, iteration limit and number
of interrupts that come:

| theorem | property | hypothesis |
|---|---|---|
| `CodeInvariant` | `GenInv /\ CoreInv`, the inductive invariant | `SaveSpace` |
| `BeliefsAlwaysHold` | `BeliefsHold` | `SaveSpace` |
| `RoutinesReturn` | `ReturnsAsItWas` | `SaveSpace` |

The assumptions on the constants are `NREGSAssumption` (at least five registers, two of them for
the loop and the frame), `BoundsAssumption` (numbers) and `MenuAssumption` (the menus are
instructions). `SaveSpace` is what the code needs and does not see to: interrupt routines are
short (with 64 registers 29 instructions are, and the code's 64 bytes are 14), or the index drawn
for the loop register is not the last one, `NREGS-2`. In the second case three registers are
never changed by an instruction, one of them the loop register, and as every register is recorded
only once, `DistinctFit` counts that they fit before the status. The run `isr_save_area` is a
configuration without it, in which `ReturnsAsItWas` fails; that of `generated_code` satisfies it.

First the instructions, one by one: `Sound` says that when the registers and the flag are as the
generator believes, then after the instruction they are, in each of its outcomes, as it believes
next, and only registers that it recorded as changed have changed (`MovImmSound` ...
`PostModSound`, `InstructionSound`). The property itself is about a routine that has been drawn
long before, runs in a loop, and is interrupted, so the invariant has two halves.

* `GenInv`, while the generator draws. `Simulated` keeps of a routine the chain of beliefs: it
  starts from the pointers alone, and each belief follows from the one before it by the
  instruction between them. A chain drawn for fewer recorded registers is one for more
  (`SimulatedMore`). `Pointers` places the registers set aside around the loop and the frame
  register, out of reach of instructions; `SavesEnough` says that an interrupt routine saves the
  registers that its own entry uses besides.
* `CoreInv`, while the core runs. Its subject is a stack of contexts: the registers, flag and
  place of every routine begun, from the main one to the one that runs (`Context`). In every
  context, not only the last, the beliefs and the pointers hold (`Contextual`): that is what makes
  `BeliefsHold` survive a return. `Kept` says of each routine that its words at the frame, or the
  hardware's return address for the one that lets no other in, still hold what the context below
  needs, and that it has changed nothing that it has not saved (`Preserved`). That no routine is
  twice on the stack (`Nested`, from the ranks) and that the words of different routines are apart
  (`SaveAreasApart`) keep a nested interrupt from spoiling this.

A loop starts its body again with the pointers only, which is why the chain of beliefs must start
there, and why `Result` must not know what changes with the iterations.

### 5.5 The monitor

`MonitorAccessProofs`, for every set of callers, places and calls and any limit of polls:

| theorem | property | hypothesis |
|---|---|---|
| `AccessTypes` | `TypeOK` | |
| `NoAnswerLeftOver` | `NothingLeftOver` | |
| `GivesUpOnSilence` | `SilenceBeforeGiveUp` | |
| `ReadsGetAnswers` | `AnswersTheCall` | `OneThroughSPI` |
| `NoByteMissing` | `BytesPresent` | `OneThroughSPI` |

`OneThroughSPI` says that no configuration has two threads that call through the SPI. It is what
the code needs: the run `monitor_race` is a configuration with two, in which both properties
fail. The configurations of `monitor_access` satisfy it. `NothingLeftOver` is a count of answers
against callers for each address; submitting adds to both sides, an answer moves from open to
stored, taking removes one of each (`OverSubmit`, `OverAnswer`, `OverTake`). `Lone` says of a
caller that has the port to itself that its call is either open with nothing stored, or answered
whole; `Whole` and `Results`, for several callers through a host, that the bytes of a place come
and go together and answer a read of that place.

`MonitorFlowProofs`, for any hosts, number of cores, files, programs and engines, and a prompt or
a slow chip:

| theorem | property |
|---|---|
| `FlowInvariant` | `FlowInv`, the inductive invariant |
| `TrafficLogged` | `LoggedTraffic` |
| `NothingMissing` | `DumpComplete` |

`MonitorFlowAssumption`, the types of the constants, is the only assumption. The properties speak
of what the monitor cannot see; the invariant says where it is:

* `Watched`: at the second look everything under way in a prompt chip was already under way at
  the first, which is 2000 cycles ago. So there is nothing after it, and `Settled` says it stays so:
  from the sign-off on no core runs, none is started and none has written. `TrafficLogged` follows.
* `WritesKept`: a write of a file is still queued, or its read-back is in `signoffArray`; after the
  sign-off the read-back is queued, in hand, on its way, or back.
* `InOrder`: the reads of the registers are behind the read-backs of their host, in the queue, in
  hand and on the way; `RegistersRight`: the monitor goes on only when a right register of each core
  is back. In a slow chip that answers in order this leaves no read-back on its way, hence
  `NothingMissing`. In a prompt chip it is `LastWait` that does: what is on its way at the end was
  so when the last wait began.
* `Stages`, `SignOffReads` and `WritesOnce`: what the stage of the monitor says of the queues, and
  that no two things on their way are the same, so that `old` means what it says.

### 5.6 mgen

`TransactionMapProofs` proves `MulticastInOwnMemory` (`MulticastStaysHome`) for every number of
cores, hosts and slices and every set of options. `Groups` adds that a group with a core has a
slice, and only one: cores join with the slice at hand, and `MayJoin` lets only the first choose.

`VerdictAlwaysRight` (`VerdictIsRight`) says that without multicast, and with a core memory that
ends below the extended space if that may be dealt out, comparegen passes a test if and
only if each location has at the end what was last written to it, whatever mgen draws, however the
masters interleave, and however many writes the chip loses (`Losses` and `MaxExternal` are any
numbers). A multicast address, once set, stays, so that `VerdictInv` is needed only as long as
there is none. Its parts follow a location through the test:

* `AllPassed`, `DealtOnce`: mgen deals only what its loop is at, and the loop comes to no stripped
  address twice; so a stripped address has one owner, and it is never in the owner's own space.
  The proof needs slices of a core and host numbers that differ, which the code has, and
  `MemoryEndsBelow`: a core's slice is not an extended one, unless the options deal out none of
  these. The code leaves this to the caller, so it is a condition of `VerdictIsRight` and no
  assumption. `MemoryStays` says that no step changes it. It is the part that `Extended_FromZero`
  breaks.
* `OwnFiles`, `ExpectsBoth`: a host writes only what it owns, and what is expected at a location is
  expected where it comes back, too.
* `ExpectsLast`: the expected data is that of the last write still in the file or, when none is
  left, what was last written. This is what makes the order of the other masters irrelevant.
* `WrittenByOwner`, `HostsHave`, `ReadsCome`: the sign-off covers all that was written, and what a
  host has at a stripped address belongs to the one location there.
* `AllBack`: after `SignOff` every host that has data at a stripped address has the content of the
  location. `Parsed` then says that the order in which comparegen reads the hosts' files does not
  matter, and `PassesIffThere` draws the conclusion.

### 5.7 The debugger's memory server and the handler of the traps

`DebugHostProofs`, for any number of cores, any registers and values, and whatever the programs do
(`DebugHostAssumption` gives the types of the constants, `AddressesAssumption` says that what is
written of the host's memory is there; `NoneAssumption`, that the absence of a request, an address
or an answer is not one):

| theorem | states |
|---|---|
| `ServerInvariant` | `ServerInv`, the inductive invariant |
| `OneMemory` | `Memory!Init /\ [][Memory!Next \/ spoilt']_(Memory!vars)`, the safety part of `MemorySpec` |
| `HandlerInvariant` | `RunsInv`, the inductive invariant of the handler |
| `TrapsServedFirst` | `RunsServed` |

The refinement needs to know what is in the port and on its way when the server answers.

* `Queue`: the port has at most one write of the server, and behind it at most the read that is
  polled for. This is the wait of `writeMem` for an empty queue (`GetStimulusPendingSize`), and the
  reason why `Seen`, the chip's content with the queued write on top, is one memory.
* `OneAnswer`: no answer but that to the read that is polled for is on its way or in the host
  memory, it is there once, and only after the read has left the queue. `ReadMemDone` takes it
  away again, which is what `Taken_Kept` forgets; so `Found` is what this read found. This holds
  until `spoilt`, and only till then: the run `answer_address` shows what happens afterwards.
* `Stages` says what the server waits for in each place, `ServerTypes` that the queues hold entries.

A read is looked up (`LookUp`) when the chip takes it, at once when it is of the host memory
(`DeliverRead`, `ReadMemOfHostStep`); a write is answered when it is queued, and what delivers it
to the chip changes nothing that is seen (`WriteMemQueued`, `DeliverWrite`). What a program writes
is seen at once, unless a write to the same place is queued, which it cannot undo (`ProgramsOwn`),
or, for the host, when it arrives (`SampleStep`). Without a debugger all steps stutter
(`BatchStep`). That requests are answered is liveness and remains with the run.

The handler of the traps reads what it needs over the same port, and several cores may trap, and
send their texts, while it serves one. `Batch` is what makes `RunsServed` inductive:

* `HandlerQueue`: a result, then a resume, then the read of the next status, in this order. So
  when a resume reaches a core its result is there (`ResultDelivered`), which is what
  `PrintText_ResumesFirst` breaks.
* `HandlerAnswers`: nothing but the answer to the read that is polled for is on its way, and it
  `Tells` the core as it is. A status that says "halt" is behind all the texts of that core
  (`j < i`), because a core sends its text before it halts; the answers come in order. This is why
  the handler may take the text from the host memory without asking whether it has come: once it
  knows the core to be halted there is no text of it under way (`Attended`, `NoPost`).
* `Unserved`: a halted core the handler has not served has one text more than is printed, and the
  last is in the host memory, if it was sent there, or under way (`TextThere`). `TrapStep`
  establishes this, `ArgumentsStep` and `PrintStep` use it.
* `Released`: between the printing and the resume the core stands still; it makes no new trap
  before the result is written. `CoreSame` says when a step leaves all this alone for a core.

That a trap is served at all, or the run stopped, is `TrapsServed`, liveness again.

### 5.8 Only model-checked

* All liveness (`ReadsAnswered`, `CallEnds`, `Ends`, `Finishes`, the answers in `MemorySpec`, and
  `TrapsServed`), which is out of the prover's reach.

## 6. Not modelled

* Vendored and generated code (`verilated.cpp`, `Sp.cpp`, the `Debug` makefiles): the chip is
  what the test bench sees of it.
* Argument parsing, wiring, wave recording (`sc_main.cpp`, `vmodel_utils.h`, `traceSupport.h`)
  and the shell scripts: no state of their own; what they decide is a constant of the modules.
* The loading pass over the stimulus file, with preconfiguration and its delays in cycles, and
  the bit fields of an address: `HostPort` takes their results.
* The text of the instructions igen prints, the numbers of the floating point macros
  (`fp_macro_instr.h`; see the hazard at line 471) and the configuration registers.
* mgen's ILAT files, delays and message mode; comparegen's DMA areas and counts.
* The ten cycles between an error and the end of the simulation.

---------------------------- MODULE MonitorFlow ----------------------------
(***************************************************************************)
(* How the monitor ends a test (epiphany_models/monitor.cpp,               *)
(* CheckCoreStatus, and the timeout of monitor_loop), with the ports and   *)
(* the chip it watches; NCORES > 2, where it reads the cores by the SPI.   *)
(*                                                                         *)
(* The monitor knows three things: how many entries each port has still to *)
(* drive, whether a port has received anything since the last look, and    *)
(* the registers of a core, one register at a time.  From these it decides *)
(* that the cores are done, then that the hosts are, starts the sign-off   *)
(* reads, writes and reads back a register of each core by each host, and  *)
(* stops the test, which writes the host memory out.  Nothing tells it     *)
(* what is under way in the chip.                                          *)
(*                                                                         *)
(* Time is the order of the steps.  In a test that is prompt, what is      *)
(* under way when a wait of the monitor of 2000 cycles or more starts is   *)
(* over when it ends; otherwise the chip may be as slow as it likes, but   *)
(* answers the reads of one host in their order.                           *)
(***************************************************************************)
EXTENDS Naturals, Sequences, SequencesExt

CONSTANTS
  Host,    \* the hosts, in the order the monitor looks at them
  MaxCores,  \* bound: cores of the chip
  Tests    \* what is run: see TestShape

Hosts == {Host[i] : i \in 1..Len(Host)}
Port == Hosts \cup {"spi"}
Engine == {"timer", "dma"}

(***************************************************************************)
(* An entry of a stimulus queue: a write to the memory of the chip, a      *)
(* sign-off read of the no-th of them, a write to the ILAT of a core (it   *)
(* starts the core or interrupts it), the two configuration writes, and    *)
(* the write and the read of a register of a core.                         *)
(***************************************************************************)
Kind == {"mem", "memRead", "ilat", "CORE_CONFIG", "MESH_CONFIG", "reg", "regRead"}
Entry == [kind: Kind, no: Nat]
NoEntry == [kind |-> "none", no |-> 0]

(***************************************************************************)
(* A test: the number of cores; what the files of the hosts have them      *)
(* write (the reads in the files are left out: the monitor never waits for *)
(* one, and its answer is ahead of those to the sign-off reads of its      *)
(* host; the monitor adds the other kinds); the timer and the DMA that the *)
(* program starts at its beginning; what its main part and its interrupt   *)
(* routines do besides computing (writes to a host, breakpoints with       *)
(* -bkpt_on, the timer started again by its interrupt, each counts as      *)
(* one); whether the instructions at which it halts may be others than the *)
(* breakpoints that the monitor expects, or in no memory; whether the DMA  *)
(* may fail; how often core 0 is suspended (0 unless random_stop_resume_on *)
(* is set); whether the timeout may come; and the chip.                    *)
(***************************************************************************)
FileEntry == [kind: {"mem", "ilat"}, no: Nat]
TestShape == [NCORES: 1..MaxCores, files: [Hosts -> Seq(FileEntry)], engines: SUBSET Engine, work: Nat,
              does: SUBSET {"write", "break", "restart"}, traps: BOOLEAN,
              dmaFails: BOOLEAN, suspends: 0..11, timeout: BOOLEAN, prompt: BOOLEAN]

ASSUME MonitorFlowAssumption ==
  /\ MaxCores \in Nat /\ Tests \subseteq TestShape
  /\ "spi" \notin Hosts

VARIABLES
  test,
  stimulusArray, sEntry, signoffArray, signOffStarted,   \* of each host
  fSlaveInterfaceActive,                                 \* of each port
  hostMem,         \* the answers stored in fExpectedDataFromDut
  unlogged,        \* a core's write came after the sign-off started
  \* the chip:
  answers,         \* for each host, what is on its way to it
  started, running, halted, irq, engines, dmaError, left,
  reg,             \* the registers written at the end of the test
  old,             \* what was under way when the last long wait began
  \* CheckCoreStatus:
  pc, ncore, loaded, nStopAndResumes, quiet, coreDone,
  stopped          \* how the simulation ended

portVars == <<stimulusArray, sEntry, signoffArray, signOffStarted>>
coreVars == <<started, running, halted, irq, engines, dmaError, left>>
chipVars == <<answers, coreVars, reg>>
recordVars == <<fSlaveInterfaceActive, hostMem, unlogged>>
flowVars == <<pc, ncore, loaded, nStopAndResumes, quiet, coreDone>>
vars == <<test, portVars, recordVars, chipVars, old, flowVars, stopped>>

Running == stopped = "no"
Core == 0..(test.NCORES - 1)
-----------------------------------------------------------------------------
Init ==
  /\ test \in Tests
  /\ stimulusArray = test.files
  /\ sEntry = [h \in Hosts |-> NoEntry]
  /\ signoffArray = [h \in Hosts |-> <<>>] /\ signOffStarted = FALSE
  /\ fSlaveInterfaceActive = [p \in Port |-> FALSE]
  /\ hostMem = {} /\ unlogged = FALSE
  /\ answers = [h \in Hosts |-> <<>>]
  /\ started = [c \in Core |-> FALSE]
  /\ running = [c \in Core |-> "no"] /\ halted = [c \in Core |-> FALSE]
  /\ irq = [c \in Core |-> {}] /\ engines = [c \in Core |-> {}]
  /\ dmaError = [c \in Core |-> FALSE] /\ left = [c \in Core |-> test.work]
  /\ reg = {} /\ old = {}
  /\ pc = "load" /\ ncore = 0 /\ loaded = 0
  /\ nStopAndResumes = test.suspends
  /\ quiet = TRUE /\ coreDone = [c \in Core |-> FALSE]
  /\ stopped = "no"
-----------------------------------------------------------------------------
(* The ports, as far as the monitor can tell: HostPort has the rest.       *)

Busy(c) == running[c] # "no" \/ irq[c] # {} \/ engines[c] # {}

\* An old thing is over, or goes on as something else that is old.
Becomes(thing, next) ==
  IF thing \in old THEN (old \ {thing}) \cup next ELSE old

\* The driver takes an entry; the sign-off read of a write is kept now.
PopStimulus(h) ==
  /\ Running /\ sEntry[h] = NoEntry /\ stimulusArray[h] # <<>>
  /\ LET e == Head(stimulusArray[h]) IN
       /\ sEntry' = [sEntry EXCEPT ![h] = e]
       /\ signoffArray' = IF e.kind = "mem"
            THEN [signoffArray EXCEPT ![h] = Append(@, [e EXCEPT !.kind = "memRead"])]
            ELSE signoffArray
  /\ stimulusArray' = [stimulusArray EXCEPT ![h] = Tail(@)]
  /\ UNCHANGED <<test, signOffStarted, recordVars, chipVars, old, flowVars, stopped>>

\* The chip takes it: a read sends an answer on its way.
Deliver(h) ==
  /\ Running /\ sEntry[h] # NoEntry
  /\ LET e == sEntry[h]
         read == e.kind \in {"memRead", "regRead"}
         answer == [kind |-> e.kind, no |-> e.no,
                    good |-> (e.kind = "regRead" => <<h, e.no>> \in reg)]
     IN  /\ answers' = IF read THEN [answers EXCEPT ![h] = Append(@, answer)]
                       ELSE answers
         /\ irq' = IF e.kind = "ilat" THEN [irq EXCEPT ![e.no] = @ \cup {"program"}] ELSE irq
         /\ reg' = IF e.kind = "reg" THEN reg \cup {<<h, e.no>>} ELSE reg
         /\ old' = Becomes(<<"entry", h>>,
              IF read THEN {<<"answer", h, answer>>}
              ELSE IF e.kind = "ilat" THEN {<<"core", e.no>>} ELSE {})
  /\ sEntry' = [sEntry EXCEPT ![h] = NoEntry]
  /\ UNCHANGED <<test, stimulusArray, signoffArray, signOffStarted, recordVars,
                 started, running, halted, engines, dmaError, left, flowVars, stopped>>

\* Sample: an answer is stored; any write of the chip marks the port active.
Sample(h, i) ==
  /\ Running /\ i \in DOMAIN answers[h] /\ (test.prompt \/ i = 1)
  /\ answers' = [answers EXCEPT ![h] = RemoveAt(@, i)]
  /\ LET a == answers[h][i] IN
       /\ old' = old \ {<<"answer", h, a>>}
       /\ hostMem' = IF a.kind = "core" THEN hostMem
                     ELSE hostMem \cup {<<h, a>>}
       /\ unlogged' = (unlogged \/ (a.kind = "core" /\ signOffStarted))
  /\ fSlaveInterfaceActive' = [fSlaveInterfaceActive EXCEPT ![h] = TRUE]
  /\ UNCHANGED <<test, portVars, coreVars, reg, flowVars, stopped>>
-----------------------------------------------------------------------------
(* A core, as far as the monitor can tell: it runs its program, an         *)
(* interrupt routine of it, or FINILIZE_TEST, the one of the page miss.    *)

CoreStep(c) ==
  /\ Running
  /\ UNCHANGED <<test, portVars, recordVars, reg, flowVars, stopped>>

\* An interrupt; the first one starts the program.
Wake(c) ==
  /\ CoreStep(c) /\ running[c] = "no" /\ ~halted[c]
  /\ \E i \in irq[c] :
       /\ irq' = [irq EXCEPT ![c] = @ \ {i}]
       /\ running' = [running EXCEPT ![c] = i]
  /\ started' = [started EXCEPT ![c] = TRUE]
  /\ engines' = IF started[c] THEN engines ELSE [engines EXCEPT ![c] = test.engines]
  /\ UNCHANGED <<answers, halted, dmaError, left, old>>

Work(c, what) ==
  /\ CoreStep(c) /\ running[c] = "program" /\ ~halted[c]
  /\ left[c] > 0 /\ what \in test.does
  /\ left' = [left EXCEPT ![c] = @ - 1]
  /\ UNCHANGED <<started, running, irq, dmaError>>

WriteToHost(c) ==
  /\ Work(c, "write")
  /\ LET w == [kind |-> "core", no |-> c, nth |-> left[c]] IN \E h \in Hosts :
       /\ answers' = [answers EXCEPT ![h] = Append(@, w)]
       /\ old' = IF <<"core", c>> \in old THEN old \cup {<<"answer", h, w>>} ELSE old
  /\ UNCHANGED <<halted, engines>>

RestartTimer(c) ==
  /\ Work(c, "restart")
  /\ engines' = [engines EXCEPT ![c] = @ \cup {"timer"}]
  /\ UNCHANGED <<answers, halted, old>>

Breakpoint(c) ==
  /\ Work(c, "break")
  /\ halted' = [halted EXCEPT ![c] = TRUE]
  /\ old' = old \ {<<"core", c>>}
  /\ UNCHANGED <<answers, engines>>

\* The idle instruction.
Idle(c) ==
  /\ CoreStep(c) /\ running[c] # "no" /\ ~halted[c]
  /\ running' = [running EXCEPT ![c] = "no"]
  /\ old' = IF irq[c] # {} \/ engines[c] # {} THEN old ELSE old \ {<<"core", c>>}
  /\ UNCHANGED <<answers, started, halted, irq, engines, dmaError, left>>

\* A timer or a DMA ends with an interrupt, or the DMA with an error.
EndEngine(c) ==
  /\ CoreStep(c)
  /\ ~dmaError[c]
  /\ \E e \in engines[c] :
       \/ /\ engines' = [engines EXCEPT ![c] = @ \ {e}]
          /\ irq' = [irq EXCEPT ![c] = @ \cup {"program"}]
          /\ UNCHANGED dmaError
       \/ /\ e = "dma" /\ test.dmaFails
          /\ dmaError' = [dmaError EXCEPT ![c] = TRUE]
          /\ UNCHANGED <<engines, irq>>
  /\ UNCHANGED <<answers, started, running, halted, left, old>>
-----------------------------------------------------------------------------
(* CheckCoreStatus.                                                        *)

FlowStep(from) ==
  /\ Running /\ pc = from
  /\ UNCHANGED <<test, sEntry, signoffArray, unlogged, answers, started, running,
                 engines, dmaError, left, reg>>

\* GetDataByHost and SeDataByHost by the SPI (MonitorAccess has the calls):
\* a call takes far longer than a core takes to answer an interrupt.
Access ==
  /\ \A c \in Core : irq[c] # {} => running[c] # "no" \/ halted[c]
  /\ fSlaveInterfaceActive' = [fSlaveInterfaceActive EXCEPT !["spi"] = TRUE]

NoAccess == UNCHANGED fSlaveInterfaceActive

\* What is under way, in the ports and the chip, and in the cores.
UnderWay ==
  {<<"entry", h>> : h \in {g \in Hosts : sEntry[g] # NoEntry}} \cup
  UNION {{<<"answer", h, a>> : a \in ToSet(answers[h])} : h \in Hosts}

BusyCores == {<<"core", c>> : c \in {d \in Core : Busy(d) /\ ~halted[d]}}

\* A wait of 2000 cycles or more: it starts, and it is over.
StartWait(things) == old' = IF test.prompt THEN things ELSE {}
LongWait == old = {}

Halt(c) == halted' = [halted EXCEPT ![c] = TRUE]
Resume(c) == halted' = [halted EXCEPT ![c] = FALSE]

\* "wait until the end of load": each queue seen empty once, in order.
WaitLoad ==
  /\ FlowStep("load")
  /\ stimulusArray[Host[loaded + 1]] = <<>>
  /\ loaded' = loaded + 1
  /\ pc' = IF loaded' < Len(Host) THEN "load"
           ELSE IF nStopAndResumes > 0 THEN "halt" ELSE "wait"
  /\ StartWait(UnderWay)
  /\ NoAccess
  /\ UNCHANGED <<stimulusArray, signOffStarted, hostMem, halted, irq, ncore,
                 nStopAndResumes, quiet, coreDone, stopped>>

Suspend ==
  /\ FlowStep("halt")
  /\ Halt(0) /\ Access /\ pc' = "halting"
  /\ UNCHANGED <<stimulusArray, signOffStarted, hostMem, irq, old, ncore, loaded,
                 nStopAndResumes, quiet, coreDone, stopped>>

\* The core has stopped and none of its transactions is out.
IsHalted(c) ==
  halted[c] /\ \A h \in Hosts : \A i \in DOMAIN answers[h] :
                answers[h][i].kind = "core" => answers[h][i].no # c

ResumeSuspended ==
  /\ FlowStep("halting") /\ IsHalted(0)
  /\ Resume(0) /\ Access
  /\ nStopAndResumes' = nStopAndResumes - 1 /\ pc' = "resuming"
  /\ UNCHANGED <<stimulusArray, signOffStarted, hostMem, irq, old, ncore, loaded,
                 quiet, coreDone, stopped>>

\* "wait for resume state": the core may have halted again before it is seen.
Resumed ==
  /\ FlowStep("resuming") /\ ~halted[0]
  /\ Access
  /\ pc' = IF nStopAndResumes > 0 THEN "halt" ELSE "wait"
  /\ UNCHANGED <<stimulusArray, signOffStarted, hostMem, halted, irq, old, ncore, loaded,
                 nStopAndResumes, quiet, coreDone, stopped>>

\* wait(3000) before each round over the cores.
StartRound ==
  /\ FlowStep("wait") /\ \A t \in old : t[1] = "core"
  /\ old' = {}
  /\ ncore' = 0 /\ quiet' = TRUE /\ pc' = "timers"
  /\ NoAccess
  /\ UNCHANGED <<stimulusArray, signOffStarted, hostMem, halted, irq, loaded,
                 nStopAndResumes, coreDone, stopped>>

\* The next core of the round, or the end of the round.
NextCore ==
  IF ncore + 1 < test.NCORES
  THEN ncore' = ncore + 1 /\ pc' = "timers" /\ UNCHANGED old
  ELSE /\ ncore' = 0
       /\ pc' = IF \A c \in Core : coreDone'[c] THEN "look" ELSE "wait"
       /\ StartWait(IF pc' = "look" THEN {} ELSE UnderWay)

SkipDone ==
  /\ FlowStep("timers") /\ coreDone[ncore]
  /\ UNCHANGED coreDone /\ NextCore
  /\ NoAccess
  /\ UNCHANGED <<stimulusArray, signOffStarted, hostMem, halted, irq, loaded,
                 nStopAndResumes, quiet, stopped>>

\* One register, or two that are read in a row, at a time.
ReadRegister(from, to, seen) ==
  /\ FlowStep(from) /\ Access
  /\ quiet' = (quiet /\ seen) /\ pc' = to
  /\ UNCHANGED <<stimulusArray, signOffStarted, hostMem, halted, irq, old, ncore,
                 loaded, nStopAndResumes, coreDone, stopped>>

ReadTimers == ~coreDone[ncore] /\ ReadRegister("timers", "ilat", "timer" \notin engines[ncore])
ReadILAT == ReadRegister("ilat", "dmaStatus", irq[ncore] = {})
ReadDMAStatus ==
  ~dmaError[ncore] /\ ReadRegister("dmaStatus", "status", "dma" \notin engines[ncore])
ReadStatus == ReadRegister("status", "decide", running[ncore] = "no")

\* fExpectedDataFromDut->clear(), then sc_stop().
Abort == hostMem' = {} /\ stopped' = "error" /\ pc' = "stopped"

\* The status registers show an error of a DMA.
DMAErrorReported ==
  /\ FlowStep("dmaStatus") /\ dmaError[ncore]
  /\ Abort /\ Access
  /\ UNCHANGED <<stimulusArray, signOffStarted, halted, irq, old, ncore, loaded,
                 nStopAndResumes, quiet, coreDone>>

\* CoreDoneState: the page miss interrupt, then FINILIZE.
Finilize ==
  /\ FlowStep("decide") /\ quiet
  /\ irq' = [irq EXCEPT ![ncore] = @ \cup {"FINILIZE_TEST"}]
  /\ Access /\ pc' = "finilize"
  /\ UNCHANGED <<stimulusArray, signOffStarted, hostMem, halted, old, ncore, loaded,
                 nStopAndResumes, quiet, coreDone, stopped>>

Done ==
  /\ FlowStep("finilize") /\ running[ncore] = "no"
  /\ coreDone' = [coreDone EXCEPT ![ncore] = TRUE]
  /\ Access /\ quiet' = TRUE /\ NextCore
  /\ UNCHANGED <<stimulusArray, signOffStarted, hostMem, halted, irq, loaded,
                 nStopAndResumes, stopped>>

\* The core is not done: is it halted?
NotDone ==
  /\ FlowStep("decide") /\ ~quiet
  /\ Access /\ quiet' = TRUE /\ UNCHANGED coreDone
  /\ IF halted[ncore] THEN pc' = "opcode" /\ UNCHANGED <<ncore, old>> ELSE NextCore
  /\ UNCHANGED <<stimulusArray, signOffStarted, hostMem, halted, irq, loaded,
                 nStopAndResumes, stopped>>

\* Its PC, which stays, and the instruction there, unless that is of another core.
ReadOpcode ==
  /\ FlowStep("opcode") /\ Access
  /\ \/ pc' = "resume" /\ UNCHANGED stopped
     \/ test.traps /\ pc' = "stopped" /\ stopped' = "error"
  /\ UNCHANGED <<stimulusArray, signOffStarted, hostMem, halted, irq, old, ncore, loaded,
                 nStopAndResumes, quiet, coreDone>>

ResumeBreakpoint ==
  /\ FlowStep("resume")
  /\ Resume(ncore) /\ Access
  /\ UNCHANGED <<quiet, coreDone>> /\ NextCore
  /\ UNCHANGED <<stimulusArray, signOffStarted, hostMem, irq, loaded,
                 nStopAndResumes, stopped>>
-----------------------------------------------------------------------------
(* isHostDriversDone, and what follows when the cores are done.            *)

NothingPending == \A h \in Hosts : stimulusArray[h] = <<>>

Ports == Host \o <<"spi">>
Active == {i \in 1..Len(Ports) : fSlaveInterfaceActive[Ports[i]]}

\* Mutant: the flags are read, not cleared.
Cleared_None == {}

\* The flags that GetClearISSlaveInfActive clears: those up to the first
\* that is set, and none while an entry is pending.
Cleared ==
  IF NothingPending
  THEN {Ports[i] : i \in {j \in 1..Len(Ports) : \A k \in Active : j <= k}}
  ELSE {}

\* One look at the hosts, and what follows if they are done or not.
Look(from, done, notDone) ==
  /\ FlowStep(from)
  /\ pc' = IF NothingPending /\ Active = {} THEN done ELSE notDone
  /\ fSlaveInterfaceActive' =
       [p \in Port |-> fSlaveInterfaceActive[p] /\ p \notin Cleared]
  /\ UNCHANGED <<stimulusArray, signOffStarted, hostMem, halted, irq, ncore, loaded,
                 nStopAndResumes, quiet, coreDone, stopped>>

\* Mutant: the hosts are looked at once.
AfterFirstLook_SignOff == "signOff"

AfterFirstLook == "lookAgain"

\* After 1000 cycles, and again 2000 cycles after a good look.
FirstLook ==
  Look("look", AfterFirstLook, "look") /\ StartWait(UnderWay \cup BusyCores)
SecondLook == LongWait /\ Look("lookAgain", "signOff", "look") /\ old' = {}

WaitSignOff == Look("drain", "config", "drain") /\ UNCHANGED old
LastLook == Look("last", "stop", "last") /\ StartWait(UnderWay)

AddEntries(more) == stimulusArray' = [h \in Hosts |-> stimulusArray[h] \o more[h]]

\* A step that adds entries to the queue of each host.
Drive(from, to, more) ==
  /\ FlowStep(from)
  /\ AddEntries(more) /\ pc' = to
  /\ NoAccess
  /\ UNCHANGED <<old, hostMem, halted, irq, loaded, nStopAndResumes, quiet, coreDone,
                 stopped>>

DispathSignOff ==
  /\ Drive("signOff", "drain", signoffArray)
  /\ signOffStarted' = TRUE /\ UNCHANGED ncore

\* The clock gating of one core after the other is turned off.
ConfigWrites == [h \in Hosts |->
  <<[kind |-> "CORE_CONFIG", no |-> ncore], [kind |-> "MESH_CONFIG", no |-> ncore]>>]

TurnOffClockGating ==
  /\ ncore' = (ncore + 1) % test.NCORES
  /\ Drive("config", IF ncore' = 0 THEN "writeRegs" ELSE "config", ConfigWrites)
  /\ UNCHANGED signOffStarted

\* For each core, the same for every host.
PerCore(kind) == [h \in Hosts |-> [i \in 1..test.NCORES |-> [kind |-> kind, no |-> i - 1]]]

WriteRegisters ==
  /\ Drive("writeRegs", "readRegs", PerCore("reg"))
  /\ UNCHANGED <<signOffStarted, ncore>>

ReadRegisters ==
  /\ Drive("readRegs", "regsBack", PerCore("regRead"))
  /\ UNCHANGED <<signOffStarted, ncore>>

Back(h, c) == {r \in hostMem : r[1] = h /\ r[2].kind = "regRead" /\ r[2].no = c}

\* Mutant: the answer to one host is enough.
IsCoreIdEndofTest_Any == \E h \in Hosts : Back(h, ncore) # {}

IsCoreIdEndofTest == \A h \in Hosts : Back(h, ncore) # {}

RegistersBack ==
  /\ FlowStep("regsBack") /\ IsCoreIdEndofTest
  /\ IF \E h \in Hosts : \E r \in Back(h, ncore) : ~r[2].good
     THEN Abort /\ UNCHANGED ncore
     ELSE /\ ncore' = (ncore + 1) % test.NCORES
          /\ pc' = IF ncore' = 0 THEN "last" ELSE "regsBack"
          /\ UNCHANGED <<hostMem, stopped>>
  /\ NoAccess
  /\ UNCHANGED <<stimulusArray, signOffStarted, halted, irq, old, loaded,
                 nStopAndResumes, quiet, coreDone>>

\* stop_test: the host memory is written out as it is now.
StopTest ==
  /\ FlowStep("stop") /\ LongWait
  /\ stopped' = "done" /\ pc' = "stopped"
  /\ NoAccess
  /\ UNCHANGED <<stimulusArray, signOffStarted, hostMem, halted, irq, old, ncore,
                 loaded, nStopAndResumes, quiet, coreDone>>

(* monitor_loop: some registers of each core are read, then the same.      *)
Timeout ==
  /\ Running /\ test.timeout
  /\ stopped' = "timeout"
  /\ UNCHANGED <<test, portVars, recordVars, chipVars, old, flowVars>>
-----------------------------------------------------------------------------
CheckCoreStatus ==
  \/ WaitLoad \/ Suspend \/ ResumeSuspended \/ Resumed
  \/ StartRound \/ SkipDone \/ ReadTimers \/ ReadILAT \/ ReadDMAStatus \/ ReadStatus
  \/ DMAErrorReported \/ Finilize \/ Done
  \/ NotDone \/ ReadOpcode \/ ResumeBreakpoint
  \/ FirstLook \/ SecondLook \/ DispathSignOff \/ WaitSignOff
  \/ TurnOffClockGating \/ WriteRegisters \/ ReadRegisters \/ RegistersBack
  \/ LastLook \/ StopTest

PortStep(h) == PopStimulus(h) \/ Deliver(h)
Answer(h) == \E i \in 1..Len(answers[h]) : Sample(h, i)
CoreRuns(c) ==
  Wake(c) \/ WriteToHost(c) \/ RestartTimer(c) \/ Breakpoint(c) \/ Idle(c)

Next ==
  \/ CheckCoreStatus \/ Timeout
  \/ \E h \in Hosts : PortStep(h) \/ Answer(h)
  \/ \E c \in Core : CoreRuns(c) \/ EndEngine(c)

Spec == Init /\ [][Next]_vars

(***************************************************************************)
(* The threads of a SystemC module run at every clock edge, so each goes   *)
(* on; the chip answers, and programs, timers and DMAs come to an end.     *)
(***************************************************************************)
FairSpec ==
  /\ Spec
  /\ WF_vars(CheckCoreStatus)
  /\ \A h \in Hosts : WF_vars(PortStep(h)) /\ WF_vars(Answer(h))
  /\ \A c \in 0..(MaxCores - 1) :
       WF_vars(c \in Core /\ CoreRuns(c)) /\ WF_vars(c \in Core /\ EndEngine(c))
-----------------------------------------------------------------------------
(* Properties.                                                             *)

(***************************************************************************)
(* In a prompt chip every write of a core to a host arrives before the     *)
(* sign-off starts, so its address is in host_addr_out and comparegen      *)
(* looks at it, although the cores are read one register at a time, are    *)
(* never looked at again once done, and may still be interrupted.          *)
(***************************************************************************)
LoggedTraffic == test.prompt => ~unlogged

(***************************************************************************)
(* When CheckCoreStatus stops the test, the host memory it writes out      *)
(* holds, for every host, what was read back for each of its writes to the *)
(* memory of the chip, and the right value of a register of every core:    *)
(* in a prompt chip, and in a slow one that answers in order.              *)
(***************************************************************************)
DumpComplete ==
  stopped = "done" => \A h \in Hosts :
    /\ \A e \in {f \in ToSet(test.files[h]) : f.kind = "mem"} :
         \E r \in hostMem : r[1] = h /\ r[2].kind = "memRead" /\ r[2].no = e.no
    /\ \A c \in Core : \E r \in Back(h, c) : r[2].good

(***************************************************************************)
(* The loops of CheckCoreStatus do not wait for what cannot come, so the   *)
(* test ends; as done, unless a DMA failed, a core halted where it should  *)
(* not, or the time was out.  Two loops can hold the monitor until the     *)
(* time is out, and only a core halted at a breakpoint makes them: neither *)
(* resumes it.  The stage FINILIZE waits for the core to be idle, which a  *)
(* timer or a late entry may have started again after its registers were   *)
(* read; and after a suspension core 0 is waited for to leave the halt     *)
(* state, and may have run into a breakpoint before it is looked at.       *)
(***************************************************************************)
HeldInFinilize == pc = "finilize" /\ halted[ncore] /\ "break" \in test.does
HeldInResume == pc = "resuming" /\ halted[0] /\ "break" \in test.does

Ends ==
  \/ <>(\/ stopped \in {"done", "timeout"}
        \/ stopped = "error" /\ (test.dmaFails \/ test.traps))
  \/ <>[]HeldInFinilize \/ <>[]HeldInResume
=============================================================================

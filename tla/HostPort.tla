------------------------------ MODULE HostPort ------------------------------
(***************************************************************************)
(* One Stimulus module of the testbench (epiphany_models/stimulus.{h,cpp}) *)
(* and the chip's side of that port.                                       *)
(*                                                                         *)
(* A Stimulus runs two threads on the falling clock edge.  drive_stimulus  *)
(* pops the stimulus queue and drives the chip's slave interface; Sample   *)
(* takes what the chip's master interface presents, stores writes in the   *)
(* host memory and puts the answer to a read into the stimulus queue,      *)
(* ahead of the regular entries.  The chip works on the rising edge.  Both *)
(* sides may raise a wait signal.                                          *)
(*                                                                         *)
(* A state is a moment within a clock cycle: todo holds the threads that   *)
(* have not yet run at this falling edge; they run in either order,        *)
(* because SystemC does not fix one, and the rising edge follows.          *)
(***************************************************************************)
EXTENDS Integers, Sequences, SequencesExt

CONSTANTS
  LoadFiles,    \* the stimulus files, each a sequence of kinds
  MaxRegular,   \* bound: regular entries the port is ever given by a client
  MaxRequest,   \* bound: transactions the chip sends to this host
  MaxBackoff,   \* longest back-pressure of Sample; 0 when NCORES <= 2
  Delays,       \* the delays an entry may carry
  HoldLimit     \* cycles the driver tolerates the chip's wait (300000)

(***************************************************************************)
(* What the code tells apart in an entry's dataMode, ctrlMode and dstAddr: *)
(* a write to chip memory or to another host, a read, a write to a core's  *)
(* ILAT register, a write to another memory-mapped register of the chip, a *)
(* multicast write, and an entry no part of the test bench owns.           *)
(***************************************************************************)
Kind == {"write", "read", "ilat", "mmr", "mcast", "stray"}
WriteKind == {"write", "ilat", "mmr", "mcast"}
ClientKind == {"write", "read", "ilat", "mmr"}
Class == {"reg", "wb"}
Thread == {"drive", "sample"}

ASSUME HostPortAssumption ==
  /\ LoadFiles \subseteq Seq(Kind)
  /\ MaxRegular \in Nat /\ MaxRequest \in Nat /\ MaxBackoff \in Nat
  /\ Delays \subseteq Nat /\ HoldLimit \in Nat

(***************************************************************************)
(* A StimulusEntry.  cls = "wb" is isWriteBack.  ref is the payload: for   *)
(* an answer, the host memory's value; for a sign-off read, the write it   *)
(* reads back.  no is a ticket the model adds: the entry is the no-th of   *)
(* its class (for an answer: it belongs to the chip's no-th read).         *)
(***************************************************************************)
Entry == [cls: Class, no: Nat, kind: Kind, delay: Nat, ref: Nat]
NoEntry == [cls |-> "reg", no |-> 0, kind |-> "stray", delay |-> 0, ref |-> 0]

(***************************************************************************)
(* A transaction of the chip's master interface: the no-th read or the     *)
(* no-th write it sends to this host.                                      *)
(***************************************************************************)
Request == [write: BOOLEAN, no: Nat]
NoRequest == [write |-> FALSE, no |-> 0]

VARIABLES
  isSpi,            \* the port is the SPI driver
  stimulusArray, signoffArray, signOffStarted,
  pc, sEntry, do_wait, chip_slave_wait,
  bus,              \* what drive_stimulus presents to the chip
  backoff,          \* cycles Sample still holds stim_wr_wait and stim_rd_wait
  hostMem,          \* the last chip write stored in fHostMemArray, 0 if none
  addrLog,          \* the chip writes logged in host_addr_out_<base>.txt
  dut_wr_wait, dut_rd_wait,
  dutBus,           \* what the chip presents to this host
  written,          \* how many writes the chip has presented
  asked,            \* for each read the chip has presented, written at the time
  todo,             \* threads still to run at this falling edge
  aborted,          \* sc_stop was called on an error
  \* history:
  sub,              \* entries submitted, by class
  com,              \* entries popped, by class
  got,              \* entries the chip accepted, by class, in order
  regKind,          \* kinds of the regular entries, in submission order
  signPoint         \* regular entries popped when sign-off was dispatched

queueVars == <<stimulusArray, signoffArray>>
driveVars == <<pc, sEntry, do_wait, chip_slave_wait, bus, com>>
sampleVars == <<backoff, addrLog>>
dutVars == <<dut_wr_wait, dut_rd_wait, dutBus, written, asked, got>>
clientVars == <<signOffStarted, signPoint, regKind>>
vars == <<queueVars, driveVars, sampleVars, dutVars, clientVars,
          hostMem, sub, todo, aborted, isSpi>>
-----------------------------------------------------------------------------
(* The stimulus queue.                                                     *)

IsWrite(e) == e.kind \in WriteKind

\* AddWriteBackStimulus passes over answers and over ILAT writes.
LetsPass(e) == e.cls = "wb" \/ e.kind = "ilat"

Ahead(q) ==
  \A i, j \in 1..Len(q) : i < j /\ q[j].cls = "wb" => LetsPass(q[i])

Stops(q) == {i \in 1..Len(q) : ~LetsPass(q[i])}

\* Mutant of the insertion: at the end.
InsertLast(q) == Len(q) + 1

InsertPoint(q) ==
  IF Stops(q) = {} THEN Len(q) + 1
  ELSE CHOOSE i \in Stops(q) : \A j \in Stops(q) : i <= j

AddWriteBackStimulus(q, e) == InsertAt(q, InsertPoint(q), e)

\* Mutant: register writes and answers are read back too.
ReadBackAll(e) == IsWrite(e)

\* drive_stimulus keeps a read of every regular, non-multicast write that
\* does not go to the memory-mapped registers of the chip.
ReadBack(e) == e.cls = "reg" /\ e.kind = "write"

SignOffRead(e) == [e EXCEPT !.kind = "read", !.ref = e.no]

\* An entry can go when the wait signal of its own direction is low.
Ready(e) == IF IsWrite(e) THEN ~dut_wr_wait ELSE ~dut_rd_wait
-----------------------------------------------------------------------------
Init ==
  /\ isSpi \in BOOLEAN
  /\ regKind \in LoadFiles
  /\ stimulusArray = [i \in 1..Len(regKind) |->
       [cls |-> "reg", no |-> i, kind |-> regKind[i], delay |-> 0, ref |-> 0]]
  /\ signoffArray = <<>> /\ signOffStarted = FALSE /\ signPoint = 0
  /\ pc = "idle" /\ sEntry = NoEntry /\ bus = NoEntry
  /\ do_wait = 0 /\ chip_slave_wait = 0
  /\ backoff = 0 /\ hostMem = 0 /\ addrLog = <<>>
  /\ dut_wr_wait = FALSE /\ dut_rd_wait = FALSE
  /\ dutBus = NoRequest /\ written = 0 /\ asked = <<>>
  /\ todo = {} /\ aborted = FALSE
  /\ sub = [c \in Class |-> IF c = "reg" THEN Len(regKind) ELSE 0]
  /\ com = [c \in Class |-> 0]
  /\ got = [c \in Class |-> <<>>]
-----------------------------------------------------------------------------
(* The clients: the monitor and the debugger's server.                     *)

AddStimulus ==
  /\ sub["reg"] < MaxRegular
  /\ \E k \in ClientKind, d \in Delays :
       /\ regKind' = Append(regKind, k)
       /\ sub' = [sub EXCEPT !["reg"] = @ + 1]
       /\ stimulusArray' = Append(stimulusArray,
            [cls |-> "reg", no |-> sub["reg"] + 1, kind |-> k, delay |-> d, ref |-> 0])
  /\ UNCHANGED <<signoffArray, signOffStarted, signPoint, driveVars, sampleVars,
                 dutVars, hostMem, todo, aborted, isSpi>>

\* The monitor calls this once, at the end of the test.
DispathSignOff ==
  /\ ~signOffStarted
  /\ signOffStarted' = TRUE
  /\ signPoint' = com["reg"]
  /\ stimulusArray' = stimulusArray \o
       [i \in 1..Len(signoffArray) |-> [signoffArray[i] EXCEPT !.no = sub["reg"] + i]]
  /\ regKind' = regKind \o [i \in 1..Len(signoffArray) |-> "read"]
  /\ sub' = [sub EXCEPT !["reg"] = @ + Len(signoffArray)]
  /\ UNCHANGED <<signoffArray, driveVars, sampleVars, dutVars, hostMem, todo,
                 aborted, isSpi>>
-----------------------------------------------------------------------------
(* Thread drive_stimulus: one action per path from a wait to the next one. *)

DriveStep ==
  /\ "drive" \in todo
  /\ todo' = todo \ {"drive"}
  /\ UNCHANGED <<sampleVars, dutVars, clientVars, isSpi>>

\* At the top of the main loop: the last entry, if any, has been taken.
AtTop == pc = "idle" \/ (pc = "hold" /\ Ready(sEntry))

SpiStalled == isSpi /\ (dut_wr_wait \/ dut_rd_wait)

\* stim_* := e, and chip_slave_wait starts again.
Present(e) == bus' = e /\ pc' = "hold" /\ chip_slave_wait' = 0 /\ do_wait' = 0

\* Mutant: the delay is loaded again at each pass, so it never runs out.
ReloadDelay(d) ==
  bus' = NoEntry /\ pc' = "delay" /\ do_wait' = 1 /\ chip_slave_wait' = 0

\* No access is presented, and the delay goes on.
Withhold(d) ==
  bus' = NoEntry /\ pc' = "delay" /\ do_wait' = d /\ chip_slave_wait' = 0

SpiWaitError ==
  /\ DriveStep /\ AtTop /\ SpiStalled
  /\ aborted' = TRUE
  /\ UNCHANGED <<queueVars, driveVars, hostMem, sub>>

NoMoreStimulus ==
  /\ DriveStep /\ AtTop /\ ~SpiStalled
  /\ stimulusArray = <<>>
  /\ bus' = NoEntry /\ sEntry' = NoEntry /\ pc' = "idle"
  /\ do_wait' = 0 /\ chip_slave_wait' = 0
  /\ UNCHANGED <<queueVars, com, hostMem, sub, aborted>>

StrayStimulus ==
  /\ DriveStep /\ AtTop /\ ~SpiStalled
  /\ stimulusArray # <<>> /\ Head(stimulusArray).kind = "stray"
  /\ stimulusArray' = Tail(stimulusArray)
  /\ sEntry' = Head(stimulusArray)
  /\ com' = [com EXCEPT ![Head(stimulusArray).cls] = @ + 1]
  /\ hostMem' = 0 /\ aborted' = TRUE
  /\ UNCHANGED <<signoffArray, pc, do_wait, chip_slave_wait, bus, sub>>

\* Mutant: the driver presents an entry without looking at the wait signal.
PopUnchecked ==
  /\ DriveStep /\ AtTop /\ ~SpiStalled
  /\ stimulusArray # <<>> /\ Head(stimulusArray).kind # "stray"
  /\ LET e == Head(stimulusArray) IN
       /\ stimulusArray' = Tail(stimulusArray)
       /\ signoffArray' = IF ReadBack(e) THEN Append(signoffArray, SignOffRead(e))
                          ELSE signoffArray
       /\ sEntry' = e
       /\ com' = [com EXCEPT ![e.cls] = @ + 1]
       /\ Present(e)
  /\ UNCHANGED <<hostMem, sub, aborted>>

PopStimulus ==
  /\ DriveStep /\ AtTop /\ ~SpiStalled
  /\ stimulusArray # <<>> /\ Head(stimulusArray).kind # "stray"
  /\ LET e == Head(stimulusArray) IN
       /\ stimulusArray' = Tail(stimulusArray)
       /\ signoffArray' = IF ReadBack(e) THEN Append(signoffArray, SignOffRead(e))
                          ELSE signoffArray
       /\ sEntry' = e
       /\ com' = [com EXCEPT ![e.cls] = @ + 1]
       /\ IF e.delay = 0 /\ Ready(e) THEN Present(e)
          ELSE Withhold(IF e.delay > 0 THEN e.delay - 1 ELSE 0)
  /\ UNCHANGED <<hostMem, sub, aborted>>

CountDown ==
  /\ DriveStep /\ pc = "delay"
  /\ IF do_wait = 0 /\ Ready(sEntry) THEN Present(sEntry)
     ELSE Withhold(IF do_wait > 0 THEN do_wait - 1 ELSE 0)
  /\ UNCHANGED <<queueVars, sEntry, com, hostMem, sub, aborted>>

\* Mutant: one cycle more than the limit is tolerated.
HoldTooLong ==
  /\ DriveStep /\ pc = "hold" /\ ~Ready(sEntry)
  /\ chip_slave_wait <= HoldLimit
  /\ chip_slave_wait' = chip_slave_wait + 1
  /\ UNCHANGED <<queueVars, pc, sEntry, do_wait, bus, com, hostMem, sub, aborted>>

HoldStimulus ==
  /\ DriveStep /\ pc = "hold" /\ ~Ready(sEntry)
  /\ chip_slave_wait < HoldLimit
  /\ chip_slave_wait' = chip_slave_wait + 1
  /\ UNCHANGED <<queueVars, pc, sEntry, do_wait, bus, com, hostMem, sub, aborted>>

ChipStuck ==
  /\ DriveStep /\ pc = "hold" /\ ~Ready(sEntry)
  /\ chip_slave_wait = HoldLimit
  /\ hostMem' = 0 /\ aborted' = TRUE
  /\ UNCHANGED <<queueVars, driveVars, sub>>

Drive ==
  \/ SpiWaitError \/ NoMoreStimulus \/ StrayStimulus \/ PopStimulus
  \/ CountDown \/ HoldStimulus \/ ChipStuck
-----------------------------------------------------------------------------
(* Thread Sample.                                                          *)

SampleStep ==
  /\ "sample" \in todo
  /\ todo' = todo \ {"sample"}
  /\ UNCHANGED <<signoffArray, driveVars, dutVars, clientVars, isSpi>>

\* Back-pressure with low probability, never on the SPI port.
ChooseBackoff == backoff' \in IF isSpi THEN {0} ELSE 0..MaxBackoff

\* Inside the back-pressure loop nothing is sampled.
BackPressure ==
  /\ SampleStep /\ backoff > 0
  /\ backoff' = backoff - 1
  /\ UNCHANGED <<stimulusArray, addrLog, hostMem, sub, aborted>>

NoAccess ==
  /\ SampleStep /\ backoff = 0 /\ dutBus = NoRequest
  /\ ChooseBackoff
  /\ UNCHANGED <<stimulusArray, addrLog, hostMem, sub, aborted>>

SpiReadError ==
  /\ SampleStep /\ backoff = 0 /\ dutBus # NoRequest /\ ~dutBus.write
  /\ isSpi
  /\ aborted' = TRUE
  /\ UNCHANGED <<stimulusArray, backoff, addrLog, hostMem, sub>>

\* A read or a write for another host, or a read that is a multicast or comes
\* from nowhere.  Addresses are not modelled: any transaction may be one.
OutOfRange ==
  /\ SampleStep /\ backoff = 0 /\ dutBus # NoRequest
  /\ hostMem' = 0 /\ aborted' = TRUE
  /\ UNCHANGED <<stimulusArray, backoff, addrLog, sub>>

SampleRead ==
  /\ SampleStep /\ backoff = 0 /\ dutBus # NoRequest /\ ~dutBus.write
  /\ ~isSpi
  /\ \E d \in Delays :
       stimulusArray' = AddWriteBackStimulus(stimulusArray,
         [cls |-> "wb", no |-> dutBus.no, kind |-> "write", delay |-> d,
          ref |-> hostMem])
  /\ sub' = [sub EXCEPT !["wb"] = @ + 1]
  /\ ChooseBackoff
  /\ UNCHANGED <<addrLog, hostMem, aborted>>

SampleWrite ==
  /\ SampleStep /\ backoff = 0 /\ dutBus.write
  /\ hostMem' = dutBus.no
  /\ addrLog' = IF signOffStarted THEN addrLog ELSE Append(addrLog, dutBus.no)
  /\ ChooseBackoff
  /\ UNCHANGED <<stimulusArray, sub, aborted>>

Sample ==
  BackPressure \/ NoAccess \/ SpiReadError \/ OutOfRange \/ SampleRead \/ SampleWrite
-----------------------------------------------------------------------------
(* The chip.  Its slave interface takes what is presented unless its wait  *)
(* for that direction is high, and may then change its waits; its master   *)
(* interface holds its transaction while the host waits, and otherwise     *)
(* presents the next one or none.                                          *)

\* Mutant: the chip does not see the host's wait signals.
HostWaitIgnored == FALSE

HostWaits == backoff > 0

Accepted == bus # NoEntry /\ Ready(bus)

SlaveInterface ==
  /\ got' = IF Accepted THEN [got EXCEPT ![bus.cls] = Append(@, bus)] ELSE got
  /\ dut_wr_wait' \in BOOLEAN
  /\ dut_rd_wait' \in BOOLEAN

Pending == Len(asked) + written < MaxRequest

MasterInterface ==
  \/ HostWaits /\ UNCHANGED <<dutBus, written, asked>>
  \/ ~HostWaits /\ dutBus' = NoRequest /\ UNCHANGED <<written, asked>>
  \/ /\ ~HostWaits /\ Pending
     /\ dutBus' = [write |-> FALSE, no |-> Len(asked) + 1]
     /\ asked' = Append(asked, written)
     /\ UNCHANGED written
  \/ /\ ~HostWaits /\ Pending
     /\ dutBus' = [write |-> TRUE, no |-> written + 1]
     /\ written' = written + 1
     /\ UNCHANGED asked

RisingEdge ==
  /\ todo = {}
  /\ todo' = Thread
  /\ SlaveInterface
  /\ MasterInterface
  /\ UNCHANGED <<queueVars, driveVars, sampleVars, clientVars, hostMem, sub,
                 aborted, isSpi>>
-----------------------------------------------------------------------------
Cycle == Drive \/ Sample \/ RisingEdge

\* After sc_stop nothing runs.
Stopped == aborted /\ UNCHANGED vars

Next ==
  \/ ~aborted /\ Drive
  \/ ~aborted /\ Sample
  \/ ~aborted /\ RisingEdge
  \/ ~aborted /\ AddStimulus
  \/ ~aborted /\ DispathSignOff
  \/ Stopped

Spec == Init /\ [][Next]_vars

(***************************************************************************)
(* The clock runs, and a chip that stalls lets go again and again.         *)
(***************************************************************************)
ChipLetsGo == RisingEdge /\ ~dut_wr_wait' /\ ~dut_rd_wait'

FairSpec ==
  /\ Spec
  /\ WF_vars(~aborted /\ Cycle)
  /\ SF_vars(~aborted /\ ChipLetsGo)
-----------------------------------------------------------------------------
TypeOK ==
  /\ isSpi \in BOOLEAN
  /\ stimulusArray \in Seq(Entry) /\ signoffArray \in Seq(Entry)
  /\ signOffStarted \in BOOLEAN /\ signPoint \in Nat
  /\ pc \in {"idle", "delay", "hold"}
  /\ sEntry \in Entry /\ bus \in Entry
  /\ do_wait \in Nat /\ chip_slave_wait \in 0..HoldLimit
  /\ backoff \in 0..MaxBackoff /\ hostMem \in Nat /\ addrLog \in Seq(Nat)
  /\ dut_wr_wait \in BOOLEAN /\ dut_rd_wait \in BOOLEAN
  /\ dutBus \in Request /\ written \in Nat /\ asked \in Seq(Nat)
  /\ todo \subseteq Thread /\ aborted \in BOOLEAN
  /\ sub \in [Class -> Nat] /\ com \in [Class -> Nat]
  /\ got \in [Class -> Seq(Entry)] /\ regKind \in Seq(Kind)

(***************************************************************************)
(* Exactly once, in order.  The i-th entry of a class the chip accepts is  *)
(* the i-th one submitted, whatever the waits of either side and the order *)
(* of the threads: drive_stimulus pops an entry before the chip is known   *)
(* to take it, and the two waits around the drive (stimulus.cpp:268-283,   *)
(* 345-368) must neither lose it nor let the chip take it twice.           *)
(***************************************************************************)
AcceptedInOrder ==
  \A c \in Class : \A i \in 1..Len(got[c]) : got[c][i].no = i

(***************************************************************************)
(* The i-th answer the chip gets answers its i-th read, with the data of   *)
(* the last write it had sent before: Sample must take every transaction   *)
(* once although it stops sampling during its own back-pressure            *)
(* (stimulus.cpp:391-678).                                                 *)
(***************************************************************************)
AnswersMatchReads ==
  \A i \in 1..Len(got["wb"]) :
    /\ i <= Len(asked)
    /\ got["wb"][i].no = i
    /\ got["wb"][i].ref = asked[i]

(***************************************************************************)
(* No answer stands behind a regular entry other than an ILAT write        *)
(* (AddWriteBackStimulus, stimulus.h:251-270), in any mixture of loads,    *)
(* monitor transactions and answers.                                       *)
(***************************************************************************)
AnswersAhead == Ahead(stimulusArray)

(***************************************************************************)
(* Sign-off.  Once the port has drained after DispathSignOff, each write   *)
(* driven before it to readable memory has been read back once, and a      *)
(* read-back never goes out before its write (stimulus.cpp:227-253,        *)
(* stimulus.h:296-305).                                                    *)
(***************************************************************************)
ReadBacks(n) ==
  {i \in 1..Len(got["reg"]) : got["reg"][i].kind = "read" /\ got["reg"][i].ref = n}

SignOffReadsBack ==
  /\ \A i \in 1..Len(got["reg"]) : got["reg"][i].ref < i
  /\ signOffStarted /\ pc = "idle" /\ stimulusArray = <<>> =>
       \A n \in 1..signPoint :
         Cardinality(ReadBacks(n)) = IF regKind[n] = "write" THEN 1 ELSE 0

(***************************************************************************)
(* host_addr_out_<base>.txt lists the chip's writes once each, in order,   *)
(* and misses none before sign-off: comparegen only compares how many      *)
(* there are (comparegen.cpp:341).                                         *)
(***************************************************************************)
WritesLoggedOnce ==
  /\ \A i \in 1..Len(addrLog) : addrLog[i] = i
  /\ ~signOffStarted /\ ~aborted => Len(addrLog) = hostMem

(***************************************************************************)
(* The port implements the queue-less channel.                             *)
(***************************************************************************)
Channel == INSTANCE HostChannel WITH acc <- [c \in Class |-> Len(got[c])]

ImplementsChannel == Channel!Spec

(***************************************************************************)
(* Every read Sample has taken is answered, unless the run is aborted: no  *)
(* stream of regular entries, delay or back-pressure starves an answer.    *)
(***************************************************************************)
ReadsAnswered ==
  \A n \in 1..MaxRequest :
    sub["wb"] >= n ~> (aborted \/ Len(got["wb"]) >= n)
-----------------------------------------------------------------------------
(***************************************************************************)
(* Why it works: an inductive invariant (HostPortProofs).                  *)
(***************************************************************************)

\* Within each class c, q holds the tickets lo[c] + 1 .. hi[c] in order.
Numbered(q, lo, hi) ==
  /\ \A c \in Class : lo[c] <= hi[c]
  /\ \A i \in 1..Len(q) : lo[q[i].cls] < q[i].no /\ q[i].no <= hi[q[i].cls]
  /\ \A i, j \in 1..Len(q) :
       i < j /\ q[i].cls = q[j].cls => q[i].no < q[j].no
  /\ \A c \in Class : \A n \in (lo[c] + 1)..hi[c] :
       \E i \in 1..Len(q) : q[i].cls = c /\ q[i].no = n

\* The queue knows the kinds of what was submitted; read-backs are reads.
Kinds ==
  /\ Len(regKind) = sub["reg"]
  /\ \A i \in 1..Len(stimulusArray) :
       stimulusArray[i].cls = "reg" =>
         regKind[stimulusArray[i].no] = stimulusArray[i].kind
  /\ \A i \in 1..Len(signoffArray) :
       signoffArray[i].cls = "reg" /\ signoffArray[i].kind = "read"

\* Every popped entry is accepted; all but sEntry are.
Settled == \A c \in Class : com[c] = Len(got[c])
UnderWay ==
  \A c \in Class : com[c] = Len(got[c]) + (IF c = sEntry.cls THEN 1 ELSE 0)

\* The driver and the chip agree on whether sEntry was taken: it was, once
\* the rising edge has passed that follows an edge with the wait low.
Handshake ==
  ~aborted =>
    /\ pc = "idle" => bus = NoEntry /\ Settled
    /\ pc = "delay" => bus = NoEntry /\ UnderWay /\ sEntry.no = com[sEntry.cls]
    /\ pc = "hold" =>
         /\ bus = sEntry /\ sEntry # NoEntry /\ sEntry.no = com[sEntry.cls]
         /\ "drive" \in todo \/ ~Ready(sEntry) => Settled
         /\ "drive" \notin todo /\ Ready(sEntry) => UnderWay

\* A transaction Sample has not seen yet.
Fresh == "sample" \in todo /\ backoff = 0 /\ dutBus # NoRequest

Sampled ==
  ~aborted =>
    /\ Fresh /\ ~dutBus.write =>
         /\ dutBus.no = Len(asked) /\ Len(asked) = sub["wb"] + 1
         /\ hostMem = written /\ asked[Len(asked)] = written
    /\ Fresh /\ dutBus.write =>
         /\ dutBus.no = written /\ written = hostMem + 1
         /\ Len(asked) = sub["wb"]
    /\ ~Fresh => hostMem = written /\ Len(asked) = sub["wb"]

\* An answer carries what its read asked for.
Answers(e) == e.cls = "wb" => e.no \in 1..Len(asked) /\ e.ref = asked[e.no]

AllAnswer ==
  /\ \A i \in 1..Len(stimulusArray) : Answers(stimulusArray[i])
  /\ Answers(sEntry)
  /\ \A i \in 1..Len(got["wb"]) : got["wb"][i].cls = "wb" /\ Answers(got["wb"][i])

IInv ==
  /\ TypeOK
  /\ Numbered(stimulusArray, com, sub) /\ Ahead(stimulusArray) /\ Kinds
  /\ Handshake /\ AcceptedInOrder
  /\ Sampled /\ AllAnswer
=============================================================================

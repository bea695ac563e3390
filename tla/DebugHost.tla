----------------------------- MODULE DebugHost -----------------------------
(***************************************************************************)
(* The test bench as a host that programs are run and debugged on: with    *)
(* -gdb_server, the debugger's memory server (epiphany_models/             *)
(* namedPipeMemServer.cpp); with -batch and -usestdio, the monitor's       *)
(* handler of the traps of the cores (monitor.cpp, StdioHandler).          *)
(*                                                                         *)
(* Both reach the cores through one host port: they put a read or a write  *)
(* into its queue, and poll the host memory for the answer to a read.  A   *)
(* write is not waited for.  The server gets its requests from a pipe that *)
(* it reads blocking, in the only thread of the operating system that the  *)
(* simulation has: between two requests the simulation stands still.       *)
(* The port is the west one: its option is on by default, none turns it    *)
(* off, and of the others only the east one is bound after it.             *)
(***************************************************************************)
EXTENDS Naturals, Sequences, SequencesExt, FiniteSetsExt

CONSTANTS
  NCORES,
  Reg,       \* what the debugger asks for in a core
  Val,       \* what it writes there, and what programs do
  Traps,     \* the traps that programs make
  MaxTraps,  \* bound: traps of a core
  MaxPosts,  \* bound: what a port or the chip holds for the program
  MaxQueue,  \* bound: what is in the queue when the debugger asks
  Addresses, \* bound: the host's memory that is asked for and written
  Modes,     \* how the test bench is started: "gdb_server", "batch"
  None

Core == 0 .. NCORES - 1
TrapKinds == {"WRITE", "CLOSE", "EXIT", "OTHER", "BKPT"}

\* The registers are others than the trap handler's, and not the host's memory.
ASSUME DebugHostAssumption ==
  /\ NCORES \in Nat \ {0} /\ MaxTraps \in Nat /\ MaxPosts \in Nat \ {0}
  /\ Traps \subseteq TrapKinds /\ "zero" \in Val
  /\ Modes \subseteq {"gdb_server", "batch"}
  /\ Reg \cap {"DEBUG", "host"} = {} /\ None \notin Val

VARIABLES
  mode,
  stimulusArray,  \* the queue of the west port
  answers,        \* what the chip has sent to the host
  hostMem,        \* fExpectedDataFromDut
  chip,           \* the registers and the memory of the cores
  pc,
  await,          \* the address the thread polls
  \* the server:
  asked, answer, serving, fCoreID,
  spoilt,         \* the debugger or its program has written an answer's address
  \* the handler of the traps, and what the programs have done:
  ncore, printed, texts, traps, stopped

serverVars == <<asked, answer, serving, fCoreID, spoilt>>
stdioVars == <<ncore, printed, stopped>>
programVars == <<texts, traps>>
portVars == <<stimulusArray, answers>>
vars == <<mode, portVars, hostMem, chip, pc, await, serverVars, stdioVars,
          programVars>>
-----------------------------------------------------------------------------
(* Locations.  A register or a word of the memory of core c is <<c, r>>;   *)
(* the answer to its read comes back to the address Back(c, r), which only *)
(* shares its name with the location if the core named is the one set.     *)
(* The addresses of answers lie in the host's memory, where the debugger   *)
(* and the programs may write as anywhere else.                            *)

Place == Core \X (Reg \cup {"DEBUG", "opcode", "R0", "R1", "mem", "beyond"})
Back(c, r) == <<c, r, "back">>
PlaceSeen == Core \X Reg
BackLoc == Core \X Reg \X {"back"}
OwnLoc == Core \X {"host"}
HostLoc == OwnLoc \cup BackLoc

ASSUME AddressesAssumption == Addresses \subseteq HostLoc

Read(place, back) == [write |-> FALSE, place |-> place, back |-> back]
Write(place, v) == [write |-> TRUE, place |-> place, val |-> v]

Stored(a) == a \in DOMAIN hostMem
Store(a, v) == [b \in DOMAIN hostMem \cup {a} |-> IF b = a THEN v ELSE hostMem[b]]
Erase(a) == [b \in DOMAIN hostMem \ {a} |-> hostMem[b]]

\* Bytes that were never written give the padding of the request.
HostValue(a) == IF Stored(a) THEN hostMem[a] ELSE "zero"
-----------------------------------------------------------------------------
InitChip ==
  [p \in Place |-> IF p[2] = "DEBUG" THEN "resume" ELSE "zero"]

Init ==
  /\ mode \in Modes
  /\ stimulusArray = <<>> /\ answers = <<>> /\ hostMem = <<>>
  /\ chip = InitChip
  /\ pc = IF mode = "gdb_server" THEN "wait" ELSE "sleep"
  /\ await = None
  /\ asked = None /\ answer = None /\ serving = TRUE
  /\ fCoreID = 0 /\ spoilt = FALSE
  /\ ncore = 0 /\ printed = [c \in Core |-> <<>>]
  /\ texts = [c \in Core |-> <<>>] /\ traps = [c \in Core |-> 0] /\ stopped = FALSE

\* A thread that waits for the pipe stops the simulation.
Runs == ~stopped /\ pc # "pipe"
-----------------------------------------------------------------------------
(* The port and the chip; HostPort has the rest.                           *)

PortStep ==
  /\ Runs
  /\ UNCHANGED <<mode, pc, await, serverVars, stdioVars, programVars>>

Deliver ==
  /\ PortStep /\ stimulusArray # <<>>
  /\ LET e == Head(stimulusArray) IN
       IF e.write
       THEN chip' = [chip EXCEPT ![e.place] = e.val] /\ UNCHANGED answers
       ELSE /\ \/ answers' = Append(answers, [to |-> e.back, val |-> chip[e.place]])
               \/ e.place[2] = "beyond" /\ UNCHANGED answers
            /\ UNCHANGED chip
  /\ stimulusArray' = Tail(stimulusArray)
  /\ UNCHANGED hostMem

Sample ==
  /\ PortStep /\ answers # <<>>
  /\ hostMem' = Store(Head(answers).to, Head(answers).val)
  /\ answers' = Tail(answers)
  /\ UNCHANGED <<stimulusArray, chip>>

ProgramStep ==
  /\ Runs /\ Len(answers) < MaxPosts
  /\ UNCHANGED <<mode, stimulusArray, hostMem, pc, await, asked, answer, serving,
                 fCoreID, stdioVars>>

Spoils(l) == spoilt' = (spoilt \/ l \in BackLoc)

\* A program under the debugger changes its memory or the host's.
Program ==
  /\ ProgramStep /\ mode = "gdb_server"
  /\ \E v \in Val :
       \/ /\ \E p \in PlaceSeen : chip' = [chip EXCEPT ![p] = v]
          /\ UNCHANGED <<answers, spoilt>>
       \/ \E l \in Addresses :
            /\ answers' = Append(answers, [to |-> l, val |-> v])
            /\ Spoils(l) /\ UNCHANGED chip
  /\ UNCHANGED programVars

\* The trap instruction of a core halts it.  The text of a write is in the
\* host memory, or in that of the core at a local or a global address.
Trap(c) ==
  /\ ProgramStep /\ mode = "batch"
  /\ chip[<<c, "DEBUG">>] = "resume" /\ traps[c] < MaxTraps
  /\ traps' = [traps EXCEPT ![c] = @ + 1]
  /\ \E t \in Traps, at \in {"host", "local", "global"} :
       LET text == ToString(Len(texts[c]) + 1) IN
       /\ t # "WRITE" => at = "local"
       /\ texts' = IF t = "WRITE" THEN [texts EXCEPT ![c] = Append(@, at)] ELSE texts
       /\ chip' = [p \in Place |->
            CASE p = <<c, "DEBUG">> -> "halt"
              [] p = <<c, "opcode">> -> t
              [] p = <<c, "R0">> -> "argument"
              [] p = <<c, "R1">> -> at
              [] p = <<c, "mem">> /\ t = "WRITE" /\ at # "host" -> text
              [] OTHER -> chip[p]]
       /\ answers' = IF t = "WRITE" /\ at = "host"
                     THEN Append(answers, [to |-> <<c, "host">>, val |-> text])
                     ELSE answers
  /\ UNCHANGED spoilt
-----------------------------------------------------------------------------
(* The server: mainloop, readMem and writeMem.                             *)

\* Mutant: the answer stays in the host memory.
Taken_Kept(a) == hostMem

Taken(a) == Erase(a)

ServerStep(from) ==
  /\ ~stopped /\ mode = "gdb_server" /\ pc = from
  /\ UNCHANGED <<mode, answers, chip, stdioVars, programVars>>

Reply(a) == asked' = None /\ answer' = a /\ pc' = "wait"

Good(v) == [fail |-> FALSE, val |-> v]
Fail == [fail |-> TRUE, val |-> None]

\* wait(1), the only time that passes between two requests.
Cycle ==
  /\ ServerStep("wait") /\ pc' = "pipe"
  /\ UNCHANGED <<stimulusArray, hostMem, await, serverVars>>

(***************************************************************************)
(* A request names a core; an address within a core is one of that core, a *)
(* longer one names the core itself, and others are those of the host.     *)
(***************************************************************************)
Requests ==
  [op: {"read"}, at: PlaceSeen, core: Core] \cup [op: {"read"}, at: Addresses] \cup
  [op: {"write"}, at: PlaceSeen, core: Core, val: Val] \cup
  [op: {"write"}, at: Addresses, val: Val] \cup
  [op: {"bad", "trace", "kill", "resume"}]

Ask ==
  /\ ServerStep("pipe") /\ asked = None /\ Len(stimulusArray) + Len(answers) <= MaxQueue
  /\ asked' \in Requests /\ answer' = None
  /\ UNCHANGED <<stimulusArray, hostMem, pc, await, serving, fCoreID, spoilt>>

ToChip(op) == asked # None /\ asked.op = op /\ asked.at \notin HostLoc
ToHost(op) == asked # None /\ asked.op = op /\ asked.at \in HostLoc

\* The first poll follows without a pause.
ReadMem ==
  /\ ServerStep("pipe") /\ ToChip("read")
  /\ fCoreID' = asked.core
  /\ LET back == Back(asked.core, asked.at[2]) IN
       /\ stimulusArray' = Append(stimulusArray, Read(asked.at, back))
       /\ \/ /\ ~Stored(back) /\ await' = back /\ pc' = "poll"
             /\ UNCHANGED <<hostMem, asked, answer>>
          \/ /\ Stored(back) /\ Reply(Good(hostMem[back]))
             /\ hostMem' = Taken(back) /\ UNCHANGED await
  /\ UNCHANGED <<serving, spoilt>>

ReadMemDone ==
  /\ ServerStep("poll") /\ Stored(await)
  /\ Reply(Good(hostMem[await]))
  /\ hostMem' = Taken(await) /\ await' = None
  /\ UNCHANGED <<stimulusArray, serving, fCoreID, spoilt>>

ReadMemOfHost ==
  /\ ServerStep("pipe") /\ ToHost("read")
  /\ Reply(Good(HostValue(asked.at)))
  /\ UNCHANGED <<stimulusArray, hostMem, await, serving, fCoreID, spoilt>>

\* The write waits until the queue is empty, and is answered when queued.
WriteMem ==
  /\ \/ ServerStep("pipe") \/ ServerStep("pending")
  /\ ToChip("write")
  /\ fCoreID' = asked.core
  /\ IF stimulusArray = <<>>
     THEN /\ stimulusArray' = <<Write(asked.at, asked.val)>>
          /\ Reply(Good(None))
     ELSE pc' = "pending" /\ UNCHANGED <<stimulusArray, asked, answer>>
  /\ UNCHANGED <<hostMem, await, serving, spoilt>>

WriteMemOfHost ==
  /\ ServerStep("pipe") /\ ToHost("write")
  /\ hostMem' = Store(asked.at, asked.val) /\ Spoils(asked.at)
  /\ Reply(Good(None))
  /\ UNCHANGED <<stimulusArray, await, serving, fCoreID>>

\* An unknown request, size, core or address.
BadRequest ==
  /\ ServerStep("pipe") /\ asked # None /\ asked.op = "bad"
  /\ Reply(Fail)
  /\ UNCHANGED <<stimulusArray, hostMem, await, serving, fCoreID, spoilt>>

TraceRequest ==
  /\ ServerStep("pipe") /\ asked # None /\ asked.op = "trace"
  /\ Reply(None)
  /\ UNCHANGED <<stimulusArray, hostMem, await, serving, fCoreID, spoilt>>

\* The simulation is over.
HandleStopSignal == stopped' = TRUE

\* After a resume request the simulation runs on its own.
Leave ==
  /\ ~stopped /\ mode = "gdb_server" /\ pc = "pipe" /\ asked # None
  /\ \/ asked.op = "kill" /\ HandleStopSignal /\ UNCHANGED pc
     \/ asked.op = "resume" /\ pc' = "resumed" /\ UNCHANGED stopped
  /\ serving' = FALSE /\ asked' = None
  /\ UNCHANGED <<mode, portVars, hostMem, chip, await, answer, fCoreID, spoilt, ncore,
                 printed, programVars>>

Server ==
  \/ Cycle \/ ReadMem \/ ReadMemDone \/ ReadMemOfHost \/ WriteMem \/ WriteMemOfHost
  \/ BadRequest \/ TraceRequest \/ Leave
-----------------------------------------------------------------------------
(* StdioHandler: a pass over the cores, 5000 cycles after the one before.  *)
(* What is read of a halted core is its opcode (at its PC), the arguments  *)
(* of a write (R1 stands for them) and the text (mem).                     *)

StdioStep(from) ==
  /\ ~stopped /\ mode = "batch" /\ pc = from
  /\ UNCHANGED <<mode, answers, chip, serverVars, programVars>>

\* GetDataByHost: the read is queued, and its answer awaited and taken.
Get(c, r, next) ==
  /\ stimulusArray' = Append(stimulusArray, Read(<<c, r>>, Back(c, r)))
  /\ await' = Back(c, r) /\ pc' = next

Got(from) ==
  /\ StdioStep(from) /\ Stored(await)
  /\ hostMem' = Erase(await)

Set(r, v) == stimulusArray' = Append(stimulusArray, Write(<<ncore, r>>, v))

\* Mutant: the pass over the cores ends before the last one.
Look_NotTheLast(c) ==
  \/ /\ c < NCORES - 1 /\ ncore' = c /\ Get(c, "DEBUG", "status")
  \/ /\ c >= NCORES - 1 /\ pc' = "sleep" /\ UNCHANGED <<stimulusArray, await, ncore>>

Look(c) ==
  \/ /\ c < NCORES /\ ncore' = c /\ Get(c, "DEBUG", "status")
  \/ /\ c = NCORES /\ pc' = "sleep" /\ UNCHANGED <<stimulusArray, await, ncore>>

Pass ==
  /\ StdioStep("sleep") /\ Look(0)
  /\ UNCHANGED <<hostMem, printed, stopped>>

CoreStatus ==
  /\ Got("status")
  /\ IF hostMem[await] = "resume" THEN Look(ncore + 1)
     ELSE Get(ncore, "opcode", "opcode") /\ UNCHANGED ncore
  /\ UNCHANGED <<printed, stopped>>

\* Reading and opening files, PASS and FAIL (OTHER) are only reported.
TrapOpcode ==
  /\ Got("opcode")
  /\ \/ /\ hostMem[await] = "WRITE" /\ Get(ncore, "R1", "arguments")
        /\ UNCHANGED stopped
     \/ /\ hostMem[await] = "CLOSE" /\ Set("R0", "zero") /\ pc' = "resume"
        /\ UNCHANGED <<await, stopped>>
     \/ /\ hostMem[await] = "OTHER" /\ pc' = "resume"
        /\ UNCHANGED <<stimulusArray, await, stopped>>
     \/ /\ hostMem[await] = "EXIT" /\ HandleStopSignal
        /\ UNCHANGED <<stimulusArray, await, pc>>
     \/ /\ hostMem[await] = "BKPT" /\ stopped' = TRUE
        /\ UNCHANGED <<stimulusArray, await, pc>>
  /\ UNCHANGED <<ncore, printed>>

\* Mutant: the core is let run before it has its result.
PrintText_ResumesFirst(t) ==
  /\ printed' = [printed EXCEPT ![ncore] = Append(@, t)]
  /\ stimulusArray' = stimulusArray \o
       <<Write(<<ncore, "DEBUG">>, "resume"), Write(<<ncore, "R0">>, "length")>>
  /\ pc' = "next" /\ UNCHANGED await

PrintText(t) ==
  /\ printed' = [printed EXCEPT ![ncore] = Append(@, t)]
  /\ Set("R0", "length") /\ pc' = "resume" /\ UNCHANGED await

(***************************************************************************)
(* A text at an address outside the chip is taken from the host memory, a  *)
(* local address is such an address too.  A global one is added to the     *)
(* base of the core as if it were local: what is read is an address far    *)
(* beyond the chip, from which the text does not come.                     *)
(***************************************************************************)
Arguments ==
  /\ Got("arguments")
  /\ \/ /\ hostMem[await] = "host" /\ PrintText(HostValue(<<ncore, "host">>))
     \/ /\ hostMem[await] = "local" /\ PrintText(HostValue(<<ncore, "mem">>))
     \/ /\ hostMem[await] = "global" /\ Get(ncore, "beyond", "text")
        /\ UNCHANGED printed
  /\ UNCHANGED <<ncore, stopped>>

Text ==
  /\ Got("text") /\ PrintText(hostMem[await])
  /\ UNCHANGED <<ncore, stopped>>

\* After 30000 cycles without the answer.
GiveUp ==
  /\ StdioStep("text") /\ stimulusArray = <<>>
  /\ ~Stored(await) /\ \A a \in Range(answers) : a.to # await
  /\ stopped' = TRUE
  /\ UNCHANGED <<stimulusArray, hostMem, pc, await, ncore, printed>>

Resume ==
  /\ StdioStep("resume") /\ Set("DEBUG", "resume") /\ pc' = "next"
  /\ UNCHANGED <<hostMem, await, stdioVars>>

NextCore ==
  /\ StdioStep("next") /\ Look(ncore + 1)
  /\ UNCHANGED <<hostMem, printed, stopped>>

StdioHandler ==
  Pass \/ CoreStatus \/ TrapOpcode \/ Arguments \/ Text \/ GiveUp \/
  Resume \/ NextCore
-----------------------------------------------------------------------------
Next ==
  \/ Deliver \/ Sample \/ Program \/ (\E c \in Core : Trap(c))
  \/ Ask \/ Server \/ StdioHandler

(***************************************************************************)
(* The threads run when what they wait for is there, a port takes what is  *)
(* in its queue and the chip answers.  Nothing is assumed of the programs, *)
(* nor of the debugger.                                                    *)
(***************************************************************************)
Spec ==
  /\ Init /\ [][Next]_vars
  /\ WF_vars(Deliver) /\ WF_vars(Sample) /\ WF_vars(Server) /\ WF_vars(StdioHandler)
-----------------------------------------------------------------------------
(* Properties.                                                             *)

\* What the last write in the queue will make of a place, and what the host has
\* but for the answer that is waited for.
Seen(l) ==
  LET writes == {i \in DOMAIN stimulusArray :
                   stimulusArray[i].write /\ stimulusArray[i].place = l}
  IN IF l = await THEN "zero"
     ELSE IF l \in HostLoc THEN HostValue(l)
     ELSE IF writes = {} THEN chip[l] ELSE stimulusArray[Max(writes)].val

SeenMemory ==
  [l \in PlaceSeen \cup HostLoc |-> IF mode = "gdb_server" THEN Seen(l) ELSE "zero"]

\* A read that the chip has taken has found what it answered.
Found ==
  LET sent == {i \in DOMAIN answers : answers[i].to = await}
  IN IF mode # "gdb_server" \/ await = None THEN None
     ELSE IF \E i \in DOMAIN stimulusArray : ~stimulusArray[i].write THEN None
     ELSE IF sent # {} THEN answers[Max(sent)].val
     ELSE IF Stored(await) THEN hostMem[await] ELSE None

\* The abstract request leaves out the core that is to be set.
Asked ==
  IF asked = None THEN None
  ELSE CASE asked.op = "read"  -> [op |-> "read", at |-> asked.at]
         [] asked.op = "write" -> [op |-> "write", at |-> asked.at, val |-> asked.val]
         [] OTHER -> [op |-> asked.op]

Memory == INSTANCE DebugMemory WITH
  Loc <- PlaceSeen \cup HostLoc,
  mem <- SeenMemory,
  asked <- Asked,
  found <- Found

ASSUME NoneAssumption ==
  None \notin Requests \cup Memory!Request \cup PlaceSeen \cup HostLoc

(***************************************************************************)
(* Though a write is answered when it is only queued, and the host memory  *)
(* is shared with the programs, the debugger sees one memory: a read gives *)
(* what the last write left, or what the program has made of it since,     *)
(* never an answer to an earlier read.  This holds until the debugger or   *)
(* the program has written to an address to which answers come; every      *)
(* request is answered, or ends the service, in any case.                  *)
(***************************************************************************)
MemorySpec ==
  /\ Memory!Init /\ [][Memory!Next \/ spoilt']_(Memory!vars)
  /\ asked # None ~> asked = None

(***************************************************************************)
(* readMem polls for the address of the answer: "wait for data comes       *)
(* back".  What it finds there has come back from the chip, so that the    *)
(* debugger sees one memory whatever it and the program write in it.       *)
(***************************************************************************)
SeesOneMemory == Memory!Init /\ [][Memory!Next]_(Memory!vars)

(***************************************************************************)
(* A core that runs again after a trap has had a text printed for each of  *)
(* its writes, the one it meant if the host has it, and has the result of  *)
(* the call in R0.                                                         *)
(***************************************************************************)
Result(c) ==
  CASE chip[<<c, "opcode">>] = "WRITE" -> "length"
    [] chip[<<c, "opcode">>] = "CLOSE" -> "zero"
    [] chip[<<c, "opcode">>] = "OTHER" -> "argument"
    [] OTHER -> chip[<<c, "R0">>]

Running(c) == chip[<<c, "DEBUG">>] = "resume"

Served(c) ==
  /\ Len(printed[c]) = Len(texts[c])
  /\ \A i \in DOMAIN texts[c] : texts[c][i] = "host" => printed[c][i] = ToString(i)
  /\ chip[<<c, "R0">>] = Result(c)

RunsServed == \A c \in Core : mode = "batch" /\ Running(c) => Served(c)

(***************************************************************************)
(* A core halted in a trap does run again, unless the run is stopped: by   *)
(* an exit, a breakpoint, or an answer that is missing.                    *)
(***************************************************************************)
TrapsServed == \A c \in Core : ~Running(c) ~> Running(c) \/ stopped
=============================================================================

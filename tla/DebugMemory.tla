---------------------------- MODULE DebugMemory ----------------------------
(***************************************************************************)
(* What the debugger's memory server promises (epiphany_models/            *)
(* namedPipeMemServer.h: "The call is blocking").  The debugger asks for   *)
(* one thing at a time and sees one memory, that of the chip and that of   *)
(* the host: what it writes is there for all its later reads, and a read   *)
(* gives what was there at some moment between the question and the        *)
(* answer.  The program that is debugged may change the memory whenever it *)
(* runs.  Every read and write is answered, until the debugger kills the   *)
(* simulation or lets it run.                                              *)
(***************************************************************************)
CONSTANTS
  Loc,     \* the locations the debugger can reach
  Val,     \* what they hold
  None     \* no request, no value, no answer

VARIABLES
  mem,     \* the memory as the debugger sees it
  asked,   \* the request that is not answered yet
  found,   \* what its read has found
  answer,  \* the last answer
  serving  \* neither killed nor resumed

vars == <<mem, asked, found, answer, serving>>

Request ==
  [op: {"read"}, at: Loc] \cup [op: {"write"}, at: Loc, val: Val] \cup
  [op: {"bad", "trace", "kill", "resume"}]

Good(v) == [fail |-> FALSE, val |-> v]
Fail == [fail |-> TRUE, val |-> None]

Init ==
  /\ mem \in [Loc -> Val]
  /\ asked = None /\ found = None /\ answer = None /\ serving = TRUE

Ask ==
  /\ serving /\ asked = None
  /\ asked' \in Request /\ answer' = None
  /\ UNCHANGED <<mem, found, serving>>

LookUp ==
  /\ asked # None /\ asked.op = "read" /\ found = None
  /\ found' = mem[asked.at]
  /\ UNCHANGED <<mem, asked, answer, serving>>

Answer(a) ==
  asked' = None /\ found' = None /\ answer' = a /\ UNCHANGED serving

AnswerRead ==
  /\ asked # None /\ asked.op = "read"
  /\ Answer(Good(IF found = None THEN mem[asked.at] ELSE found))
  /\ UNCHANGED mem

AnswerWrite ==
  /\ asked # None /\ asked.op = "write"
  /\ Answer(Good(None))
  /\ mem' = [mem EXCEPT ![asked.at] = asked.val]

AnswerBad ==
  /\ asked # None /\ asked.op = "bad"
  /\ Answer(Fail) /\ UNCHANGED mem

\* A trace request has no answer.
Trace ==
  /\ asked # None /\ asked.op = "trace"
  /\ Answer(None) /\ UNCHANGED mem

Leave ==
  /\ asked # None /\ asked.op \in {"kill", "resume"}
  /\ serving' = FALSE /\ asked' = None
  /\ UNCHANGED <<mem, found, answer>>

Program ==
  /\ \E l \in Loc, v \in Val : mem' = [mem EXCEPT ![l] = v]
  /\ UNCHANGED <<asked, found, answer, serving>>

Reply == AnswerRead \/ AnswerWrite \/ AnswerBad \/ Trace \/ Leave

Next == Ask \/ LookUp \/ Reply \/ Program

Spec == Init /\ [][Next]_vars /\ WF_vars(Reply)
=============================================================================

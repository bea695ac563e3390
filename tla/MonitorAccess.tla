--------------------------- MODULE MonitorAccess ---------------------------
(***************************************************************************)
(* How the monitor reads and writes the cores (epiphany_models/            *)
(* monitor.cpp, GetDataByHost and SeDataByHost).                           *)
(*                                                                         *)
(* A call puts a transaction into the stimulus queue of one port and then  *)
(* polls the host memory, every 100 cycles, for the chip's answer; Sample  *)
(* of the port stores the answer there, byte by byte.  The address of the  *)
(* answer tells the calls apart, or does not: through the SPI every answer *)
(* comes back to one address; through the west host the address of a read  *)
(* is that of the register or of the memory it reads.  The callers are     *)
(* threads; a call suspends its thread at every wait, so the calls of two  *)
(* threads interleave.  Addresses are places here, and the value of a byte *)
(* is the number of the call whose answer brought it.                      *)
(***************************************************************************)
EXTENDS Naturals, Sequences, FiniteSets

CONSTANTS
  Caller,     \* the threads that call
  Place,      \* what a call may ask for: a register or a memory location
  Size,       \* bytes the callers read there: 4, 2 (an opcode) or 1
  AckSizes,   \* bytes the SPI block may send back for a write
  MaxPolls,   \* maxCyclesToWaitX100, 300 in the code
  MaxCalls,   \* bound: calls made in a run
  Asks,       \* the calls each caller makes
  Running     \* the pairs <<spi, threads>>: how it can be configured

Call == [write: BOOLEAN, place: Place]

ASSUME MonitorAccessAssumption ==
  /\ Size \in [Place -> {1, 2, 4}]
  /\ AckSizes \subseteq {1, 2, 4}
  /\ MaxPolls \in Nat /\ MaxCalls \in Nat
  /\ Asks \in [Caller -> SUBSET Call]
  /\ Running \subseteq BOOLEAN \X SUBSET Caller
  /\ "SPI" \notin Place

VARIABLES
  spi,       \* NCORES > 2 and spi_mode
  threads,   \* the callers at work
  hostMem,   \* fExpectedDataFromDut, around each answer address
  calls,     \* the calls made so far, the n-th has number n
  open,      \* the calls the chip has not answered
  pc, mine,  \* per caller: where it is, the number of its last call
  polls,     \* maxCyclesToWaitX100 of each caller
  result,    \* the bytes its last completed read returned
  failed,    \* an assertion of the code failed
  stopped    \* the simulation ended

vars == <<spi, threads, hostMem, calls, open, pc, mine, polls, result,
          failed, stopped>>

Box == Place \cup {"SPI"}
None == 0

\* spiAddrBack
AnswerBox(n) == IF spi THEN "SPI" ELSE calls[n].place

\* The bytes at offsets 0 .. k-1 of an answer address.
Bytes(k) == 0..(k - 1)
-----------------------------------------------------------------------------
Init ==
  /\ \E r \in Running : spi = r[1] /\ threads = r[2]
  /\ hostMem = [b \in Box |-> [i \in Bytes(4) |-> None]]
  /\ calls = <<>> /\ open = {}
  /\ pc = [c \in Caller |-> "idle"]
  /\ mine = [c \in Caller |-> None]
  /\ polls = [c \in Caller |-> MaxPolls]
  /\ result = [c \in Caller |-> <<>>]
  /\ failed = FALSE /\ stopped = FALSE

\* AddStimulus, then the polling loop from its start.
Submit(c, call) ==
  /\ ~stopped /\ c \in threads /\ pc[c] = "idle"
  /\ Len(calls) < MaxCalls
  /\ calls' = Append(calls, call)
  /\ open' = open \cup {Len(calls')}
  /\ mine' = [mine EXCEPT ![c] = Len(calls')]
  /\ polls' = [polls EXCEPT ![c] = MaxPolls]
  /\ result' = [result EXCEPT ![c] = <<>>]
  /\ UNCHANGED <<spi, threads, hostMem, failed, stopped>>

\* Mutant: the write does not wait for its response.
AfterWrite_Forget == "idle"

AfterWrite == "polling"

GetDataByHost(c, call) ==
  /\ ~call.write
  /\ Submit(c, call)
  /\ pc' = [pc EXCEPT ![c] = "polling"]

\* Through a host a write is forgotten when it is queued: nothing to model.
SeDataByHost(c, call) ==
  /\ spi /\ call.write
  /\ Submit(c, call)
  /\ pc' = [pc EXCEPT ![c] = AfterWrite]

\* The chip answers one of the open calls and Sample stores all its bytes.
Answer(n) ==
  /\ ~stopped /\ n \in open
  /\ \E k \in IF calls[n].write THEN AckSizes ELSE {Size[calls[n].place]} :
       hostMem' = [hostMem EXCEPT ![AnswerBox(n)] =
                     [i \in Bytes(4) |-> IF i < k THEN n ELSE @[i]]]
  /\ open' = open \ {n}
  /\ UNCHANGED <<spi, threads, calls, pc, mine, polls, result, failed, stopped>>

\* Mutant: the loop looks at its counter before it looks at the memory.
Found_TooLate(c) == polls[c] > 0 /\ hostMem[AnswerBox(mine[c])][0] # None

Found(c) == hostMem[AnswerBox(mine[c])][0] # None
Wanted(c) == Bytes(Size[calls[mine[c]].place])

\* Mutant: the response of a write is read but not erased.
Erased_Kept(c) == IF calls[mine[c]].write THEN {} ELSE Wanted(c)

\* A write erases only the first byte of its response.
Erased(c) == IF calls[mine[c]].write THEN {0} ELSE Wanted(c)

Erase(c) == [hostMem EXCEPT ![AnswerBox(mine[c])] =
               [i \in Bytes(4) |-> IF i \in Erased(c) THEN None ELSE @[i]]]

\* The wait is over: every byte of a read must be there.
Take(c) ==
  LET box == hostMem[AnswerBox(mine[c])]
      complete == calls[mine[c]].write \/ \A i \in Wanted(c) : box[i] # None
  IN  /\ ~stopped /\ pc[c] = "polling" /\ Found(c)
      /\ failed' = ~complete /\ stopped' = ~complete
      /\ IF complete
         THEN /\ result' = [result EXCEPT ![c] =
                   IF calls[mine[c]].write THEN <<>>
                   ELSE [i \in 1..Size[calls[mine[c]].place] |-> box[i - 1]]]
              /\ hostMem' = Erase(c)
              /\ pc' = [pc EXCEPT ![c] = "idle"]
         ELSE UNCHANGED <<result, hostMem, pc>>
      /\ UNCHANGED <<spi, threads, calls, open, mine, polls>>

\* Mutants of the counter: it is never decremented; it wraps below 0.
PollsAfter_Same(n) == n
PollsAfter_Wrap(n) == IF n = 1 THEN MaxPolls + 1 ELSE n - 1

PollsAfter(n) == n - 1

Poll(c) ==
  /\ ~stopped /\ pc[c] = "polling" /\ ~Found(c)
  /\ IF polls[c] = 0
     THEN pc' = [pc EXCEPT ![c] = "giveup"] /\ UNCHANGED polls
     ELSE polls' = [polls EXCEPT ![c] = PollsAfter(@)] /\ UNCHANGED pc
  /\ UNCHANGED <<spi, threads, hostMem, calls, open, mine, result, failed, stopped>>

\* wait(10); sc_stop()
GiveUp(c) ==
  /\ ~stopped /\ pc[c] = "giveup"
  /\ stopped' = TRUE
  /\ UNCHANGED <<spi, threads, hostMem, calls, open, pc, mine, polls, result, failed>>

Next ==
  \/ \E c \in Caller : \E call \in Asks[c] :
       GetDataByHost(c, call) \/ SeDataByHost(c, call)
  \/ \E n \in open : Answer(n)
  \/ \E c \in Caller : Take(c) \/ Poll(c) \/ GiveUp(c)

Spec == Init /\ [][Next]_vars

\* The clock runs, so a thread in the loop polls again; the chip owes nothing.
FairSpec == Spec /\ \A c \in Caller : WF_vars(Take(c) \/ Poll(c) \/ GiveUp(c))
-----------------------------------------------------------------------------
TypeOK ==
  /\ spi \in BOOLEAN /\ threads \subseteq Caller
  /\ hostMem \in [Box -> [Bytes(4) -> Nat]]
  /\ calls \in Seq(Call)
  /\ open \subseteq 1..Len(calls)
  /\ pc \in [Caller -> {"idle", "polling", "giveup"}]
  /\ mine \in [Caller -> 0..Len(calls)]
  /\ polls \in [Caller -> 0..MaxPolls]
  /\ result \in [Caller -> Seq(Nat)]
  /\ failed \in BOOLEAN /\ stopped \in BOOLEAN

Waiting(c) == pc[c] # "idle"

(* A completed read returns bytes that answer a read of the place it asked *)
(* for, all out of one answer, and through the SPI out of its own: neither *)
(* the response of a write nor an earlier answer is taken for it           *)
(* (GetDataByHost, SeDataByHost).                                          *)
AnswersTheCall ==
  \A c \in Caller : \A i \in 1..Len(result[c]) :
    LET n == result[c][i] IN
      /\ n # None /\ n = result[c][1]
      /\ calls[n] = calls[mine[c]]
      /\ spi => n = mine[c]

(* assert(... find(spiAddrBack+i) != ... end()) of GetDataByHost: when the *)
(* first byte of an answer has been found, the others are there.           *)
BytesPresent == ~failed

(* A poll that finds an answer never finds one that was left over: the     *)
(* first byte of an answer address is there only while a caller waits for  *)
(* an answer at that address, and there are never fewer waiting callers    *)
(* than answers that have been or will be stored there.                    *)
NothingLeftOver ==
  \A b \in Box :
    Cardinality({n \in open : AnswerBox(n) = b})
      + (IF hostMem[b][0] # None THEN 1 ELSE 0)
    <= Cardinality({c \in Caller : Waiting(c) /\ AnswerBox(mine[c]) = b})

(* "not getting read back transaction" is true when it is printed: a lone  *)
(* caller gives up only on a call the chip has not answered.               *)
SilenceBeforeGiveUp ==
  [][\A c \in Caller :
       threads = {c} /\ pc[c] = "polling" /\ pc'[c] = "giveup"
         => mine[c] \in open]_vars

(* A call returns or the simulation ends, whatever the chip does: the loop *)
(* has no exit but an answer, and its counter must run out.                *)
CallEnds == \A c \in Caller : pc[c] = "polling" ~> pc[c] = "idle" \/ stopped
=============================================================================

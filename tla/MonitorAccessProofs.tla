------------------------ MODULE MonitorAccessProofs ------------------------
(***************************************************************************)
(* Theorems about MonitorAccess, for any number of callers, places and     *)
(* calls, and any number of polls: its types, that no answer is left over, *)
(* that a lone caller gives up only on a silent chip, and, as long as one  *)
(* thread at most calls through the SPI, that a read returns its answer,   *)
(* whole.                                                                  *)
(***************************************************************************)
EXTENDS MonitorAccess, FiniteSetTheorems, SequenceTheorems, TLAPS

(***************************************************************************)
(* Only a caller at work waits, and it has made the call it waits for.     *)
(***************************************************************************)
AtWork == \A c \in Caller : Waiting(c) => c \in threads /\ mine[c] # None

(***************************************************************************)
(* Through a host a call that is waited for is a read.                     *)
(***************************************************************************)
ReadsThroughHost == ~spi => \A n \in 1..Len(calls) : ~calls[n].write

Basic == TypeOK /\ AtWork /\ ReadsThroughHost

Waiters(b) == {c \in Caller : Waiting(c) /\ AnswerBox(mine[c]) = b}
Opened(b) == {n \in open : AnswerBox(n) = b}

Finite == IsFiniteSet({c \in Caller : Waiting(c)})

(***************************************************************************)
(* A lone caller has at most one call under way: it waits, and either the  *)
(* call is still open and no answer is in the memory, or the only answer   *)
(* there is that of the call, and whole.                                   *)
(***************************************************************************)
NoAnswer(B) == \A b \in B : hostMem[b][0] = None

Answered(c) ==
  LET box == AnswerBox(mine[c]) IN
    /\ hostMem[box][0] = mine[c]
    /\ ~calls[mine[c]].write => \A i \in Wanted(c) : hostMem[box][i] = mine[c]

Lone ==
  \A c \in Caller : threads = {c} =>
    IF Waiting(c)
    THEN /\ NoAnswer(Box \ {AnswerBox(mine[c])})
         /\ \/ open = {mine[c]} /\ NoAnswer(Box)
            \/ open = {} /\ Answered(c)
    ELSE open = {} /\ NoAnswer(Box)

(***************************************************************************)
(* The configurations in which one thread at most calls through the SPI.   *)
(***************************************************************************)
OneThroughSPI == \A r \in Running : r[1] => \A c, d \in r[2] : c = d

AloneOnSPI == spi => \A c, d \in threads : c = d

(***************************************************************************)
(* Through a host the bytes of a place come and go together, and answer a  *)
(* read of that place.                                                     *)
(***************************************************************************)
Whole ==
  ~spi => \A b \in Place : \A i \in Bytes(Size[b]) :
    LET n == hostMem[b][0] IN
      /\ hostMem[b][i] = n
      /\ n # None => n \in 1..Len(calls) /\ calls[n].place = b

(***************************************************************************)
(* AnswersTheCall, of numbers that are those of calls.                     *)
(***************************************************************************)
Results ==
  \A c \in Caller : \A i \in 1..Len(result[c]) :
    LET n == result[c][i] IN
      /\ n \in 1..Len(calls) /\ n = result[c][1]
      /\ mine[c] # None /\ calls[n] = calls[mine[c]]
      /\ spi => n = mine[c]

-----------------------------------------------------------------------------
(***************************************************************************)
(* What the types say of the parts the proofs use most.                    *)
(***************************************************************************)
LEMMA BasicFacts ==
  ASSUME Basic
  PROVE  /\ Len(calls) \in Nat
         /\ \A n \in 1..Len(calls) :
              /\ calls[n] \in Call /\ calls[n].place \in Place
              /\ AnswerBox(n) \in Box
         /\ \A c \in Caller : Waiting(c) =>
              /\ mine[c] \in 1..Len(calls) /\ c \in threads
              /\ AnswerBox(mine[c]) \in Box
         /\ \A b \in Box, i \in Bytes(4) : hostMem[b][i] \in Nat
         /\ \A p \in Place : 0 \in Bytes(Size[p]) /\ Bytes(Size[p]) \subseteq Bytes(4)
<1>1. Len(calls) \in Nat /\ \A n \in 1..Len(calls) : calls[n] \in Call
  BY LenProperties, ElementOfSeq DEF Basic, TypeOK
<1>2. \A n \in 1..Len(calls) : calls[n].place \in Place /\ AnswerBox(n) \in Box
  BY <1>1 DEF Call, AnswerBox, Box
<1>3. \A c \in Caller : Waiting(c) => mine[c] \in 1..Len(calls) /\ c \in threads
  BY <1>1 DEF Basic, AtWork, TypeOK, None
<1>4. \A b \in Box, i \in Bytes(4) : hostMem[b][i] \in Nat
  BY DEF Basic, TypeOK
<1>5. ASSUME NEW p \in Place
      PROVE  0 \in Bytes(Size[p]) /\ Bytes(Size[p]) \subseteq Bytes(4)
  <2>1. Size[p] \in {1, 2, 4} BY MonitorAccessAssumption
  <2>2. QED BY <2>1 DEF Bytes
<1>6. QED BY <1>1, <1>2, <1>3, <1>4, <1>5

(***************************************************************************)
(* A new call leaves the numbers and answer places of the others alone.    *)
(***************************************************************************)
LEMMA SubmitStep ==
  ASSUME Basic, NEW c \in Caller, NEW call \in Call, Submit(c, call)
  PROVE  /\ calls' \in Seq(Call) /\ Len(calls') = Len(calls) + 1
         /\ \A n \in 1..Len(calls) :
              calls'[n] = calls[n] /\ AnswerBox(n)' = AnswerBox(n)
         /\ calls'[Len(calls) + 1] = call
         /\ open' = open \cup {Len(calls) + 1}
         /\ Len(calls) + 1 \notin open
         /\ mine' = [mine EXCEPT ![c] = Len(calls) + 1]
         /\ ~Waiting(c) /\ c \in threads
<1>1. calls \in Seq(Call) /\ Len(calls) \in Nat
  BY BasicFacts DEF Basic, TypeOK
<1>2. /\ calls' \in Seq(Call) /\ Len(calls') = Len(calls) + 1
      /\ \A n \in 1..Len(calls) : calls'[n] = calls[n]
      /\ calls'[Len(calls) + 1] = call
  BY <1>1, AppendProperties DEF Submit
<1>3. spi' = spi
  BY DEF Submit
<1>4. \A n \in 1..Len(calls) : AnswerBox(n)' = AnswerBox(n)
  BY <1>2, <1>3 DEF AnswerBox
<1>5. Len(calls) + 1 \notin open
  BY <1>1 DEF Basic, TypeOK
<1>6. QED BY <1>2, <1>4, <1>5 DEF Submit, Waiting

(***************************************************************************)
(* A caller waits after its call, until Take: AfterWrite is a wait too.    *)
(***************************************************************************)
LEMMA NewCall ==
  ASSUME Basic, NEW c \in Caller, NEW call \in Asks[c],
         GetDataByHost(c, call) \/ SeDataByHost(c, call)
  PROVE  /\ call \in Call /\ Submit(c, call)
         /\ pc' = [pc EXCEPT ![c] = "polling"]
         /\ ~spi => ~call.write
BY MonitorAccessAssumption DEF GetDataByHost, SeDataByHost, AfterWrite

(***************************************************************************)
(* The answer of call n: it comes to the place of n, and has a first byte. *)
(***************************************************************************)
LEMMA AnswerStep ==
  ASSUME Basic, NEW n \in open, Answer(n)
  PROVE  /\ n \in 1..Len(calls) /\ AnswerBox(n) \in Box
         /\ hostMem' \in [Box -> [Bytes(4) -> Nat]]
         /\ \E k \in {1, 2, 4} :
              /\ ~calls[n].write => k = Size[calls[n].place]
              /\ \A i \in Bytes(4) : hostMem'[AnswerBox(n)][i] =
                   IF i < k THEN n ELSE hostMem[AnswerBox(n)][i]
         /\ hostMem'[AnswerBox(n)][0] = n
         /\ \A b \in Box \ {AnswerBox(n)} : hostMem'[b] = hostMem[b]
         /\ \A m \in 1..Len(calls) : AnswerBox(m)' = AnswerBox(m)
<1>1. /\ n \in 1..Len(calls) /\ n \in Nat
      /\ AnswerBox(n) \in Box /\ calls[n].place \in Place
      /\ hostMem \in [Box -> [Bytes(4) -> Nat]]
  <2>1. n \in 1..Len(calls) /\ hostMem \in [Box -> [Bytes(4) -> Nat]]
    BY DEF Basic, TypeOK
  <2>2. QED BY <2>1, BasicFacts
<1>2. PICK k \in IF calls[n].write THEN AckSizes ELSE {Size[calls[n].place]} :
        hostMem' = [hostMem EXCEPT ![AnswerBox(n)] =
                     [i \in Bytes(4) |-> IF i < k THEN n ELSE @[i]]]
  BY DEF Answer
<1>3. k \in {1, 2, 4}
  BY <1>1, <1>2, MonitorAccessAssumption
<1>4. \A i \in Bytes(4) : hostMem'[AnswerBox(n)][i] =
        IF i < k THEN n ELSE hostMem[AnswerBox(n)][i]
  BY <1>1, <1>2
<1>5. hostMem'[AnswerBox(n)][0] = n
  BY <1>3, <1>4 DEF Bytes
<1>6. hostMem' \in [Box -> [Bytes(4) -> Nat]]
  <2>1. [i \in Bytes(4) |-> IF i < k THEN n ELSE hostMem[AnswerBox(n)][i]]
          \in [Bytes(4) -> Nat]
    BY <1>1
  <2>2. QED BY <1>1, <1>2, <2>1
<1>7. \A b \in Box \ {AnswerBox(n)} : hostMem'[b] = hostMem[b]
  BY <1>1, <1>2
<1>8. \A m \in 1..Len(calls) : AnswerBox(m)' = AnswerBox(m)
  BY DEF Answer, AnswerBox
<1>9. QED
  BY <1>1, <1>2, <1>3, <1>4, <1>5, <1>6, <1>7, <1>8

(***************************************************************************)
(* A caller that finds an answer takes it away, or the assertion stops it. *)
(***************************************************************************)
LEMMA TakeStep ==
  ASSUME Basic, NEW c \in Caller, Take(c)
  PROVE  /\ Waiting(c) /\ hostMem[AnswerBox(mine[c])][0] # None
         /\ Erased(c) \subseteq Bytes(4) /\ 0 \in Erased(c)
         /\ \/ /\ hostMem' = Erase(c)
               /\ hostMem' \in [Box -> [Bytes(4) -> Nat]]
               /\ hostMem'[AnswerBox(mine[c])][0] = None
               /\ pc' = [pc EXCEPT ![c] = "idle"]
               /\ failed' = FALSE
            \/ /\ UNCHANGED <<hostMem, pc, result>>
               /\ failed' = TRUE
         /\ \A b \in Box \ {AnswerBox(mine[c])} : hostMem'[b] = hostMem[b]
         /\ \A m \in 1..Len(calls) : AnswerBox(m)' = AnswerBox(m)
<1>1. Waiting(c) /\ hostMem[AnswerBox(mine[c])][0] # None
  BY DEF Take, Waiting, Found
<1>2. mine[c] \in 1..Len(calls) /\ calls[mine[c]].place \in Place
  BY <1>1, BasicFacts
<1>3. Erased(c) \subseteq Bytes(4) /\ 0 \in Erased(c)
  <2>1. 0 \in Wanted(c) /\ Wanted(c) \subseteq Bytes(4)
    BY <1>2, BasicFacts DEF Wanted
  <2>2. 0 \in Bytes(4) BY DEF Bytes
  <2>3. QED BY <2>1, <2>2 DEF Erased
<1>4. AnswerBox(mine[c]) \in Box /\ hostMem \in [Box -> [Bytes(4) -> Nat]]
  BY <1>1, BasicFacts DEF Basic, TypeOK
<1>5. /\ Erase(c) \in [Box -> [Bytes(4) -> Nat]]
      /\ Erase(c)[AnswerBox(mine[c])][0] = None
      /\ \A b \in Box \ {AnswerBox(mine[c])} : Erase(c)[b] = hostMem[b]
  <2> DEFINE left == [i \in Bytes(4) |-> IF i \in Erased(c) THEN None
                         ELSE hostMem[AnswerBox(mine[c])][i]]
  <2>1. left \in [Bytes(4) -> Nat] /\ left[0] = None
    BY <1>3, <1>4 DEF None
  <2>2. Erase(c) = [hostMem EXCEPT ![AnswerBox(mine[c])] = left]
    BY SMTT(30) DEF Erase
  <2> HIDE DEF left
  <2>3. QED BY <1>4, <2>1, <2>2
<1>6. \A m \in 1..Len(calls) : AnswerBox(m)' = AnswerBox(m)
  BY DEF Take, AnswerBox
<1>7. CASE hostMem' = Erase(c) /\ pc' = [pc EXCEPT ![c] = "idle"] /\ failed' = FALSE
  BY <1>1, <1>3, <1>5, <1>6, <1>7
<1>8. CASE UNCHANGED <<hostMem, pc, result>> /\ failed' = TRUE
  BY <1>1, <1>3, <1>6, <1>8
<1>9. QED BY <1>7, <1>8 DEF Take
-----------------------------------------------------------------------------
(***************************************************************************)
(* Types, and who waits.                                                   *)
(***************************************************************************)
LEMMA BasicInit == Init => Basic
<1> SUFFICES ASSUME Init PROVE Basic
  OBVIOUS
<1>1. spi \in BOOLEAN /\ threads \subseteq Caller
  BY MonitorAccessAssumption DEF Init
<1>2. /\ hostMem \in [Box -> [Bytes(4) -> Nat]]
      /\ calls = <<>> /\ calls \in Seq(Call) /\ Len(calls) = 0 /\ open = {}
  BY EmptySeq DEF Init, None
<1>3. /\ pc \in [Caller -> {"idle", "polling", "giveup"}]
      /\ mine \in [Caller -> 0..Len(calls)]
      /\ polls \in [Caller -> 0..MaxPolls]
      /\ result \in [Caller -> Seq(Nat)]
  BY <1>2, MonitorAccessAssumption, EmptySeq DEF Init, None
<1>4. \A c \in Caller : ~Waiting(c)
  BY DEF Init, Waiting
<1>5. TypeOK
  BY <1>1, <1>2, <1>3 DEF TypeOK, Init
<1>6. AtWork /\ ReadsThroughHost
  BY <1>2, <1>4 DEF AtWork, ReadsThroughHost
<1>7. QED BY <1>5, <1>6 DEF Basic

LEMMA BasicSubmit ==
  ASSUME Basic, NEW c \in Caller, NEW call \in Asks[c],
         GetDataByHost(c, call) \/ SeDataByHost(c, call)
  PROVE  Basic'
<1>1. /\ call \in Call /\ Submit(c, call)
      /\ pc' = [pc EXCEPT ![c] = "polling"]
      /\ ~spi => ~call.write
  BY NewCall
<1>2. /\ calls' \in Seq(Call) /\ Len(calls') = Len(calls) + 1
      /\ \A n \in 1..Len(calls) : calls'[n] = calls[n]
      /\ calls'[Len(calls) + 1] = call
      /\ open' = open \cup {Len(calls) + 1}
      /\ mine' = [mine EXCEPT ![c] = Len(calls) + 1]
      /\ c \in threads
  BY <1>1, SubmitStep
<1>3. Len(calls) \in Nat
  BY BasicFacts
<1>4. open' \subseteq 1..Len(calls') /\ mine' \in [Caller -> 0..Len(calls')]
  <2>1. open \subseteq 1..Len(calls) /\ mine \in [Caller -> 0..Len(calls)]
    BY DEF Basic, TypeOK
  <2>2. open' \subseteq 1..Len(calls')
    <3>1. Len(calls) + 1 \in 1..Len(calls') /\ 1..Len(calls) \subseteq 1..Len(calls')
      BY <1>2, <1>3
    <3>2. QED BY <1>2, <2>1, <3>1
  <2>3. Len(calls) + 1 \in 0..Len(calls') /\ 0..Len(calls) \subseteq 0..Len(calls')
    BY <1>2, <1>3
  <2>4. QED BY <1>2, <2>1, <2>2, <2>3
<1>5. polls' \in [Caller -> 0..MaxPolls] /\ result' \in [Caller -> Seq(Nat)]
  BY <1>1, MonitorAccessAssumption, EmptySeq DEF Basic, TypeOK, Submit
<1>6. TypeOK'
  BY <1>1, <1>2, <1>4, <1>5 DEF Basic, TypeOK, Submit
<1>7. AtWork'
  <2> SUFFICES ASSUME NEW d \in Caller, Waiting(d)'
               PROVE  d \in threads' /\ mine'[d] # None
    BY DEF AtWork
  <2>1. threads' = threads BY <1>1 DEF Submit
  <2>2. CASE d = c
    BY <1>2, <1>3, <2>1, <2>2 DEF Basic, TypeOK, None
  <2>3. CASE d # c
    <3>1. Waiting(d) BY <1>1, <2>3 DEF Waiting, Basic, TypeOK
    <3>2. QED BY <1>2, <2>1, <2>3, <3>1 DEF Basic, TypeOK, AtWork
  <2>4. QED BY <2>2, <2>3
<1>8. ReadsThroughHost'
  <2> SUFFICES ASSUME ~spi, NEW n \in 1..Len(calls')
               PROVE  ~calls'[n].write
    BY <1>1 DEF ReadsThroughHost, Submit
  <2>1. n \in 1..Len(calls) \/ n = Len(calls) + 1
    BY <1>2, <1>3
  <2>2. QED BY <1>1, <1>2, <2>1 DEF Basic, ReadsThroughHost
<1>9. QED BY <1>6, <1>7, <1>8 DEF Basic

LEMMA BasicTake ==
  ASSUME Basic, NEW c \in Caller, Take(c)
  PROVE  Basic'
<1>1. UNCHANGED <<spi, threads, calls, open, mine, polls>>
  BY DEF Take
<1>2. /\ Waiting(c)
      /\ hostMem' \in [Box -> [Bytes(4) -> Nat]]
      /\ pc' = [pc EXCEPT ![c] = "idle"] \/ pc' = pc
      /\ failed' \in BOOLEAN
  BY TakeStep DEF Basic, TypeOK
<1>3. stopped' \in BOOLEAN
  BY DEF Take
<1>4. result' \in [Caller -> Seq(Nat)]
  <2> DEFINE box == hostMem[AnswerBox(mine[c])]
             data == IF calls[mine[c]].write THEN <<>>
                     ELSE [i \in 1..Size[calls[mine[c]].place] |-> box[i - 1]]
  <2>1. /\ calls[mine[c]].place \in Place
        /\ \A i \in Bytes(4) : box[i] \in Nat
    BY <1>2, BasicFacts
  <2>2. Size[calls[mine[c]].place] \in {1, 2, 4}
    BY <2>1, MonitorAccessAssumption
  <2>3. [i \in 1..Size[calls[mine[c]].place] |-> box[i - 1]] \in Seq(Nat)
    <3>1. \A i \in 1..Size[calls[mine[c]].place] : box[i - 1] \in Nat
      BY <2>1, <2>2 DEF Bytes
    <3> HIDE DEF box
    <3>2. QED BY <2>2, <3>1, IsASeq
  <2>4. data \in Seq(Nat)
    BY <2>3, EmptySeq
  <2>5. result' = [result EXCEPT ![c] = data] \/ result' = result
    BY DEF Take
  <2> HIDE DEF data
  <2>6. QED BY <2>4, <2>5 DEF Basic, TypeOK
<1>5. pc' \in [Caller -> {"idle", "polling", "giveup"}]
  BY <1>2 DEF Basic, TypeOK
<1>6. TypeOK'
  BY <1>1, <1>2, <1>3, <1>4, <1>5 DEF Basic, TypeOK
<1>7. AtWork'
  BY <1>1, <1>2 DEF Basic, TypeOK, AtWork, Waiting
<1>8. ReadsThroughHost'
  BY <1>1 DEF Basic, ReadsThroughHost
<1>9. QED BY <1>6, <1>7, <1>8 DEF Basic

LEMMA BasicPoll ==
  ASSUME Basic, NEW c \in Caller, Poll(c)
  PROVE  Basic'
<1>1. UNCHANGED <<spi, threads, hostMem, calls, open, mine, result, failed, stopped>>
  BY DEF Poll
<1>2. pc' \in [Caller -> {"idle", "polling", "giveup"}]
  BY DEF Poll, Basic, TypeOK
<1>3. polls' \in [Caller -> 0..MaxPolls]
  <2>1. polls \in [Caller -> 0..MaxPolls] /\ MaxPolls \in Nat
    BY MonitorAccessAssumption DEF Basic, TypeOK
  <2>2. polls[c] # 0 => polls[c] - 1 \in 0..MaxPolls
    BY <2>1
  <2>3. \/ polls' = polls
        \/ polls[c] # 0 /\ polls' = [polls EXCEPT ![c] = polls[c] - 1]
    BY DEF Poll, PollsAfter
  <2>4. QED BY <2>1, <2>2, <2>3
<1>4. \A d \in Caller : Waiting(d)' => Waiting(d)
  BY DEF Poll, Waiting, Basic, TypeOK
<1>5. TypeOK' /\ ReadsThroughHost'
  BY <1>1, <1>2, <1>3 DEF Basic, TypeOK, ReadsThroughHost
<1>6. AtWork'
  BY <1>1, <1>4 DEF Basic, AtWork
<1>7. QED BY <1>5, <1>6 DEF Basic

LEMMA BasicStep == Basic /\ [Next]_vars => Basic'
<1> SUFFICES ASSUME Basic, [Next]_vars PROVE Basic'
  OBVIOUS
<1>1. ASSUME NEW c \in Caller, NEW call \in Asks[c],
             GetDataByHost(c, call) \/ SeDataByHost(c, call)
      PROVE  Basic'
  BY <1>1, BasicSubmit
<1>2. ASSUME NEW n \in open, Answer(n) PROVE Basic'
  <2>1. hostMem' \in [Box -> [Bytes(4) -> Nat]]
    BY <1>2, AnswerStep
  <2>2. UNCHANGED <<spi, threads, calls, pc, mine, polls, result, failed, stopped>>
        /\ open' \subseteq open
    BY <1>2 DEF Answer
  <2>3. QED BY <2>1, <2>2 DEF Basic, TypeOK, AtWork, ReadsThroughHost, Waiting
<1>3. ASSUME NEW c \in Caller, Take(c) PROVE Basic'
  BY <1>3, BasicTake
<1>4. ASSUME NEW c \in Caller, Poll(c) PROVE Basic'
  BY <1>4, BasicPoll
<1>5. ASSUME NEW c \in Caller, GiveUp(c) PROVE Basic'
  BY <1>5 DEF GiveUp, Basic, TypeOK, AtWork, ReadsThroughHost, Waiting
<1>6. CASE UNCHANGED vars
  BY <1>6 DEF vars, Basic, TypeOK, AtWork, ReadsThroughHost, Waiting
<1>7. QED BY <1>1, <1>2, <1>3, <1>4, <1>5, <1>6 DEF Next

LEMMA BasicInvariance == Spec => []Basic
BY BasicInit, BasicStep, PTL DEF Spec

(***************************************************************************)
(* The types: in particular no call polls more often than it may, and what *)
(* it waits for is in the host memory's address range.                     *)
(***************************************************************************)
THEOREM AccessTypes == Spec => []TypeOK
<1>1. Basic => TypeOK
  BY DEF Basic
<1>2. QED BY <1>1, BasicInvariance, PTL
-----------------------------------------------------------------------------
(***************************************************************************)
(* Nothing is left over.  The counts of NothingLeftOver are those of       *)
(* finite sets: callers start to wait one by one.                          *)
(***************************************************************************)
LEMMA Counts ==
  ASSUME Basic, Finite, NEW b
  PROVE  /\ IsFiniteSet(Opened(b)) /\ Cardinality(Opened(b)) \in Nat
         /\ IsFiniteSet(Waiters(b)) /\ Cardinality(Waiters(b)) \in Nat
<1>1. IsFiniteSet(1..Len(calls))
  BY BasicFacts, FS_Interval
<1>2. Opened(b) \subseteq 1..Len(calls)
  BY DEF Opened, Basic, TypeOK
<1>3. Waiters(b) \subseteq {c \in Caller : Waiting(c)}
  BY DEF Waiters
<1>4. IsFiniteSet(Opened(b)) /\ IsFiniteSet(Waiters(b))
  BY <1>1, <1>2, <1>3, FS_Subset DEF Finite
<1>5. QED BY <1>4, FS_CardinalityType

LEMMA OverFacts ==
  ASSUME NothingLeftOver, NEW b \in Box
  PROVE  Cardinality(Opened(b)) + (IF hostMem[b][0] # None THEN 1 ELSE 0)
           <= Cardinality(Waiters(b))
BY DEF NothingLeftOver, Opened, Waiters

LEMMA OverInit == Init => Finite /\ NothingLeftOver
<1> SUFFICES ASSUME Init PROVE Finite /\ NothingLeftOver
  OBVIOUS
<1>1. {c \in Caller : Waiting(c)} = {}
  BY DEF Init, Waiting
<1>2. Finite
  BY <1>1, FS_EmptySet DEF Finite
<1>3. ASSUME NEW b \in Box
      PROVE  /\ hostMem[b][0] = None
             /\ {n \in open : AnswerBox(n) = b} = {}
             /\ {c \in Caller : Waiting(c) /\ AnswerBox(mine[c]) = b} = {}
  BY <1>1 DEF Init, Bytes
<1>4. QED
  BY <1>2, <1>3, FS_EmptySet DEF NothingLeftOver

LEMMA OverSubmit ==
  ASSUME Basic, Finite, NothingLeftOver,
         NEW c \in Caller, NEW call \in Asks[c],
         GetDataByHost(c, call) \/ SeDataByHost(c, call)
  PROVE  Finite' /\ NothingLeftOver'
<1> PICK n \in Nat : n = Len(calls) + 1
  BY BasicFacts
<1>1. /\ Submit(c, call) /\ call \in Call
      /\ pc' = [pc EXCEPT ![c] = "polling"]
  BY NewCall
<1>2. /\ \A m \in 1..Len(calls) : AnswerBox(m)' = AnswerBox(m)
      /\ open' = open \cup {n} /\ n \notin open
      /\ mine' = [mine EXCEPT ![c] = n]
      /\ ~Waiting(c)
      /\ open \subseteq 1..Len(calls)
  BY <1>1, SubmitStep DEF Basic, TypeOK
<1>3. \A d \in Caller : Waiting(d)' <=> Waiting(d) \/ d = c
  BY <1>1 DEF Waiting, Basic, TypeOK
<1>4. {d \in Caller : Waiting(d)'} = {d \in Caller : Waiting(d)} \cup {c}
  BY <1>3
<1>5. Finite'
  <2>1. IsFiniteSet({d \in Caller : Waiting(d)} \cup {c})
    BY FS_AddElement DEF Finite
  <2>2. QED BY <1>4, <2>1 DEF Finite
<1>6. ASSUME NEW b \in Box
      PROVE  Cardinality(Opened(b)') + (IF hostMem'[b][0] # None THEN 1 ELSE 0)
               <= Cardinality(Waiters(b)')
  <2>1. Opened(b)' = IF AnswerBox(n)' = b THEN Opened(b) \cup {n} ELSE Opened(b)
    BY <1>2 DEF Opened
  <2>2. \A d \in Caller \ {c} : /\ mine'[d] = mine[d]
                                /\ Waiting(d) => AnswerBox(mine[d])' = AnswerBox(mine[d])
    BY <1>2, BasicFacts DEF Basic, TypeOK
  <2>3. mine'[c] = n
    BY <1>2 DEF Basic, TypeOK
  <2>4. ASSUME NEW d \in Caller
        PROVE  d \in Waiters(b)' <=>
                 d \in IF AnswerBox(n)' = b THEN Waiters(b) \cup {c} ELSE Waiters(b)
    <3>1. CASE d = c
      <4>1. AnswerBox(mine[c])' = AnswerBox(n)'
        BY <2>3 DEF AnswerBox
      <4>2. QED BY <1>2, <1>3, <3>1, <4>1 DEF Waiters
    <3>2. CASE d # c
      BY <1>3, <2>2, <3>2 DEF Waiters
    <3>3. QED BY <3>1, <3>2
  <2>5. Waiters(b)' = IF AnswerBox(n)' = b THEN Waiters(b) \cup {c} ELSE Waiters(b)
    BY <2>4 DEF Waiters
  <2>6. n \notin Opened(b) /\ c \notin Waiters(b)
    BY <1>2 DEF Opened, Waiters
  <2>7. hostMem' = hostMem
    BY <1>1 DEF Submit
  <2>8. /\ Cardinality(Opened(b)') = Cardinality(Opened(b))
                                       + (IF AnswerBox(n)' = b THEN 1 ELSE 0)
        /\ Cardinality(Waiters(b)') = Cardinality(Waiters(b))
                                       + (IF AnswerBox(n)' = b THEN 1 ELSE 0)
    <3>1. /\ Cardinality(Opened(b) \cup {n}) = Cardinality(Opened(b)) + 1
          /\ Cardinality(Waiters(b) \cup {c}) = Cardinality(Waiters(b)) + 1
      BY <2>6, Counts, FS_AddElement
    <3>2. QED BY <2>1, <2>5, <3>1, Counts
  <2>9. QED BY <2>7, <2>8, Counts, OverFacts
<1>7. QED BY <1>5, <1>6 DEF NothingLeftOver, Opened, Waiters

LEMMA OverAnswer ==
  ASSUME Basic, Finite, NothingLeftOver, NEW n \in open, Answer(n)
  PROVE  Finite' /\ NothingLeftOver'
<1>1. UNCHANGED <<pc, mine>> /\ open' = open \ {n} /\ open \subseteq 1..Len(calls)
  BY DEF Answer, Basic, TypeOK
<1>2. \A m \in 1..Len(calls) : AnswerBox(m)' = AnswerBox(m)
  BY AnswerStep
<1>3. \A d \in Caller : Waiting(d)' <=> Waiting(d)
  BY <1>1 DEF Waiting
<1>4. Finite'
  BY <1>3 DEF Finite
<1>5. ASSUME NEW b \in Box
      PROVE  Cardinality(Opened(b)') + (IF hostMem'[b][0] # None THEN 1 ELSE 0)
               <= Cardinality(Waiters(b)')
  <2>1. Opened(b)' = Opened(b) \ {n}
    BY <1>1, <1>2 DEF Opened
  <2>2. \A d \in Caller : Waiting(d) => AnswerBox(mine[d])' = AnswerBox(mine[d])
    <3>1. \A d \in Caller : Waiting(d) => AnswerBox(mine[d])' = AnswerBox(mine[d])
      BY <1>1, <1>2, BasicFacts DEF AnswerBox
    <3>2. QED BY <3>1
  <2>3. Waiters(b)' = Waiters(b)
    BY <1>3, <2>2 DEF Waiters
  <2>4. b = AnswerBox(n) => n \in Opened(b)
    BY DEF Opened
  <2>5. b # AnswerBox(n) => hostMem'[b] = hostMem[b] /\ n \notin Opened(b)
    BY AnswerStep DEF Opened
  <2>6. Cardinality(Opened(b)') =
          Cardinality(Opened(b)) - (IF b = AnswerBox(n) THEN 1 ELSE 0)
    <3>1. Cardinality(Opened(b) \ {n}) =
            IF n \in Opened(b) THEN Cardinality(Opened(b)) - 1 ELSE Cardinality(Opened(b))
      BY Counts, FS_RemoveElement
    <3>2. QED BY <2>1, <2>4, <2>5, <3>1, Counts
  <2>7. QED BY <2>3, <2>5, <2>6, Counts, OverFacts
<1>6. QED BY <1>4, <1>5 DEF NothingLeftOver, Opened, Waiters

LEMMA OverTake ==
  ASSUME Basic, Finite, NothingLeftOver, NEW c \in Caller, Take(c)
  PROVE  Finite' /\ NothingLeftOver'
<1>1. UNCHANGED <<open, mine, calls, spi>> /\ open \subseteq 1..Len(calls)
  BY DEF Take, Basic, TypeOK
<1>2. \A b : Opened(b)' = Opened(b)
  BY <1>1 DEF Opened, AnswerBox
<1>3. CASE UNCHANGED <<hostMem, pc>>
  BY <1>1, <1>3 DEF Finite, NothingLeftOver, AnswerBox, Waiting
<1>4. CASE /\ pc' = [pc EXCEPT ![c] = "idle"]
           /\ hostMem'[AnswerBox(mine[c])][0] = None
  <2>1. \A d \in Caller : Waiting(d)' <=> Waiting(d) /\ d # c
    BY <1>4 DEF Waiting, Basic, TypeOK
  <2>2. {d \in Caller : Waiting(d)'} = {d \in Caller : Waiting(d)} \ {c}
    BY <2>1
  <2>3. Finite'
    BY <2>2, FS_RemoveElement DEF Finite
  <2>4. ASSUME NEW b \in Box
        PROVE  Cardinality(Opened(b)') + (IF hostMem'[b][0] # None THEN 1 ELSE 0)
                 <= Cardinality(Waiters(b)')
    <3>1. Waiters(b)' = Waiters(b) \ {c}
      BY <1>1, <2>1 DEF Waiters, AnswerBox
    <3>2. b = AnswerBox(mine[c]) => c \in Waiters(b) /\ hostMem[b][0] # None
      BY TakeStep DEF Waiters
    <3>3. b # AnswerBox(mine[c]) => c \notin Waiters(b) /\ hostMem'[b] = hostMem[b]
      BY TakeStep DEF Waiters
    <3>4. Cardinality(Waiters(b)') =
            Cardinality(Waiters(b)) - (IF b = AnswerBox(mine[c]) THEN 1 ELSE 0)
      <4>1. Cardinality(Waiters(b) \ {c}) =
              IF c \in Waiters(b) THEN Cardinality(Waiters(b)) - 1 ELSE Cardinality(Waiters(b))
        BY Counts, FS_RemoveElement
      <4>2. QED BY <3>1, <3>2, <3>3, <4>1, Counts
    <3>5. QED BY <1>2, <1>4, <3>2, <3>3, <3>4, Counts, OverFacts
  <2>5. QED BY <2>3, <2>4 DEF NothingLeftOver, Opened, Waiters
<1>5. QED BY <1>3, <1>4, TakeStep

LEMMA OverStep ==
  Basic /\ Finite /\ NothingLeftOver /\ [Next]_vars => Finite' /\ NothingLeftOver'
<1> SUFFICES ASSUME Basic, Finite, NothingLeftOver, [Next]_vars
             PROVE  Finite' /\ NothingLeftOver'
  OBVIOUS
<1>1. ASSUME UNCHANGED <<spi, hostMem, calls, open, mine>>,
             \A d \in Caller : Waiting(d)' <=> Waiting(d)
      PROVE  Finite' /\ NothingLeftOver'
  BY <1>1 DEF Finite, NothingLeftOver, AnswerBox
<1>2. ASSUME NEW c \in Caller, Poll(c) PROVE Finite' /\ NothingLeftOver'
  <2>1. \A d \in Caller : Waiting(d)' <=> Waiting(d)
    BY <1>2 DEF Poll, Waiting, Basic, TypeOK
  <2>2. QED BY <1>1, <1>2, <2>1 DEF Poll
<1>3. ASSUME NEW c \in Caller, GiveUp(c) PROVE Finite' /\ NothingLeftOver'
  BY <1>1, <1>3 DEF GiveUp, Waiting
<1>4. CASE UNCHANGED vars
  BY <1>1, <1>4 DEF vars, Waiting
<1>5. QED
  BY <1>2, <1>3, <1>4, OverSubmit, OverAnswer, OverTake DEF Next

(***************************************************************************)
(* No poll finds an answer that was left over, whatever the callers and    *)
(* the order of the chip's answers, through the SPI or a host.             *)
(***************************************************************************)
THEOREM NoAnswerLeftOver == Spec => []NothingLeftOver
BY BasicInvariance, OverInit, OverStep, PTL DEF Spec
-----------------------------------------------------------------------------
(***************************************************************************)
(* A lone caller.                                                          *)
(***************************************************************************)
LEMMA LoneInit == Init => Lone
BY DEF Init, Lone, Waiting, NoAnswer, Bytes

LEMMA LoneActor ==
  ASSUME Basic, NEW c \in Caller, threads = {c}, NEW d \in Caller, Waiting(d)
  PROVE  d = c
BY DEF Basic, AtWork

LEMMA LoneStep ==
  ASSUME Basic, Lone, [Next]_vars
  PROVE  Lone'
<1> SUFFICES ASSUME NEW c \in Caller, threads = {c}
             PROVE  IF Waiting(c)'
                    THEN /\ NoAnswer(Box \ {AnswerBox(mine[c])})'
                         /\ \/ open' = {mine'[c]} /\ NoAnswer(Box)'
                            \/ open' = {} /\ Answered(c)'
                    ELSE open' = {} /\ NoAnswer(Box)'
  <2>1. threads' = threads
    BY DEF Next, vars, GetDataByHost, SeDataByHost, Submit, Answer, Take, Poll, GiveUp
  <2>2. QED BY <2>1 DEF Lone
<1> DEFINE Goal == IF Waiting(c)'
                    THEN /\ NoAnswer(Box \ {AnswerBox(mine[c])})'
                         /\ \/ open' = {mine'[c]} /\ NoAnswer(Box)'
                            \/ open' = {} /\ Answered(c)'
                    ELSE open' = {} /\ NoAnswer(Box)'
<1>1. IF Waiting(c)
      THEN /\ NoAnswer(Box \ {AnswerBox(mine[c])})
           /\ \/ open = {mine[c]} /\ NoAnswer(Box)
              \/ open = {} /\ Answered(c)
      ELSE open = {} /\ NoAnswer(Box)
  BY DEF Lone
<1>2. ASSUME NEW d \in Caller, NEW call \in Asks[d],
             GetDataByHost(d, call) \/ SeDataByHost(d, call)
      PROVE  Goal
  <2>1. /\ Submit(d, call) /\ call \in Call /\ d = c /\ ~Waiting(c)
        /\ pc' = [pc EXCEPT ![c] = "polling"]
        /\ open' = open \cup {Len(calls) + 1}
        /\ mine' = [mine EXCEPT ![c] = Len(calls) + 1]
    BY <1>2, NewCall, SubmitStep
  <2>2. open' = {mine'[c]} /\ Waiting(c)'
    BY <1>1, <2>1 DEF Waiting, Basic, TypeOK
  <2>3. NoAnswer(Box)'
    BY <1>1, <2>1 DEF Submit, NoAnswer
  <2>4. QED BY <2>2, <2>3 DEF NoAnswer
<1>3. ASSUME NEW n \in open, Answer(n) PROVE Goal
  <2>1. /\ Waiting(c) /\ open = {n} /\ n = mine[c] /\ NoAnswer(Box)
    BY <1>1
  <2>2. UNCHANGED <<spi, calls, pc, mine>> /\ open' = {}
    BY <1>3, <2>1 DEF Answer
  <2>3. AnswerBox(mine[c])' = AnswerBox(mine[c])
    BY <2>2 DEF AnswerBox
  <2>4. \A b \in Box \ {AnswerBox(n)} : hostMem'[b] = hostMem[b]
    BY <1>3, AnswerStep
  <2>5. NoAnswer(Box \ {AnswerBox(mine[c])})'
    BY <2>1, <2>3, <2>4 DEF NoAnswer
  <2>6. PICK k \in {1, 2, 4} :
          /\ ~calls[n].write => k = Size[calls[n].place]
          /\ \A i \in Bytes(4) : hostMem'[AnswerBox(n)][i] =
               IF i < k THEN n ELSE hostMem[AnswerBox(n)][i]
    BY <1>3, AnswerStep
  <2>7. /\ \A i \in Bytes(k) : hostMem'[AnswerBox(n)][i] = n
        /\ 0 \in Bytes(k)
    BY <2>6 DEF Bytes
  <2>8. ~calls[n].write => Wanted(c)' = Bytes(k)
    BY <2>1, <2>2, <2>6 DEF Wanted
  <2>9. Answered(c)'
    BY <2>1, <2>2, <2>3, <2>7, <2>8 DEF Answered
  <2>10. QED BY <2>1, <2>2, <2>5, <2>9 DEF Waiting
<1>4. ASSUME UNCHANGED <<spi, hostMem, calls, open, mine>>,
             Waiting(c)' <=> Waiting(c)
      PROVE  Goal
  BY <1>1, <1>4 DEF NoAnswer, Answered, AnswerBox, Wanted
<1>5. ASSUME NEW d \in Caller, Take(d) PROVE Goal
  <2>1. d = c /\ Waiting(c) /\ hostMem[AnswerBox(mine[c])][0] # None
    BY <1>5, TakeStep, LoneActor
  <2>2. AnswerBox(mine[c]) \in Box
    BY <2>1, BasicFacts
  <2>3. open = {} /\ NoAnswer(Box \ {AnswerBox(mine[c])})
    BY <1>1, <2>1, <2>2 DEF NoAnswer
  <2>4. UNCHANGED <<spi, calls, open, mine>>
    BY <1>5 DEF Take
  <2>5. CASE UNCHANGED <<hostMem, pc>>
    BY <1>4, <2>4, <2>5 DEF Waiting
  <2>6. CASE /\ hostMem'[AnswerBox(mine[c])][0] = None
             /\ pc' = [pc EXCEPT ![c] = "idle"]
    <3>1. ~Waiting(c)'
      BY <2>6 DEF Waiting, Basic, TypeOK
    <3>2. \A b \in Box \ {AnswerBox(mine[c])} : hostMem'[b] = hostMem[b]
      BY <1>5, <2>1, TakeStep
    <3>3. NoAnswer(Box)'
      BY <2>3, <2>6, <3>2 DEF NoAnswer
    <3>4. QED BY <2>3, <2>4, <3>1, <3>3
  <2>7. QED BY <1>5, <2>1, <2>5, <2>6, TakeStep
<1>6. ASSUME NEW d \in Caller, Poll(d) PROVE Goal
  <2>1. Waiting(c)' <=> Waiting(c)
    BY <1>6 DEF Poll, Waiting, Basic, TypeOK
  <2>2. QED BY <1>4, <1>6, <2>1 DEF Poll
<1>7. ASSUME NEW d \in Caller, GiveUp(d) PROVE Goal
  BY <1>4, <1>7 DEF GiveUp, Waiting
<1>8. CASE UNCHANGED vars
  BY <1>4, <1>8 DEF vars, Waiting
<1>9. QED BY <1>2, <1>3, <1>5, <1>6, <1>7, <1>8 DEF Next

LEMMA LoneInvariance == Spec => [](Basic /\ Lone)
<1>1. Init => Basic /\ Lone
  BY BasicInit, LoneInit
<1>2. Basic /\ Lone /\ [Next]_vars => (Basic /\ Lone)'
  BY BasicStep, LoneStep
<1>3. QED BY <1>1, <1>2, PTL DEF Spec

(***************************************************************************)
(* A caller that is alone gives up only on a call the chip has not         *)
(* answered, through the SPI or a host: an answer is never missed.         *)
(***************************************************************************)
THEOREM GivesUpOnSilence == Spec => SilenceBeforeGiveUp
<1>1. ASSUME Basic, Lone, [Next]_vars, NEW c \in Caller,
             threads = {c}, pc[c] = "polling", pc'[c] = "giveup"
      PROVE  mine[c] \in open
  <2>1. \A d \in Caller : pc'[d] # pc[d] /\ pc'[d] = "giveup" => Poll(d)
    <3>1. ASSUME NEW d \in Caller, NEW call \in Asks[d],
                 GetDataByHost(d, call) \/ SeDataByHost(d, call)
          PROVE  \A e \in Caller : pc'[e] = pc[e] \/ pc'[e] = "polling"
      BY <1>1, <3>1, NewCall DEF Basic, TypeOK
    <3>2. ASSUME NEW d \in Caller, Take(d)
          PROVE  \A e \in Caller : pc'[e] = pc[e] \/ pc'[e] = "idle"
      BY <1>1, <3>2, TakeStep DEF Basic, TypeOK
    <3>3. ASSUME NEW d \in Caller, Poll(d)
          PROVE  \A e \in Caller : pc'[e] = pc[e] \/ e = d
      BY <1>1, <3>3 DEF Poll, Basic, TypeOK
    <3>4. ASSUME \/ \E n \in open : Answer(n)
                 \/ \E d \in Caller : GiveUp(d)
                 \/ UNCHANGED vars
          PROVE  pc' = pc
      BY <3>4 DEF Answer, GiveUp, vars
    <3>5. QED BY <1>1, <3>1, <3>2, <3>3, <3>4 DEF Next
  <2>2. Poll(c) /\ Waiting(c)
    BY <1>1, <2>1 DEF Waiting
  <2>3. hostMem[AnswerBox(mine[c])][0] = None /\ mine[c] \in 1..Len(calls)
    BY <2>2, BasicFacts, <1>1 DEF Poll, Found
  <2>4. ~Answered(c)
    BY <2>3, <1>1, BasicFacts DEF Answered, None
  <2>5. QED BY <1>1, <2>2, <2>4 DEF Lone
<1>2. Basic /\ Lone /\ [Next]_vars =>
        [\A c \in Caller : threads = {c} /\ pc[c] = "polling" /\ pc'[c] = "giveup"
           => mine[c] \in open]_vars
  BY <1>1
<1>3. QED BY <1>2, LoneInvariance, PTL DEF Spec, SilenceBeforeGiveUp
-----------------------------------------------------------------------------
(***************************************************************************)
(* What a read takes, when one thread at most calls through the SPI.       *)
(***************************************************************************)
LEMMA AnswerIsWhole ==
  ASSUME Basic, Lone, AloneOnSPI, Whole, NEW c \in Caller, Waiting(c),
         hostMem[AnswerBox(mine[c])][0] # None, ~calls[mine[c]].write
  PROVE  LET n == hostMem[AnswerBox(mine[c])][0] IN
           /\ \A i \in Wanted(c) : hostMem[AnswerBox(mine[c])][i] = n
           /\ n \in 1..Len(calls) /\ calls[n] = calls[mine[c]]
           /\ spi => n = mine[c]
<1>1. mine[c] \in 1..Len(calls) /\ c \in threads
  BY BasicFacts
<1>2. CASE spi
  <2>1. threads = {c}
    BY <1>1, <1>2 DEF AloneOnSPI
  <2>2. AnswerBox(mine[c]) \in Box
    BY BasicFacts
  <2>3. Answered(c)
    BY SMTT(30), <2>1, <2>2 DEF Lone, NoAnswer
  <2>4. QED BY <1>1, <2>3 DEF Answered
<1>3. CASE ~spi
  <2> DEFINE b == calls[mine[c]].place
             n == hostMem[b][0]
  <2>1. AnswerBox(mine[c]) = b /\ b \in Place
    BY <1>1, <1>3, BasicFacts DEF AnswerBox
  <2>2. 0 \in Bytes(Size[b])
    BY <2>1, BasicFacts
  <2>3. /\ \A i \in Wanted(c) : hostMem[b][i] = n
        /\ n \in 1..Len(calls) /\ calls[n].place = b
    BY SMTT(30), <1>3, <2>1, <2>2 DEF Whole, Wanted
  <2>4. ~calls[n].write /\ calls[n] \in Call /\ calls[mine[c]] \in Call
    BY SMTT(30), <1>1, <1>3, <2>3, BasicFacts DEF Basic, ReadsThroughHost
  <2> HIDE DEF n
  <2>5. calls[n] = calls[mine[c]]
    BY <2>3, <2>4 DEF Call
  <2>6. QED BY ZenonT(60), <1>3, <2>1, <2>3, <2>5 DEF n
<1>4. QED BY <1>2, <1>3

LEMMA TakeComplete ==
  ASSUME Basic, Lone, AloneOnSPI, Whole, NEW c \in Caller, Take(c)
  PROVE  /\ failed' = FALSE /\ hostMem' = Erase(c)
         /\ result' = [result EXCEPT ![c] =
              IF calls[mine[c]].write THEN <<>>
              ELSE [i \in 1..Size[calls[mine[c]].place] |->
                      hostMem[AnswerBox(mine[c])][0]]]
<1>1. Waiting(c) /\ hostMem[AnswerBox(mine[c])][0] # None
  BY TakeStep
<1>2. calls[mine[c]].write \/ \A i \in Wanted(c) :
        hostMem[AnswerBox(mine[c])][i] = hostMem[AnswerBox(mine[c])][0]
  BY SMTT(30), <1>1, AnswerIsWhole
<1>3. failed' = FALSE /\ hostMem' = Erase(c)
      /\ result' = [result EXCEPT ![c] =
           IF calls[mine[c]].write THEN <<>>
           ELSE [i \in 1..Size[calls[mine[c]].place] |->
                   hostMem[AnswerBox(mine[c])][i - 1]]]
  BY <1>1, <1>2 DEF Take
<1>4. CASE calls[mine[c]].write
  BY <1>3, <1>4
<1>5. CASE ~calls[mine[c]].write
  <2>1. Size[calls[mine[c]].place] \in {1, 2, 4}
    BY <1>1, BasicFacts, MonitorAccessAssumption
  <2>2. \A i \in 1..Size[calls[mine[c]].place] : i - 1 \in Wanted(c)
    BY <2>1 DEF Wanted, Bytes
  <2>3. [i \in 1..Size[calls[mine[c]].place] |-> hostMem[AnswerBox(mine[c])][i - 1]]
          = [i \in 1..Size[calls[mine[c]].place] |-> hostMem[AnswerBox(mine[c])][0]]
    BY <1>2, <1>5, <2>2
  <2>4. QED BY <1>3, <1>5, <2>3
<1>6. QED BY <1>4, <1>5

LEMMA SoundInit ==
  OneThroughSPI /\ Init => AloneOnSPI /\ Whole /\ Results /\ BytesPresent
<1> SUFFICES ASSUME OneThroughSPI, Init
             PROVE  AloneOnSPI /\ Whole /\ Results /\ BytesPresent
  OBVIOUS
<1>1. AloneOnSPI
  BY DEF OneThroughSPI, AloneOnSPI, Init
<1>2. \A b \in Box, i \in Bytes(4) : hostMem[b][i] = None
  BY DEF Init
<1>3. Whole
  <2>1. Basic BY BasicInit
  <2>2. QED BY <1>2, <2>1, BasicFacts DEF Whole, Box, Bytes
<1>4. Results
  BY DEF Init, Results
<1>5. QED BY <1>1, <1>3, <1>4 DEF Init, BytesPresent

LEMMA WholeStep ==
  ASSUME Basic, Lone, AloneOnSPI, Whole, [Next]_vars
  PROVE  Whole'
<1> USE DEF Whole
<1>1. spi' = spi
  BY DEF Next, vars, GetDataByHost, SeDataByHost, Submit, Answer, Take, Poll, GiveUp
<1>2. ASSUME NEW c \in Caller, NEW call \in Asks[c],
             GetDataByHost(c, call) \/ SeDataByHost(c, call)
      PROVE  Whole'
  <2>1. Submit(c, call) /\ call \in Call
    BY <1>2, NewCall
  <2>2. /\ \A n \in 1..Len(calls) : calls'[n] = calls[n]
        /\ Len(calls') = Len(calls) + 1 /\ Len(calls) \in Nat
    BY <2>1, SubmitStep, BasicFacts
  <2>3. \A n \in 1..Len(calls) : n \in 1..Len(calls')
    BY <2>2
  <2>4. hostMem' = hostMem
    BY <2>1 DEF Submit
  <2>5. QED BY <1>1, <2>2, <2>3, <2>4
<1>3. ASSUME NEW n \in open, Answer(n) PROVE Whole'
  <2> SUFFICES ASSUME ~spi, NEW b \in Place, NEW i \in Bytes(Size[b])
               PROVE  LET m == hostMem'[b][0] IN
                        /\ hostMem'[b][i] = m
                        /\ m # None => m \in 1..Len(calls) /\ calls[m].place = b
    BY SMTT(30), <1>1, <1>3 DEF Answer
  <2>1. n \in 1..Len(calls) /\ AnswerBox(n) = calls[n].place /\ ~calls[n].write
    BY <1>3, AnswerStep DEF AnswerBox, Basic, ReadsThroughHost
  <2>2. CASE b = calls[n].place
    <3>1. PICK k \in {1, 2, 4} :
            /\ k = Size[b]
            /\ \A j \in Bytes(4) : hostMem'[b][j] = IF j < k THEN n ELSE hostMem[b][j]
      BY <1>3, <2>1, <2>2, AnswerStep
    <3>2. \A j \in Bytes(Size[b]) : hostMem'[b][j] = n
      BY <3>1 DEF Bytes
    <3>3. 0 \in Bytes(Size[b])
      BY BasicFacts
    <3>4. QED BY <2>1, <2>2, <3>2, <3>3
  <2>3. CASE b # calls[n].place
    <3>1. hostMem'[b] = hostMem[b]
      BY <1>3, <2>1, <2>3, AnswerStep DEF Box
    <3>2. QED BY <3>1
  <2>4. QED BY <2>2, <2>3
<1>4. ASSUME NEW c \in Caller, Take(c) PROVE Whole'
  <2> SUFFICES ASSUME ~spi, NEW b \in Place, NEW i \in Bytes(Size[b])
               PROVE  LET m == hostMem'[b][0] IN
                        /\ hostMem'[b][i] = m
                        /\ m # None => m \in 1..Len(calls) /\ calls[m].place = b
    BY <1>1, <1>4 DEF Take
  <2>1. /\ Waiting(c) /\ mine[c] \in 1..Len(calls)
        /\ AnswerBox(mine[c]) = calls[mine[c]].place /\ ~calls[mine[c]].write
    BY <1>4, TakeStep, BasicFacts DEF AnswerBox, Basic, ReadsThroughHost
  <2>2. CASE b = calls[mine[c]].place
    <3>1. Erased(c) = Bytes(Size[b])
      BY <2>1, <2>2 DEF Erased, Wanted
    <3>2. hostMem' = Erase(c)
      BY <1>4, TakeComplete
    <3>3. \A j \in Bytes(4) : j \in Bytes(Size[b]) => hostMem'[b][j] = None
      BY <2>1, <2>2, <3>1, <3>2 DEF Erase, Basic, TypeOK, Box
    <3>4. QED BY <3>3, BasicFacts
  <2>3. CASE b # calls[mine[c]].place
    <3>1. hostMem'[b] = hostMem[b]
      BY <1>4, <2>1, <2>3, TakeStep DEF Box
    <3>2. QED BY <3>1
  <2>4. QED BY <2>2, <2>3
<1>5. CASE (\E c \in Caller : Poll(c) \/ GiveUp(c)) \/ UNCHANGED vars
  BY <1>5 DEF Poll, GiveUp, vars
<1>6. QED BY <1>2, <1>3, <1>4, <1>5 DEF Next

LEMMA ResultsStep ==
  ASSUME Basic, Lone, AloneOnSPI, Whole, Results, [Next]_vars
  PROVE  Results'
<1>1. ASSUME NEW c \in Caller, NEW call \in Asks[c],
             GetDataByHost(c, call) \/ SeDataByHost(c, call)
      PROVE  Results'
  <2>1. Submit(c, call) /\ call \in Call
    BY <1>1, NewCall
  <2>2. /\ \A n \in 1..Len(calls) : calls'[n] = calls[n]
        /\ Len(calls') = Len(calls) + 1 /\ Len(calls) \in Nat
        /\ mine' = [mine EXCEPT ![c] = Len(calls) + 1]
    BY <2>1, SubmitStep, BasicFacts
  <2> SUFFICES ASSUME NEW d \in Caller, NEW i \in 1..Len(result'[d])
               PROVE  LET n == result'[d][i] IN
                        /\ n \in 1..Len(calls') /\ n = result'[d][1]
                        /\ mine'[d] # None /\ calls'[n] = calls'[mine'[d]]
                        /\ spi => n = mine'[d]
    <3>1. spi' = spi BY <2>1 DEF Submit
    <3>2. QED BY <3>1 DEF Results
  <2>3. d # c
    BY <2>1, EmptySeq DEF Submit, Basic, TypeOK
  <2>4. result'[d] = result[d] /\ mine'[d] = mine[d]
    BY <2>1, <2>2, <2>3 DEF Submit, Basic, TypeOK
  <2> DEFINE n == result[d][i]
  <2>5. /\ n \in 1..Len(calls) /\ n = result[d][1]
        /\ mine[d] # None /\ calls[n] = calls[mine[d]]
        /\ spi => n = mine[d]
    BY <2>4 DEF Results
  <2>6. calls[mine[d]] = calls'[mine[d]]
    <3>1. mine[d] \in 1..Len(calls)
      BY <2>5 DEF Basic, TypeOK, None
    <3>2. QED BY <2>2, <3>1
  <2> HIDE DEF n
  <2>7. n \in 1..Len(calls') /\ calls'[n] = calls[n]
    BY <2>2, <2>5
  <2>8. QED BY <2>4, <2>5, <2>6, <2>7 DEF n
<1>2. ASSUME NEW c \in Caller, Take(c) PROVE Results'
  <2>1. UNCHANGED <<spi, calls, mine>>
    BY <1>2 DEF Take
  <2> SUFFICES ASSUME NEW d \in Caller, NEW i \in 1..Len(result'[d])
               PROVE  LET n == result'[d][i] IN
                        /\ n \in 1..Len(calls) /\ n = result'[d][1]
                        /\ mine[d] # None /\ calls[n] = calls[mine[d]]
                        /\ spi => n = mine[d]
    BY <2>1 DEF Results
  <2>2. result \in [Caller -> Seq(Nat)]
    BY DEF Basic, TypeOK
  <2>3. CASE d # c
    <3>1. result'[d] = result[d]
      BY <1>2, <2>2, <2>3, TakeComplete
    <3>2. QED BY <3>1 DEF Results
  <2>4. CASE d = c
    <3>1. CASE calls[mine[c]].write
      <4>1. result'[d] = <<>>
        BY <1>2, <2>2, <2>4, <3>1, TakeComplete
      <4>2. QED BY <4>1
    <3>2. CASE ~calls[mine[c]].write
      <4> DEFINE size == Size[calls[mine[c]].place]
                 n == hostMem[AnswerBox(mine[c])][0]
      <4>1. Waiting(c) /\ n # None
        BY <1>2, TakeStep
      <4>2. size \in {1, 2, 4}
        BY <4>1, BasicFacts, MonitorAccessAssumption
      <4>3. /\ n \in 1..Len(calls) /\ calls[n] = calls[mine[c]]
            /\ spi => n = mine[c]
            /\ mine[c] # None
        BY <3>2, <4>1, AnswerIsWhole DEF Basic, AtWork
      <4>4. result'[c] = [j \in 1..size |-> n]
        BY <1>2, <2>2, <3>2, TakeComplete
      <4> HIDE DEF size, n
      <4>5. Len(result'[c]) = size
        BY <4>2, <4>4
      <4>6. i \in 1..size /\ 1 \in 1..size
        BY <2>4, <4>2, <4>5
      <4>7. QED BY <2>4, <4>3, <4>4, <4>6
    <3>3. QED BY <3>1, <3>2
  <2>5. QED BY <2>3, <2>4
<1>3. CASE \/ \E n \in open : Answer(n)
           \/ \E c \in Caller : Poll(c) \/ GiveUp(c)
           \/ UNCHANGED vars
  BY <1>3 DEF Answer, Poll, GiveUp, vars, Results
<1>4. QED BY <1>1, <1>2, <1>3 DEF Next

(***************************************************************************)
(* The inductive invariant of a run in which one thread at most calls      *)
(* through the SPI.                                                        *)
(***************************************************************************)
SInv == Basic /\ Lone /\ AloneOnSPI /\ Whole /\ Results /\ BytesPresent

LEMMA SInvStep == SInv /\ [Next]_vars => SInv'
<1> SUFFICES ASSUME SInv, [Next]_vars PROVE SInv'
  OBVIOUS
<1> USE DEF SInv
<1>1. Basic' /\ Lone'
  BY BasicStep, LoneStep
<1>2. AloneOnSPI'
  BY DEF AloneOnSPI, Next, vars, GetDataByHost, SeDataByHost, Submit, Answer,
     Take, Poll, GiveUp
<1>3. Whole' /\ Results'
  BY WholeStep, ResultsStep
<1>4. BytesPresent'
  <2>1. ASSUME NEW c \in Caller, Take(c) PROVE ~failed'
    BY <2>1, TakeComplete
  <2>2. CASE failed' = failed
    BY <2>2 DEF BytesPresent
  <2>3. QED
    BY <2>1, <2>2 DEF BytesPresent, Next, vars, GetDataByHost, SeDataByHost,
       Submit, Answer, Poll, GiveUp
<1>5. QED BY <1>1, <1>2, <1>3, <1>4

LEMMA SInvInvariance == ASSUME OneThroughSPI PROVE Spec => []SInv
<1>1. Init => SInv
  BY BasicInit, LoneInit, SoundInit DEF SInv
<1>2. QED BY <1>1, SInvStep, PTL DEF Spec

(***************************************************************************)
(* A read returns an answer to a read of its place, whole, and through the *)
(* SPI its own: neither a write's response nor an earlier answer.          *)
(***************************************************************************)
THEOREM ReadsGetAnswers == ASSUME OneThroughSPI PROVE Spec => []AnswersTheCall
<1>1. SInv => AnswersTheCall
  BY DEF SInv, Results, AnswersTheCall, None
<1>2. QED BY <1>1, SInvInvariance, PTL

(***************************************************************************)
(* The assertion of GetDataByHost holds: no byte of an answer is missing.  *)
(***************************************************************************)
THEOREM NoByteMissing == ASSUME OneThroughSPI PROVE Spec => []BytesPresent
<1>1. SInv => BytesPresent
  BY DEF SInv
<1>2. QED BY <1>1, SInvInvariance, PTL
=============================================================================

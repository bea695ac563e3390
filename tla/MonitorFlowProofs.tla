-------------------------- MODULE MonitorFlowProofs --------------------------
(***************************************************************************)
(* The monitor ends no test too early, whatever the number of cores and    *)
(* hosts, the programs, and the time the chip takes: proofs about          *)
(* MonitorFlow.                                                            *)
(*                                                                         *)
(* The monitor waits for two things and sees neither: the last write of a  *)
(* core, before it starts the sign-off, and the last answer of the chip,   *)
(* before it stops the test.  The invariant says what carries each on its  *)
(* way, and that it cannot be overtaken by what the monitor looks at.      *)
(***************************************************************************)
EXTENDS MonitorFlow, SequenceTheorems, TLAPS

-----------------------------------------------------------------------------
(***************************************************************************)
(* The invariant.                                                          *)
(***************************************************************************)
Reads == [kind : {"memRead", "regRead"}, no : Nat, good : BOOLEAN]
CoreWrites == [kind : {"core"}, no : Nat, nth : Nat]

\* The stages of CheckCoreStatus: up to the end of the cores, and after the
\* sign-off has started.
Early == {"load", "halt", "halting", "resuming", "wait", "timers", "ilat", "dmaStatus",
          "status", "decide", "finilize", "opcode", "resume"}
Signing == {"drain", "config", "writeRegs", "readRegs", "regsBack", "last", "stop"}

FlowTypes ==
  /\ test \in Tests
  /\ stimulusArray \in [Hosts -> Seq(Entry)] /\ signoffArray \in [Hosts -> Seq(Entry)]
  /\ sEntry \in [Hosts -> Entry \cup {NoEntry}]
  /\ answers \in [Hosts -> Seq(Reads \cup CoreWrites)]
  /\ hostMem \subseteq Hosts \X Reads
  /\ DOMAIN running = Core /\ halted \in [Core -> BOOLEAN] /\ DOMAIN irq = Core
  /\ DOMAIN engines = Core /\ left \in [Core -> Nat]
  /\ ncore \in Core
  /\ pc \in Early \cup Signing \cup {"look", "lookAgain", "signOff", "stopped"}
  /\ stopped \in {"no", "done", "error", "timeout"}

Stages ==
  /\ pc \in Signing => signOffStarted
  /\ signOffStarted => pc \in Signing \cup {"stopped"}
  /\ pc = "stopped" => stopped # "no"
  /\ stopped = "done" => pc = "stopped"
  /\ pc \in {"writeRegs", "readRegs"} => ncore = 0
  /\ pc \in {"lookAgain", "signOff", "stop"} => NothingPending

\* The sign-off array holds reads of what was written.
SignOffReads == \A h \in Hosts : \A i \in 1..Len(signoffArray[h]) :
                  signoffArray[h][i].kind = "memRead"

\* No write of a core is on its way twice.
WritesOnce == \A h \in Hosts : \A i \in 1..Len(answers[h]) :
  answers[h][i].kind = "core" =>
    /\ answers[h][i].no \in Core /\ left[answers[h][i].no] < answers[h][i].nth
    /\ \A j \in 1..Len(answers[h]) : answers[h][j] = answers[h][i] => i = j

\* At the second look, what may still be under way was at the first.
Watched ==
  test.prompt /\ pc = "lookAgain" =>
    /\ \A h \in Hosts : sEntry[h] # NoEntry => <<"entry", h>> \in old
    /\ \A h \in Hosts : \A i \in 1..Len(answers[h]) :
         answers[h][i].kind = "core" => <<"answer", h, answers[h][i]>> \in old
    /\ \A c \in Core : Busy(c) /\ ~halted[c] => <<"core", c>> \in old

\* From the sign-off on no core runs, none is started, and none has written.
Settled ==
  test.prompt /\ pc \in Signing \cup {"signOff"} =>
    /\ \A h \in Hosts : \A i \in 1..Len(answers[h]) : answers[h][i].kind # "core"
    /\ \A c \in Core : Busy(c) => halted[c]
    /\ \A h \in Hosts : sEntry[h].kind # "ilat"
    /\ \A h \in Hosts : \A i \in 1..Len(stimulusArray[h]) : stimulusArray[h][i].kind # "ilat"

\* The read-back of a write to the memory of the chip.
IsReadBack(a, no) == a.kind = "memRead" /\ a.no = no
WaitsAt(h, no) ==
  \/ \E i \in 1..Len(stimulusArray[h]) : IsReadBack(stimulusArray[h][i], no)
  \/ IsReadBack(sEntry[h], no)
  \/ \E i \in 1..Len(answers[h]) : IsReadBack(answers[h][i], no)
IsBack(h, no) == \E r \in hostMem : r[1] = h /\ IsReadBack(r[2], no)

MemWrites(h) == {e \in ToSet(test.files[h]) : e.kind = "mem"}

\* A write is still to be driven or its read-back is kept; then the read-back
\* is on its way, or back.
WritesKept ==
  /\ ~signOffStarted => \A h \in Hosts : \A e \in MemWrites(h) :
       \/ \E i \in 1..Len(stimulusArray[h]) : stimulusArray[h][i] = e
       \/ \E i \in 1..Len(signoffArray[h]) : IsReadBack(signoffArray[h][i], e.no)
  /\ signOffStarted /\ stopped # "error" => \A h \in Hosts : \A e \in MemWrites(h) :
       WaitsAt(h, e.no) \/ IsBack(h, e.no)

\* Whether the read-backs of h may still be overtaken by nothing: those under
\* way are all ahead of the reads of registers.
RegBack(h) == \E r \in hostMem : r[1] = h /\ r[2].kind = "regRead"
Queued(h, kind) == \E i \in 1..Len(stimulusArray[h]) : stimulusArray[h][i].kind = kind
Coming(h, kind) == \E i \in 1..Len(answers[h]) : answers[h][i].kind = kind

OrderAt(h) ==
  /\ pc \notin {"regsBack", "last", "stop", "stopped"} =>
       /\ ~Queued(h, "regRead") /\ sEntry[h].kind # "regRead"
       /\ ~Coming(h, "regRead") /\ ~RegBack(h)
  /\ \A i, j \in 1..Len(stimulusArray[h]) :
       stimulusArray[h][i].kind = "regRead" /\ stimulusArray[h][j].kind = "memRead" => j < i
  /\ sEntry[h].kind = "regRead" => ~Queued(h, "memRead")
  /\ Coming(h, "regRead") => sEntry[h].kind # "memRead" /\ ~Queued(h, "memRead")
  /\ \A i, j \in 1..Len(answers[h]) :
       answers[h][i].kind = "regRead" /\ answers[h][j].kind = "memRead" => j < i
  /\ ~test.prompt /\ RegBack(h) =>
       sEntry[h].kind # "memRead" /\ ~Queued(h, "memRead") /\ ~Coming(h, "memRead")
InOrder == \A h \in Hosts : OrderAt(h)

\* The registers seen so far are right.
RegistersRight ==
  /\ pc = "regsBack" =>
       \A h \in Hosts : \A c \in Core : c < ncore => \E r \in Back(h, c) : r[2].good
  /\ pc \in {"last", "stop"} =>
       \A h \in Hosts : \A c \in Core : \E r \in Back(h, c) : r[2].good

\* In the last wait, what may still be under way was when it began.
LastWait ==
  test.prompt /\ pc = "stop" => \A h \in Hosts :
    /\ sEntry[h] # NoEntry => <<"entry", h>> \in old
    /\ \A i \in 1..Len(answers[h]) : answers[h][i].kind = "memRead" =>
         <<"answer", h, answers[h][i]>> \in old \/ <<h, answers[h][i]>> \in hostMem

FlowInv ==
  /\ FlowTypes /\ Stages /\ SignOffReads /\ WritesOnce /\ Watched /\ Settled
  /\ WritesKept /\ InOrder /\ RegistersRight /\ LastWait
  /\ LoggedTraffic /\ DumpComplete

-----------------------------------------------------------------------------
(***************************************************************************)
(* Sequences: what a step leaves of a queue.                               *)
(***************************************************************************)
LEMMA Items ==
  ASSUME NEW S, NEW q \in Seq(S)
  PROVE  /\ Len(q) \in Nat /\ DOMAIN q = 1..Len(q)
         /\ \A i \in 1..Len(q) : q[i] \in S
         /\ \A x \in ToSet(q) : \E i \in 1..Len(q) : x = q[i]
         /\ \A i \in 1..Len(q) : q[i] \in ToSet(q)
         /\ Len(q) = 0 <=> q = <<>>
<1>1. Len(q) \in Nat /\ DOMAIN q = 1..Len(q) /\ \A i \in 1..Len(q) : q[i] \in S
  BY LenProperties, ElementOfSeq
<1>2. Len(q) = 0 <=> q = <<>>
  BY EmptySeq
<1> QED BY <1>1, <1>2 DEF ToSet

\* A queue that loses its head.
LEMMA Popped ==
  ASSUME NEW S, NEW q \in Seq(S), q # <<>>
  PROVE  /\ Head(q) = q[1] /\ q[1] \in S /\ 1 \in 1..Len(q)
         /\ Tail(q) \in Seq(S) /\ Len(Tail(q)) = Len(q) - 1
         /\ \A i \in 1..Len(Tail(q)) : i + 1 \in 1..Len(q) /\ Tail(q)[i] = q[i + 1]
         /\ \A i \in 1..Len(q) : i = 1 \/ (i - 1 \in 1..Len(Tail(q)) /\ q[i] = Tail(q)[i - 1])
<1>1. Len(q) \in Nat /\ Len(q) # 0 /\ \A i \in 1..Len(q) : q[i] \in S
  BY Items
<1>2. /\ Tail(q) \in Seq(S) /\ Len(Tail(q)) = Len(q) - 1
      /\ \A i \in 1..Len(Tail(q)) : Tail(q)[i] = q[i + 1]
  BY HeadTailProperties
<1>3. Head(q) = q[1] /\ 1 \in 1..Len(q)
  BY <1>1
<1>4. \A i \in 1..Len(Tail(q)) : i + 1 \in 1..Len(q)
  BY <1>1, <1>2
<1>5. ASSUME NEW i \in 1..Len(q), i # 1
      PROVE  i - 1 \in 1..Len(Tail(q)) /\ q[i] = Tail(q)[i - 1]
  <2>1. i - 1 \in 1..Len(Tail(q)) /\ (i - 1) + 1 = i BY <1>1, <1>2, <1>5
  <2> QED BY <1>2, <2>1
<1> QED BY <1>1, <1>2, <1>3, <1>4, <1>5

\* A queue that gets an element.
LEMMA Appended ==
  ASSUME NEW S, NEW q \in Seq(S), NEW x \in S
  PROVE  /\ Append(q, x) \in Seq(S) /\ Len(Append(q, x)) = Len(q) + 1
         /\ \A i \in 1..Len(q) : i \in 1..(Len(q) + 1) /\ Append(q, x)[i] = q[i]
         /\ Len(q) + 1 \in 1..(Len(q) + 1) /\ Append(q, x)[Len(q) + 1] = x
         /\ \A i \in 1..(Len(q) + 1) : i \in 1..Len(q) \/ i = Len(q) + 1
<1>1. Len(q) \in Nat
  BY Items
<1> QED BY <1>1, AppendProperties

\* A queue that gets several.
LEMMA Joined ==
  ASSUME NEW S, NEW q \in Seq(S), NEW r \in Seq(S)
  PROVE  /\ q \o r \in Seq(S) /\ Len(q \o r) = Len(q) + Len(r)
         /\ \A i \in 1..Len(q) : i \in 1..Len(q \o r) /\ (q \o r)[i] = q[i]
         /\ \A i \in 1..Len(r) :
              Len(q) + i \in 1..Len(q \o r) /\ (q \o r)[Len(q) + i] = r[i]
         /\ \A i \in 1..Len(q \o r) : i \in 1..Len(q) \/
              (i - Len(q) \in 1..Len(r) /\ (q \o r)[i] = r[i - Len(q)])
<1>1. Len(q) \in Nat /\ Len(r) \in Nat
  BY Items
<1>2. /\ q \o r \in Seq(S) /\ Len(q \o r) = Len(q) + Len(r)
      /\ \A i \in 1..(Len(q) + Len(r)) :
           (q \o r)[i] = IF i <= Len(q) THEN q[i] ELSE r[i - Len(q)]
  BY ConcatProperties
<1>3. ASSUME NEW i \in 1..Len(r)
      PROVE  Len(q) + i \in 1..(Len(q) + Len(r)) /\ (q \o r)[Len(q) + i] = r[i]
  <2>1. /\ Len(q) + i \in 1..(Len(q) + Len(r)) /\ ~(Len(q) + i <= Len(q))
        /\ (Len(q) + i) - Len(q) = i
    BY <1>1
  <2> QED BY <1>2, <2>1
<1>4. ASSUME NEW i \in 1..(Len(q) + Len(r)), i \notin 1..Len(q)
      PROVE  i - Len(q) \in 1..Len(r) /\ (q \o r)[i] = r[i - Len(q)]
  BY <1>1, <1>2, <1>4
<1>5. \A i \in 1..Len(q) : i \in 1..(Len(q) + Len(r)) /\ (q \o r)[i] = q[i]
  BY <1>1, <1>2
<1> QED BY <1>2, <1>3, <1>4, <1>5

\* A queue that loses its element i.
Without(q, i, r) ==
  /\ \A j \in 1..Len(r) : LET k == IF j < i THEN j ELSE j + 1 IN
       k \in 1..Len(q) /\ k # i /\ r[j] = q[k]
  /\ \A k \in 1..Len(q) : k # i => \E j \in 1..Len(r) : r[j] = q[k]

LEMMA Removed ==
  ASSUME NEW S, NEW q \in Seq(S), NEW i \in 1..Len(q)
  PROVE  RemoveAt(q, i) \in Seq(S) /\ Without(q, i, RemoveAt(q, i))
<1> DEFINE a == SubSeq(q, 1, i - 1)
           b == SubSeq(q, i + 1, Len(q))
<1>1. Len(q) \in Nat /\ i \in Int /\ \A j \in 1..Len(q) : q[j] \in S
  BY Items
<1>2. /\ a \in Seq(S) /\ Len(a) = i - 1
      /\ \A j \in 1..(i - 1) : a[j] = q[j]
  <2>1. \A j \in 1..(i - 1) : q[j] \in S BY <1>1
  <2>2. /\ a \in Seq(S)
        /\ Len(a) = IF 1 <= i - 1 THEN (i - 1) - 1 + 1 ELSE 0
        /\ \A j \in 1..((i - 1) - 1 + 1) : a[j] = q[1 + j - 1]
    BY <1>1, <2>1, SubSeqProperties
  <2> QED BY <1>1, <2>2
<1>3. /\ b \in Seq(S) /\ Len(b) = Len(q) - i
      /\ \A j \in 1..(Len(q) - i) : b[j] = q[i + j]
  <2>1. \A j \in (i + 1)..Len(q) : q[j] \in S BY <1>1
  <2>2. /\ b \in Seq(S)
        /\ Len(b) = IF i + 1 <= Len(q) THEN Len(q) - (i + 1) + 1 ELSE 0
        /\ \A j \in 1..(Len(q) - (i + 1) + 1) : b[j] = q[(i + 1) + j - 1]
    BY <1>1, <2>1, SubSeqProperties
  <2> QED BY <1>1, <2>2
<1> DEFINE r == a \o b
<1>4. RemoveAt(q, i) = r
  BY DEF RemoveAt
<1>5. /\ r \in Seq(S) /\ Len(r) = Len(q) - 1
      /\ \A j \in 1..Len(a) : r[j] = a[j]
      /\ \A j \in 1..Len(b) : r[Len(a) + j] = b[j]
  <2> HIDE DEF a, b
  <2>1. Len(a) + Len(b) = Len(q) - 1
    BY <1>1, <1>2, <1>3
  <2>2. /\ r \in Seq(S) /\ Len(r) = Len(a) + Len(b)
        /\ \A j \in 1..Len(a) : r[j] = a[j]
        /\ \A j \in 1..Len(b) : r[Len(a) + j] = b[j]
    <3>1. a \in Seq(S) /\ b \in Seq(S) BY <1>2, <1>3
    <3> QED BY ONLY <3>1, Joined
  <2> QED BY <2>1, <2>2
<1> HIDE DEF r, a, b
<1>6. ASSUME NEW j \in 1..Len(r)
      PROVE  LET k == IF j < i THEN j ELSE j + 1 IN
             k \in 1..Len(q) /\ k # i /\ r[j] = q[k]
  <2>1. CASE j < i
    BY <1>1, <1>2, <1>5, <2>1
  <2>2. CASE ~(j < i)
    <3>1. /\ j - (i - 1) \in 1..Len(b) /\ i + (j - (i - 1)) = j + 1
          /\ Len(a) + (j - (i - 1)) = j /\ j + 1 \in 1..Len(q) /\ j + 1 # i
      BY <1>1, <1>2, <1>3, <1>5, <2>2
    <3>2. b[j - (i - 1)] = q[j + 1] /\ r[j] = b[j - (i - 1)]
      BY <1>3, <1>5, <3>1
    <3> QED BY <2>2, <3>1, <3>2
  <2> QED BY <2>1, <2>2
<1>7. ASSUME NEW k \in 1..Len(q), k # i
      PROVE  \E j \in 1..Len(r) : r[j] = q[k]
  <2>1. CASE k < i
    <3>1. k \in 1..Len(a) /\ k \in 1..Len(r) BY <1>1, <1>2, <1>5, <2>1
    <3> QED BY <1>2, <1>5, <3>1
  <2>2. CASE k > i
    <3>1. /\ k - i \in 1..Len(b) /\ Len(a) + (k - i) = k - 1 /\ i + (k - i) = k
          /\ k - 1 \in 1..Len(r)
      BY <1>1, <1>2, <1>3, <1>5, <2>2
    <3>2. b[k - i] = q[k] /\ r[k - 1] = b[k - i]
      BY <1>3, <1>5, <3>1
    <3> QED BY <3>1, <3>2
  <2> QED BY <1>1, <1>7, <2>1, <2>2
<1>8. Without(q, i, r)
  BY <1>6, <1>7 DEF Without
<1> QED BY <1>4, <1>5, <1>8

-----------------------------------------------------------------------------
(***************************************************************************)
(* The data of the model.                                                  *)
(***************************************************************************)

\* The things that may be under way are told apart.
LEMMA Things ==
  /\ \A g, h, a : <<"entry", g>> # <<"answer", h, a>>
  /\ \A c, h, a : <<"core", c>> # <<"answer", h, a>>
  /\ \A c, h : <<"core", c>> # <<"entry", h>>
  /\ \A g, h : <<"entry", g>> = <<"entry", h>> => g = h
  /\ \A c, d : <<"core", c>> = <<"core", d>> => c = d
  /\ \A g, h, a, b : <<"answer", g, a>> = <<"answer", h, b>> => g = h /\ a = b
OBVIOUS

\* What a test is.
LEMMA TestFields ==
  ASSUME test \in Tests
  PROVE  /\ test.NCORES \in Nat \ {0} /\ 0 \in Core /\ Core \subseteq Nat
         /\ test.files \in [Hosts -> Seq(FileEntry)] /\ test.prompt \in BOOLEAN
         /\ test.work \in Nat
<1>1. test \in TestShape
  BY MonitorFlowAssumption
<1>2. /\ test.NCORES \in 1..MaxCores /\ test.files \in [Hosts -> Seq(FileEntry)]
      /\ test.prompt \in BOOLEAN /\ test.work \in Nat
  BY <1>1 DEF TestShape
<1>3. MaxCores \in Nat
  BY MonitorFlowAssumption
<1> QED BY <1>2, <1>3 DEF Core

\* The fields of an entry; only NoEntry is of kind none.
LEMMA EntryFields ==
  /\ \A e \in Entry : e.kind \in Kind /\ e.no \in Nat
  /\ \A e \in Entry \cup {NoEntry} : e # NoEntry => e \in Entry
  /\ \A e \in Entry \cup {NoEntry} : e.kind # "none" => e # NoEntry
  /\ NoEntry.kind = "none"
BY DEF Entry, NoEntry

\* The read of what an entry writes.
LEMMA ReadOf ==
  ASSUME NEW e \in Entry
  PROVE  /\ [e EXCEPT !.kind = "memRead"] \in Entry
         /\ [e EXCEPT !.kind = "memRead"].kind = "memRead"
         /\ [e EXCEPT !.kind = "memRead"].no = e.no
BY DEF Entry, Kind

\* The fields of an answer, a read-back or a write of a core.
LEMMA AnswerFields ==
  ASSUME NEW a \in Reads \cup CoreWrites
  PROVE  /\ a.kind \in {"memRead", "regRead", "core"} /\ a.no \in Nat
         /\ a.kind # "core" => a \in Reads
         /\ a.kind = "core" => a.nth \in Nat
BY DEF Reads, CoreWrites

\* What the files hold.
LEMMA FileEntries ==
  ASSUME test \in Tests
  PROVE  /\ test.files \in [Hosts -> Seq(Entry)]
         /\ \A h \in Hosts : \A i \in 1..Len(test.files[h]) :
              test.files[h][i].kind \in {"mem", "ilat"}
         /\ \A h \in Hosts : \A e \in MemWrites(h) :
              /\ e \in Entry /\ e.kind = "mem"
              /\ \E i \in 1..Len(test.files[h]) : test.files[h][i] = e
<1>1. test.files \in [Hosts -> Seq(FileEntry)]
  BY TestFields
<1>2. FileEntry \subseteq Entry
  BY DEF FileEntry, Entry, Kind
<1>3. \A h \in Hosts : /\ test.files[h] \in Seq(FileEntry)
                       /\ \A i \in 1..Len(test.files[h]) : test.files[h][i] \in FileEntry
  BY <1>1, Items
<1>4. \A e \in FileEntry : e.kind \in {"mem", "ilat"}
  BY DEF FileEntry
<1>5. \A h \in Hosts : test.files[h] \in Seq(Entry)
  BY <1>2, <1>3
<1>6. \A h \in Hosts : \A e \in ToSet(test.files[h]) :
        e \in FileEntry /\ \E i \in 1..Len(test.files[h]) : test.files[h][i] = e
  BY <1>3, Items
<1>7. test.files \in [Hosts -> Seq(Entry)]
  BY <1>1, <1>5
<1> QED BY <1>2, <1>3, <1>4, <1>6, <1>7 DEF MemWrites

(***************************************************************************)
(* The invariant at the beginning.                                         *)
(***************************************************************************)
LEMMA FlowInit == Init => FlowInv
<1> SUFFICES ASSUME Init PROVE FlowInv
  OBVIOUS
<1>1. test \in Tests /\ pc = "load" /\ stopped = "no" /\ signOffStarted = FALSE
  BY DEF Init
<1>2. stimulusArray = test.files /\ sEntry = [h \in Hosts |-> NoEntry]
      /\ signoffArray = [h \in Hosts |-> <<>>] /\ answers = [h \in Hosts |-> <<>>]
      /\ hostMem = {} /\ unlogged = FALSE
  BY DEF Init
<1>3. <<>> \in Seq(Entry) /\ <<>> \in Seq(Reads \cup CoreWrites) /\ Len(<<>>) = 0
  BY EmptySeq
<1>4. \A h \in Hosts : /\ 1..Len(answers[h]) = {} /\ 1..Len(signoffArray[h]) = {}
                       /\ sEntry[h] = NoEntry
  BY <1>2, <1>3
<1>5. FlowTypes
  <2>1. /\ signoffArray \in [Hosts -> Seq(Entry)]
        /\ answers \in [Hosts -> Seq(Reads \cup CoreWrites)]
        /\ sEntry \in [Hosts -> Entry \cup {NoEntry}]
    BY <1>2, <1>3
  <2>2. stimulusArray \in [Hosts -> Seq(Entry)]
    BY <1>1, <1>2, FileEntries
  <2>3. /\ DOMAIN running = Core /\ halted \in [Core -> BOOLEAN] /\ DOMAIN irq = Core
        /\ DOMAIN engines = Core /\ left \in [Core -> Nat] /\ ncore \in Core
    BY <1>1, TestFields DEF Init
  <2> QED BY <1>1, <1>2, <2>1, <2>2, <2>3 DEF FlowTypes, Early
<1>6. Stages
  BY <1>1 DEF Stages, Signing
<1>7. SignOffReads /\ WritesOnce
  BY <1>4 DEF SignOffReads, WritesOnce
<1>8. Watched /\ Settled /\ RegistersRight /\ LastWait /\ LoggedTraffic /\ DumpComplete
  BY <1>1, <1>2 DEF Watched, Settled, RegistersRight, LastWait, LoggedTraffic, DumpComplete,
                    Signing
<1>9. WritesKept
  BY <1>1, <1>2, FileEntries DEF WritesKept
<1>10. InOrder
  <2>1. \A h \in Hosts : \A i \in 1..Len(stimulusArray[h]) :
          stimulusArray[h][i].kind # "regRead"
    BY <1>1, <1>2, FileEntries
  <2> QED BY <1>2, <1>4, <2>1, EntryFields DEF InOrder, OrderAt, Queued, Coming, RegBack
<1> QED BY <1>5, <1>6, <1>7, <1>8, <1>9, <1>10 DEF FlowInv

-----------------------------------------------------------------------------
(***************************************************************************)
(* The steps of CheckCoreStatus before it looks at the hosts: they change  *)
(* what the cores do, and nothing of the ports.                            *)
(***************************************************************************)
EarlyStep ==
  /\ Running /\ pc \in Early
  /\ UNCHANGED <<test, stimulusArray, sEntry, signoffArray, signOffStarted, unlogged,
                 answers, running, engines, left>>
  /\ halted' \in [Core -> BOOLEAN] /\ DOMAIN irq' = Core /\ ncore' \in Core
  /\ \/ pc' \in Early \cup {"look"} /\ stopped' = "no" /\ hostMem' = hostMem
     \/ pc' = "stopped" /\ stopped' = "error" /\ hostMem' \in {hostMem, {}}

\* Where a round over the cores goes on.
LEMMA NextCoreTypes ==
  ASSUME FlowTypes, NextCore, UNCHANGED test
  PROVE  ncore' \in Core /\ pc' \in Early \cup {"look"}
<1>1. test.NCORES \in Nat \ {0} /\ ncore \in Core
  BY TestFields DEF FlowTypes
<1> QED BY <1>1 DEF NextCore, Core, Early

\* The steps of CheckCoreStatus up to the first look are early steps.
LEMMA EarlySteps ==
  ASSUME FlowTypes,
         \/ WaitLoad \/ Suspend \/ ResumeSuspended \/ Resumed
         \/ StartRound \/ SkipDone \/ ReadTimers \/ ReadILAT \/ ReadDMAStatus \/ ReadStatus
         \/ DMAErrorReported \/ Finilize \/ Done
         \/ NotDone \/ ReadOpcode \/ ResumeBreakpoint
  PROVE  EarlyStep
<1>1. ncore \in Core /\ 0 \in Core /\ halted \in [Core -> BOOLEAN] /\ DOMAIN irq = Core
  BY TestFields DEF FlowTypes
<1>2. CASE WaitLoad
  BY <1>1, <1>2 DEF WaitLoad, FlowStep, EarlyStep, Early, Running
<1>3. CASE Suspend
  BY <1>1, <1>3 DEF Suspend, Halt, FlowStep, EarlyStep, Early, Running
<1>4. CASE ResumeSuspended
  BY <1>1, <1>4 DEF ResumeSuspended, Resume, FlowStep, EarlyStep, Early, Running
<1>5. CASE StartRound
  BY <1>1, <1>5 DEF StartRound, FlowStep, EarlyStep, Early, Running
<1>6. CASE SkipDone
  <2>1. ncore' \in Core /\ pc' \in Early \cup {"look"}
    BY <1>6, NextCoreTypes DEF SkipDone, FlowStep
  <2>2. pc \in Early
    BY <1>6 DEF SkipDone, FlowStep, Early
  <2> QED BY <1>1, <1>6, <2>1, <2>2 DEF SkipDone, FlowStep, EarlyStep, Running
<1>7. ASSUME NEW from \in Early, NEW to \in Early, NEW seen, ReadRegister(from, to, seen)
      PROVE  EarlyStep
  BY <1>1, <1>7 DEF ReadRegister, FlowStep, EarlyStep, Running
<1>8. /\ "timers" \in Early /\ "ilat" \in Early /\ "dmaStatus" \in Early
      /\ "status" \in Early /\ "decide" \in Early
  BY DEF Early
<1>9. CASE ReadTimers \/ ReadILAT \/ ReadDMAStatus \/ ReadStatus
  BY <1>7, <1>8, <1>9 DEF ReadTimers, ReadILAT, ReadDMAStatus, ReadStatus
<1>10. CASE DMAErrorReported
  BY <1>1, <1>10 DEF DMAErrorReported, Abort, FlowStep, EarlyStep, Early, Running
<1>11. CASE Finilize
  BY <1>1, <1>11 DEF Finilize, FlowStep, EarlyStep, Early, Running
<1>12. CASE Done
  <2>1. ncore' \in Core /\ pc' \in Early \cup {"look"}
    BY <1>12, NextCoreTypes DEF Done, FlowStep
  <2>2. pc \in Early
    BY <1>12 DEF Done, FlowStep, Early
  <2> QED BY <1>1, <1>12, <2>1, <2>2 DEF Done, FlowStep, EarlyStep, Running
<1>13. CASE NotDone
  <2>1. ncore' \in Core /\ pc' \in Early \cup {"look"}
    BY <1>1, <1>13, NextCoreTypes DEF NotDone, FlowStep, Early
  <2>2. pc \in Early
    BY <1>13 DEF NotDone, FlowStep, Early
  <2> QED BY <1>1, <1>13, <2>1, <2>2 DEF NotDone, FlowStep, EarlyStep, Running
<1>14. CASE Resumed
  BY <1>1, <1>14 DEF Resumed, FlowStep, EarlyStep, Early, Running
<1>15. CASE ReadOpcode
  BY <1>1, <1>15 DEF ReadOpcode, FlowStep, EarlyStep, Early, Running
<1>16. CASE ResumeBreakpoint
  <2>1. ncore' \in Core /\ pc' \in Early \cup {"look"}
    BY <1>16, NextCoreTypes DEF ResumeBreakpoint, FlowStep
  <2>2. pc \in Early
    BY <1>16 DEF ResumeBreakpoint, FlowStep, Early
  <2> QED BY <1>1, <1>16, <2>1, <2>2 DEF ResumeBreakpoint, Resume, FlowStep, EarlyStep, Running
<1> QED BY <1>2, <1>3, <1>4, <1>5, <1>6, <1>9, <1>10, <1>11, <1>12, <1>13, <1>14, <1>15, <1>16

\* An early step keeps the invariant: nothing of it is about these stages but
\* what is kept of the writes.
LEMMA EarlyKeeps ==
  ASSUME FlowInv, EarlyStep
  PROVE  FlowInv'
<1>1. /\ FlowTypes /\ Stages /\ SignOffReads /\ WritesOnce /\ WritesKept /\ InOrder
      /\ LoggedTraffic
  BY DEF FlowInv
<1>2. UNCHANGED <<test, stimulusArray, sEntry, signoffArray, signOffStarted, unlogged,
                  answers, running, engines, left>>
  BY DEF EarlyStep
<1>3. Core' = Core
  BY <1>2 DEF Core
<1>4. /\ pc \in Early /\ pc' \in Early \cup {"look", "stopped"} /\ stopped' # "done"
      /\ hostMem' = hostMem \/ hostMem' = {}
  BY DEF EarlyStep
<1>5. ~signOffStarted
  BY <1>1, <1>4 DEF EarlyStep, Running, Stages, Early, Signing
<1>6. FlowTypes'
  BY <1>1, <1>2, <1>3 DEF FlowTypes, EarlyStep, Early
<1>7. Stages'
  BY <1>2, <1>4, <1>5 DEF Stages, EarlyStep, Early, Signing
<1>8. SignOffReads' /\ LoggedTraffic'
  BY <1>1, <1>2 DEF SignOffReads, LoggedTraffic
<1>9. WritesOnce'
  BY <1>1, <1>2, <1>3 DEF WritesOnce
<1>10. Watched' /\ Settled' /\ RegistersRight' /\ LastWait' /\ DumpComplete'
  BY <1>4 DEF Watched, Settled, RegistersRight, LastWait, DumpComplete, Early, Signing
<1>11. WritesKept'
  BY <1>1, <1>2, <1>5 DEF WritesKept, MemWrites
<1>12. InOrder'
  <2>1. \A h \in Hosts : ~RegBack(h) /\ ~RegBack(h)'
    <3>1. \A h \in Hosts : ~RegBack(h)
      BY <1>1, <1>4 DEF InOrder, OrderAt, Early
    <3> QED BY <1>4, <3>1 DEF RegBack
  <2> QED BY <1>1, <1>2, <1>4, <2>1 DEF InOrder, OrderAt, Queued, Coming, Early
<1> QED BY <1>6, <1>7, <1>8, <1>9, <1>10, <1>11, <1>12 DEF FlowInv

-----------------------------------------------------------------------------
(***************************************************************************)
(* The steps of CheckCoreStatus that only look, or end the test.           *)
(***************************************************************************)
Late == {"regsBack", "last", "stop", "stopped"}
LookStep ==
  /\ Running
  /\ UNCHANGED <<test, stimulusArray, sEntry, signoffArray, signOffStarted, unlogged,
                 hostMem, answers, running, halted, irq, engines, left, ncore>>

\* What any look keeps of the invariant.
LEMMA LookKeeps ==
  ASSUME FlowInv, LookStep,
         pc' \in Early \cup Signing \cup {"look", "lookAgain", "signOff", "stopped"},
         stopped' \in {"no", "done", "timeout"},
         pc \in Late => pc' \in Late
  PROVE  /\ FlowTypes' /\ SignOffReads' /\ WritesOnce' /\ WritesKept' /\ InOrder'
         /\ LoggedTraffic'
<1>1. /\ FlowTypes /\ SignOffReads /\ WritesOnce /\ WritesKept /\ InOrder /\ LoggedTraffic
  BY DEF FlowInv
<1>2. UNCHANGED <<test, stimulusArray, sEntry, signoffArray, signOffStarted, unlogged,
                  hostMem, answers, running, halted, irq, engines, left, ncore>>
  BY DEF LookStep
<1>3. Core' = Core
  BY <1>2 DEF Core
<1>4. FlowTypes'
  BY <1>1, <1>2, <1>3 DEF FlowTypes
<1>5. SignOffReads' /\ LoggedTraffic'
  BY <1>1, <1>2 DEF SignOffReads, LoggedTraffic
<1>6. WritesOnce'
  BY <1>1, <1>2, <1>3 DEF WritesOnce
<1>7. WritesKept'
  <2>1. stopped # "error"
    BY DEF LookStep, Running
  <2> QED BY <1>1, <1>2, <2>1 DEF WritesKept, MemWrites, WaitsAt, IsBack
<1>8. InOrder'
  BY <1>1, <1>2 DEF InOrder, OrderAt, Queued, Coming, RegBack, Late
<1> QED BY <1>4, <1>5, <1>6, <1>7, <1>8

\* A look at the hosts is one.
LEMMA Looks ==
  ASSUME NEW from, NEW done, NEW notDone, Look(from, done, notDone)
  PROVE  /\ LookStep /\ stopped' = stopped /\ pc = from
         /\ pc' \in {done, notDone}
         /\ pc' # notDone => NothingPending /\ NothingPending'
<1>1. LookStep /\ stopped' = stopped /\ pc = from /\ pc' \in {done, notDone}
  BY DEF Look, FlowStep, LookStep
<1>2. pc' # notDone => NothingPending
  BY DEF Look
<1> QED BY <1>1, <1>2 DEF LookStep, NothingPending

\* The first look: what is under way when it is good is what is waited for.
LEMMA FirstLookKeeps ==
  ASSUME FlowInv, FirstLook
  PROVE  FlowInv'
<1>1. FlowTypes /\ Stages
  BY DEF FlowInv
<1>2. /\ LookStep /\ stopped' = stopped /\ pc = "look" /\ pc' \in {"look", "lookAgain"}
      /\ pc' = "lookAgain" => NothingPending'
  <2>1. Look("look", "lookAgain", "look")
    BY DEF FirstLook, AfterFirstLook
  <2> QED BY ONLY <2>1, Looks
<1>3. UNCHANGED <<test, sEntry, answers, running, halted, irq, engines, signOffStarted>>
  BY <1>2 DEF LookStep
<1>4. /\ FlowTypes' /\ SignOffReads' /\ WritesOnce' /\ WritesKept' /\ InOrder'
      /\ LoggedTraffic'
  BY <1>1, <1>2, LookKeeps DEF LookStep, Running, Late
<1>5. Stages'
  BY <1>1, <1>2, <1>3 DEF Stages, LookStep, Running, Signing
<1>6. Watched'
  <2>1. SUFFICES ASSUME test.prompt
                 PROVE  /\ \A h \in Hosts : sEntry[h] # NoEntry => <<"entry", h>> \in old'
                        /\ \A h \in Hosts : \A i \in 1..Len(answers[h]) :
                             <<"answer", h, answers[h][i]>> \in old'
                        /\ \A c \in Core : Busy(c) /\ ~halted[c] => <<"core", c>> \in old'
    BY <1>3 DEF Watched, Busy, Core
  <2>2. old' = UnderWay \cup BusyCores
    BY <2>1 DEF FirstLook, StartWait
  <2>3. \A h \in Hosts : \A i \in 1..Len(answers[h]) : answers[h][i] \in ToSet(answers[h])
    BY <1>1, Items DEF FlowTypes
  <2> QED BY <2>2, <2>3 DEF UnderWay, BusyCores
<1>7. Settled' /\ RegistersRight' /\ LastWait' /\ DumpComplete'
  BY <1>2 DEF Settled, RegistersRight, LastWait, DumpComplete, LookStep, Running, Signing
<1> QED BY <1>4, <1>5, <1>6, <1>7 DEF FlowInv

\* The second look: it is all over.
LEMMA SecondLookKeeps ==
  ASSUME FlowInv, SecondLook
  PROVE  FlowInv'
<1>1. FlowTypes /\ Stages /\ Watched
  BY DEF FlowInv
<1>2. /\ LookStep /\ stopped' = stopped /\ pc = "lookAgain" /\ pc' \in {"look", "signOff"}
      /\ pc' = "signOff" => NothingPending /\ NothingPending'
  <2>1. Look("lookAgain", "signOff", "look")
    BY DEF SecondLook
  <2> QED BY ONLY <2>1, Looks
<1>3. /\ UNCHANGED <<test, stimulusArray, sEntry, answers, running, halted, irq, engines,
                     signOffStarted>>
      /\ Core' = Core
  BY <1>2 DEF LookStep, Core
<1>4. /\ FlowTypes' /\ SignOffReads' /\ WritesOnce' /\ WritesKept' /\ InOrder'
      /\ LoggedTraffic'
  BY <1>1, <1>2, LookKeeps DEF LookStep, Running, Late
<1>5. Stages'
  BY <1>1, <1>2, <1>3 DEF Stages, LookStep, Running, Signing
<1>6. Settled'
  <2>1. SUFFICES ASSUME test.prompt, NothingPending
                 PROVE  /\ \A h \in Hosts : \A i \in 1..Len(answers[h]) :
                             answers[h][i].kind # "core"
                        /\ \A c \in Core : Busy(c) => halted[c]
                        /\ \A h \in Hosts : sEntry[h].kind # "ilat"
                        /\ \A h \in Hosts : 1..Len(stimulusArray[h]) = {}
    BY <1>2, <1>3 DEF Settled, Busy, Signing
  <2>2. old = {}
    BY DEF SecondLook, LongWait
  <2>3. /\ \A h \in Hosts : \A i \in 1..Len(answers[h]) : answers[h][i].kind # "core"
        /\ \A c \in Core : Busy(c) => halted[c]
        /\ \A h \in Hosts : sEntry[h] = NoEntry
    BY <1>1, <1>2, <2>1, <2>2 DEF Watched
  <2>4. \A h \in Hosts : stimulusArray[h] = <<>>
    BY <2>1 DEF NothingPending
  <2> QED BY <2>3, <2>4, EntryFields
<1>7. Watched' /\ RegistersRight' /\ LastWait' /\ DumpComplete'
  BY <1>2 DEF Watched, RegistersRight, LastWait, DumpComplete, LookStep, Running
<1> QED BY <1>4, <1>5, <1>6, <1>7 DEF FlowInv

\* The end of the sign-off reads.
LEMMA WaitSignOffKeeps ==
  ASSUME FlowInv, WaitSignOff
  PROVE  FlowInv'
<1>1. FlowTypes /\ Stages /\ Settled
  BY DEF FlowInv
<1>2. LookStep /\ stopped' = stopped /\ pc = "drain" /\ pc' \in {"drain", "config"}
  <2>1. Look("drain", "config", "drain")
    BY DEF WaitSignOff
  <2> QED BY ONLY <2>1, Looks
<1>3. /\ UNCHANGED <<test, stimulusArray, sEntry, answers, running, halted, irq, engines,
                     signOffStarted>>
      /\ Core' = Core
  BY <1>2 DEF LookStep, Core
<1>4. /\ FlowTypes' /\ SignOffReads' /\ WritesOnce' /\ WritesKept' /\ InOrder'
      /\ LoggedTraffic'
  BY <1>1, <1>2, LookKeeps DEF LookStep, Running, Late, Signing
<1>5. Stages'
  BY <1>1, <1>2, <1>3 DEF Stages, LookStep, Running, Signing
<1>6. Settled'
  BY <1>1, <1>2, <1>3 DEF Settled, Busy, Signing
<1>7. Watched' /\ RegistersRight' /\ LastWait' /\ DumpComplete'
  BY <1>2 DEF Watched, RegistersRight, LastWait, DumpComplete, LookStep, Running
<1> QED BY <1>4, <1>5, <1>6, <1>7 DEF FlowInv

\* The last look: what is under way then is what is waited for.
LEMMA LastLookKeeps ==
  ASSUME FlowInv, LastLook
  PROVE  FlowInv'
<1>1. FlowTypes /\ Stages /\ Settled /\ RegistersRight
  BY DEF FlowInv
<1>2. /\ LookStep /\ stopped' = stopped /\ pc = "last" /\ pc' \in {"last", "stop"}
      /\ pc' = "stop" => NothingPending'
  <2>1. Look("last", "stop", "last")
    BY DEF LastLook
  <2> QED BY ONLY <2>1, Looks
<1>3. /\ UNCHANGED <<test, stimulusArray, sEntry, answers, running, halted, irq, engines,
                     signOffStarted, hostMem, ncore>>
      /\ Core' = Core
  BY <1>2 DEF LookStep, Core
<1>4. /\ FlowTypes' /\ SignOffReads' /\ WritesOnce' /\ WritesKept' /\ InOrder'
      /\ LoggedTraffic'
  BY <1>1, <1>2, LookKeeps DEF LookStep, Running, Late, Signing
<1>5. Stages'
  BY <1>1, <1>2, <1>3 DEF Stages, LookStep, Running, Signing
<1>6. Settled'
  BY <1>1, <1>2, <1>3 DEF Settled, Busy, Signing
<1>7. RegistersRight'
  BY <1>1, <1>2, <1>3 DEF RegistersRight, Back
<1>8. LastWait'
  <2>1. SUFFICES ASSUME test.prompt
                 PROVE  /\ \A h \in Hosts : sEntry[h] # NoEntry => <<"entry", h>> \in old'
                        /\ \A h \in Hosts : \A i \in 1..Len(answers[h]) :
                             <<"answer", h, answers[h][i]>> \in old'
    BY <1>3 DEF LastWait
  <2>2. old' = UnderWay
    BY <2>1 DEF LastLook, StartWait
  <2>3. \A h \in Hosts : \A i \in 1..Len(answers[h]) : answers[h][i] \in ToSet(answers[h])
    BY <1>1, Items DEF FlowTypes
  <2> QED BY <2>2, <2>3 DEF UnderWay
<1>9. Watched' /\ DumpComplete'
  BY <1>2 DEF Watched, DumpComplete, LookStep, Running
<1> QED BY <1>4, <1>5, <1>6, <1>7, <1>8, <1>9 DEF FlowInv

\* The host memory is complete when the last wait is over: in a prompt chip
\* for what was under way has come, in a slow one for a register that was
\* read after the rest has.
LEMMA AllBack ==
  ASSUME FlowInv, pc = "stop", old = {}, Running
  PROVE  \A h \in Hosts : /\ \A e \in MemWrites(h) : IsBack(h, e.no)
                          /\ \A c \in Core : \E r \in Back(h, c) : r[2].good
<1>1. /\ FlowTypes /\ Stages /\ WritesKept /\ InOrder /\ RegistersRight /\ LastWait
  BY DEF FlowInv
<1>2. SUFFICES ASSUME NEW h \in Hosts, NEW e \in MemWrites(h), ~IsBack(h, e.no)
               PROVE  FALSE
  BY <1>1 DEF RegistersRight
<1>3. WaitsAt(h, e.no)
  BY <1>1, <1>2 DEF Stages, Signing, WritesKept, Running
<1>4. stimulusArray[h] = <<>> /\ 1..Len(stimulusArray[h]) = {}
  BY <1>1 DEF Stages, NothingPending
<1>5. \/ sEntry[h].kind = "memRead"
      \/ \E i \in 1..Len(answers[h]) : IsReadBack(answers[h][i], e.no)
  BY <1>3, <1>4 DEF WaitsAt, IsReadBack
<1>6. CASE test.prompt
  <2>1. sEntry[h] = NoEntry
    BY <1>1, <1>6 DEF LastWait
  <2>2. PICK i \in 1..Len(answers[h]) : IsReadBack(answers[h][i], e.no)
    BY <1>5, <2>1, EntryFields
  <2>3. <<h, answers[h][i]>> \in hostMem
    BY <1>1, <1>6, <2>2 DEF LastWait, IsReadBack
  <2> QED BY <1>2, <2>2, <2>3 DEF IsBack
<1>7. CASE ~test.prompt
  <2>1. \E r \in Back(h, 0) : r[2].good
    BY <1>1, TestFields DEF RegistersRight, FlowTypes
  <2>2. RegBack(h)
    BY <2>1 DEF RegBack, Back
  <2>3. sEntry[h].kind # "memRead" /\ ~Coming(h, "memRead")
    BY <1>1, <1>7, <2>2 DEF InOrder, OrderAt
  <2> QED BY <1>5, <2>3 DEF Coming, IsReadBack
<1> QED BY <1>6, <1>7

\* The end of the test.
LEMMA StopTestKeeps ==
  ASSUME FlowInv, StopTest
  PROVE  FlowInv'
<1>1. FlowTypes /\ Stages
  BY DEF FlowInv
<1>2. /\ LookStep /\ pc = "stop" /\ old = {} /\ Running
      /\ pc' = "stopped" /\ stopped' = "done"
  BY DEF StopTest, FlowStep, LongWait, LookStep
<1>3. UNCHANGED <<test, hostMem, signOffStarted>> /\ Core' = Core
  BY <1>2 DEF LookStep, Core
<1>4. /\ FlowTypes' /\ SignOffReads' /\ WritesOnce' /\ WritesKept' /\ InOrder'
      /\ LoggedTraffic'
  BY <1>1, <1>2, LookKeeps DEF Late
<1>5. Stages'
  BY <1>1, <1>2, <1>3 DEF Stages, Signing
<1>6. DumpComplete'
  BY <1>2, <1>3, AllBack DEF DumpComplete, MemWrites, IsBack, IsReadBack, Back
<1>7. Watched' /\ Settled' /\ RegistersRight' /\ LastWait'
  BY <1>2 DEF Watched, Settled, RegistersRight, LastWait, Signing
<1> QED BY <1>4, <1>5, <1>6, <1>7 DEF FlowInv

\* The time is out.
LEMMA TimeoutKeeps ==
  ASSUME FlowInv, Timeout
  PROVE  FlowInv'
<1>1. /\ FlowTypes /\ Stages /\ Watched /\ Settled /\ RegistersRight /\ LastWait
  BY DEF FlowInv
<1>2. /\ LookStep /\ Running /\ pc' = pc /\ old' = old /\ stopped' = "timeout"
  BY DEF Timeout, LookStep, portVars, recordVars, chipVars, coreVars, flowVars
<1>3. /\ UNCHANGED <<test, stimulusArray, sEntry, answers, running, halted, irq, engines,
                     signOffStarted, hostMem, ncore>>
      /\ Core' = Core
  BY <1>2 DEF LookStep, Core
<1>4. pc \in Early \cup Signing \cup {"look", "lookAgain", "signOff", "stopped"}
  BY <1>1 DEF FlowTypes
<1>5. /\ FlowTypes' /\ SignOffReads' /\ WritesOnce' /\ WritesKept' /\ InOrder'
      /\ LoggedTraffic'
  BY <1>2, <1>4, LookKeeps
<1>6. Stages'
  BY <1>1, <1>2, <1>3 DEF Stages, NothingPending, Running
<1>7. Watched' /\ Settled'
  BY <1>1, <1>2, <1>3 DEF Watched, Settled, Busy
<1>8. RegistersRight'
  <2>1. \A h \in Hosts : \A c \in Core : Back(h, c)' = Back(h, c)
    BY <1>3 DEF Back
  <2> QED BY <1>1, <1>2, <1>3, <2>1 DEF RegistersRight
<1>9. LastWait'
  BY <1>1, <1>2, <1>3 DEF LastWait
<1>10. DumpComplete'
  BY <1>2 DEF DumpComplete
<1> QED BY <1>5, <1>6, <1>7, <1>8, <1>9, <1>10 DEF FlowInv

-----------------------------------------------------------------------------
(***************************************************************************)
(* The steps of CheckCoreStatus that add entries to the queues.            *)
(***************************************************************************)
DriveStep(more) ==
  /\ Running /\ pc \in {"signOff", "config", "writeRegs", "readRegs"}
  /\ UNCHANGED <<test, sEntry, signoffArray, unlogged, hostMem, answers, running,
                 halted, irq, engines, left, old, stopped>>
  /\ ncore' \in Core
  /\ stimulusArray' = [h \in Hosts |-> stimulusArray[h] \o more[h]]
  /\ pc' \in {"drain", "config", "writeRegs", "readRegs", "regsBack"}
  /\ signOffStarted'

\* What they add: no ILAT writes, and the reads of registers at the end and
\* with nothing that goes before them.
Added(more) ==
  /\ more \in [Hosts -> Seq(Entry)]
  /\ \A h \in Hosts : \A i \in 1..Len(more[h]) :
       more[h][i].kind # "ilat" /\ (more[h][i].kind = "regRead" => pc' = "regsBack")
  /\ \A h \in Hosts : \A i \in 1..Len(more[h]) :
       more[h][i].kind = "memRead" => pc = "signOff" /\ pc' = "drain"

\* r holds what q holds, and then what m holds.
Joins(q, m, r) ==
  /\ \A i \in 1..Len(q) : i \in 1..Len(r) /\ r[i] = q[i]
  /\ \A i \in 1..Len(m) : Len(q) + i \in 1..Len(r) /\ r[Len(q) + i] = m[i]
  /\ \A i \in 1..Len(r) : i \in 1..Len(q) \/
       (i - Len(q) \in 1..Len(m) /\ r[i] = m[i - Len(q)])

\* The queue of a host after a step that adds to it.
LEMMA DriveQueues ==
  ASSUME NEW more, FlowInv, DriveStep(more), Added(more), NEW h \in Hosts
  PROVE  /\ stimulusArray'[h] \in Seq(Entry)
         /\ Joins(stimulusArray[h], more[h], stimulusArray'[h])
<1> DEFINE q == stimulusArray[h]
           m == more[h]
           r == stimulusArray'[h]
<1>1. q \in Seq(Entry) /\ m \in Seq(Entry) /\ r = q \o m
  BY DEF FlowInv, FlowTypes, Added, DriveStep
<1> HIDE DEF q, m, r
<1>2. r \in Seq(Entry) /\ Joins(q, m, r)
  BY ONLY <1>1, Joined DEF Joins
<1> QED BY <1>2 DEF q, m, r

\* What any step that adds to the queues keeps of the invariant.
LEMMA DriveKeeps ==
  ASSUME NEW more, FlowInv, DriveStep(more), Added(more)
  PROVE  /\ FlowTypes' /\ SignOffReads' /\ WritesOnce' /\ LoggedTraffic'
         /\ Watched' /\ Settled' /\ LastWait' /\ DumpComplete'
<1>1. /\ FlowTypes /\ SignOffReads /\ WritesOnce /\ Settled /\ LoggedTraffic
  BY DEF FlowInv
<1>2. UNCHANGED <<test, sEntry, signoffArray, unlogged, hostMem, answers, running,
                  halted, irq, engines, left, old, stopped>>
  BY DEF DriveStep
<1>3. /\ Core' = Core /\ pc \in Signing \cup {"signOff"} /\ pc' \in Signing
      /\ pc' # "lookAgain" /\ pc' # "stop" /\ stopped' = "no"
  BY <1>2 DEF Core, DriveStep, Signing, Running
<1>4. FlowTypes'
  <2>1. stimulusArray' \in [Hosts -> Seq(Entry)]
    BY DriveQueues DEF DriveStep
  <2> QED BY <1>1, <1>2, <1>3, <2>1 DEF FlowTypes, DriveStep
<1>5. SignOffReads' /\ LoggedTraffic'
  BY <1>1, <1>2 DEF SignOffReads, LoggedTraffic
<1>6. WritesOnce'
  BY <1>1, <1>2, <1>3 DEF WritesOnce
<1>7. Settled'
  <2>1. SUFFICES ASSUME test.prompt
                 PROVE  \A h \in Hosts : \A i \in 1..Len(stimulusArray'[h]) :
                          stimulusArray'[h][i].kind # "ilat"
    BY <1>1, <1>2, <1>3 DEF Settled, Busy
  <2>2. \A h \in Hosts : \A i \in 1..Len(stimulusArray[h]) :
          stimulusArray[h][i].kind # "ilat"
    BY <1>1, <1>3, <2>1 DEF Settled
  <2>3. TAKE h \in Hosts
  <2>4. Joins(stimulusArray[h], more[h], stimulusArray'[h])
    BY DriveQueues
  <2>5. /\ \A i \in 1..Len(stimulusArray[h]) : stimulusArray[h][i].kind # "ilat"
        /\ \A i \in 1..Len(more[h]) : more[h][i].kind # "ilat"
    BY <2>2 DEF Added
  <2>6. TAKE i \in 1..Len(stimulusArray'[h])
  <2>7. \/ /\ i \in 1..Len(stimulusArray[h])
           /\ stimulusArray'[h][i] = stimulusArray[h][i]
        \/ /\ i - Len(stimulusArray[h]) \in 1..Len(more[h])
           /\ stimulusArray'[h][i] = more[h][i - Len(stimulusArray[h])]
    BY <2>4 DEF Joins
  <2> QED BY ONLY <2>5, <2>7
<1>8. Watched' /\ LastWait' /\ DumpComplete'
  BY <1>3 DEF Watched, LastWait, DumpComplete
<1> QED BY <1>4, <1>5, <1>6, <1>7, <1>8

\* The reads of registers are added behind everything else.
LEMMA DriveInOrder ==
  ASSUME NEW more, FlowInv, DriveStep(more), Added(more)
  PROVE  InOrder'
<1>1. FlowTypes /\ InOrder
  BY DEF FlowInv
<1>2. UNCHANGED <<test, sEntry, hostMem, answers>>
  BY DEF DriveStep
<1>3. \A h \in Hosts : /\ ~Queued(h, "regRead") /\ sEntry[h].kind # "regRead"
                       /\ ~Coming(h, "regRead") /\ ~RegBack(h)
  BY <1>1 DEF InOrder, OrderAt, DriveStep
<1>4. SUFFICES ASSUME NEW h \in Hosts
               PROVE  /\ pc' # "regsBack" => ~Queued(h, "regRead")'
                      /\ \A i, j \in 1..Len(stimulusArray'[h]) :
                           stimulusArray'[h][i].kind = "regRead"
                           /\ stimulusArray'[h][j].kind = "memRead" => j < i
  <2>1. \A h \in Hosts : ~Coming(h, "regRead")' /\ ~RegBack(h)'
    BY <1>2, <1>3 DEF Coming, RegBack
  <2>2. \A h \in Hosts : sEntry'[h].kind # "regRead"
    BY <1>2, <1>3
  <2>3. \A h \in Hosts : \A i, j \in 1..Len(answers'[h]) :
          answers'[h][i].kind = "regRead" /\ answers'[h][j].kind = "memRead" => j < i
    BY <1>1, <1>2 DEF InOrder, OrderAt
  <2>4. pc' \notin {"regsBack", "last", "stop", "stopped"} <=> pc' # "regsBack"
    BY DEF DriveStep
  <2> QED BY <1>4, <2>1, <2>2, <2>3, <2>4 DEF InOrder, OrderAt
<1> DEFINE q == stimulusArray[h]
           m == more[h]
           r == stimulusArray'[h]
<1>5. Joins(q, m, r)
  BY DriveQueues
<1>6. \A i \in 1..Len(q) : q[i].kind # "regRead"
  BY <1>3 DEF Queued
<1>7. \A i \in 1..Len(r) : r[i].kind = "regRead" =>
        i \notin 1..Len(q) /\ pc' = "regsBack"
  <2>1. \A i \in 1..Len(m) : m[i].kind = "regRead" => pc' = "regsBack"
    BY DEF Added
  <2>2. TAKE i \in 1..Len(r)
  <2>3. CASE i \in 1..Len(q) /\ r[i] = q[i]
    BY <1>6, <2>3
  <2>4. CASE i \notin 1..Len(q)
    <3>1. i - Len(q) \in 1..Len(m) /\ r[i] = m[i - Len(q)]
      BY <1>5, <2>4 DEF Joins
    <3> QED BY <2>1, <2>4, <3>1
  <2> QED BY <1>5, <2>3, <2>4 DEF Joins
<1>8. \A j \in 1..Len(r) : r[j].kind = "memRead" /\ pc' = "regsBack" => j \in 1..Len(q)
  BY <1>5 DEF Joins, Added, DriveStep
<1>9. ASSUME NEW i \in 1..Len(r), NEW j \in 1..Len(r),
             r[i].kind = "regRead", r[j].kind = "memRead"
      PROVE  j < i
  <2>1. i \notin 1..Len(q) /\ j \in 1..Len(q)
    BY <1>7, <1>8, <1>9
  <2>2. Len(q) \in Nat
    BY <1>1, Items DEF FlowTypes
  <2> QED BY <2>1, <2>2
<1> QED BY <1>7, <1>9 DEF Queued

\* What is kept of the writes when the sign-off has started before.
LEMMA DriveKeepsWrites ==
  ASSUME NEW more, FlowInv, DriveStep(more), Added(more), signOffStarted
  PROVE  WritesKept'
<1>1. FlowTypes /\ WritesKept
  BY DEF FlowInv
<1>2. UNCHANGED <<test, sEntry, hostMem, answers, stopped>> /\ signOffStarted'
  BY DEF DriveStep
<1>3. SUFFICES ASSUME NEW h \in Hosts, NEW e \in MemWrites(h)
               PROVE  WaitsAt(h, e.no)' \/ IsBack(h, e.no)'
  BY <1>2 DEF WritesKept, MemWrites
<1>4. WaitsAt(h, e.no) \/ IsBack(h, e.no)
  BY <1>1 DEF WritesKept, DriveStep, Running
<1>5. \A i \in 1..Len(stimulusArray[h]) : /\ i \in 1..Len(stimulusArray'[h])
                                          /\ stimulusArray'[h][i] = stimulusArray[h][i]
  BY DriveQueues DEF Joins
<1> QED BY <1>2, <1>4, <1>5 DEF WaitsAt, IsBack

\* The sign-off reads are added: with the queues empty, they stand for all writes.
LEMMA DispathSignOffKeeps ==
  ASSUME FlowInv, DispathSignOff
  PROVE  FlowInv'
<1>1. FlowTypes /\ Stages /\ SignOffReads /\ WritesKept
  BY DEF FlowInv
<1>2. pc = "signOff" /\ pc' = "drain" /\ stopped = "no" /\ stopped' = "no" /\ UNCHANGED test
  BY DEF DispathSignOff, Drive, FlowStep, Running
<1>3. DriveStep(signoffArray)
  BY <1>1 DEF FlowTypes, DispathSignOff, Drive, FlowStep, AddEntries, DriveStep, Core
<1>4. Added(signoffArray)
  BY <1>1, <1>2 DEF Added, FlowTypes, SignOffReads
<1>5. /\ FlowTypes' /\ SignOffReads' /\ WritesOnce' /\ LoggedTraffic'
      /\ Watched' /\ Settled' /\ LastWait' /\ DumpComplete' /\ InOrder'
  BY <1>3, <1>4, DriveKeeps, DriveInOrder
<1>6. Stages'
  BY <1>2, <1>3 DEF Stages, Signing, DriveStep
<1>7. RegistersRight'
  BY <1>2 DEF RegistersRight
<1>8. WritesKept'
  <2>1. SUFFICES ASSUME NEW h \in Hosts, NEW e \in MemWrites(h)
                 PROVE  WaitsAt(h, e.no)'
    BY <1>2, <1>3 DEF WritesKept, MemWrites, DriveStep
  <2>2. NothingPending /\ ~signOffStarted
    BY <1>1, <1>2 DEF Stages, Signing
  <2>3. 1..Len(stimulusArray[h]) = {}
    BY <2>2 DEF NothingPending
  <2>4. PICK i \in 1..Len(signoffArray[h]) : IsReadBack(signoffArray[h][i], e.no)
    BY <1>1, <2>2, <2>3 DEF WritesKept
  <2>5. /\ Len(stimulusArray[h]) + i \in 1..Len(stimulusArray'[h])
        /\ stimulusArray'[h][Len(stimulusArray[h]) + i] = signoffArray[h][i]
    BY <1>3, <1>4, DriveQueues DEF Joins
  <2> QED BY <2>4, <2>5 DEF WaitsAt
<1> QED BY <1>5, <1>6, <1>7, <1>8 DEF FlowInv

\* The entries for all cores.
LEMMA PerCoreEntries ==
  ASSUME NEW kind \in {"reg", "regRead"}, test \in Tests, NEW h \in Hosts
  PROVE  /\ PerCore(kind)[h] \in Seq(Entry)
         /\ \A i \in 1..Len(PerCore(kind)[h]) : PerCore(kind)[h][i].kind = kind
<1> DEFINE s == [i \in 1..test.NCORES |-> [kind |-> kind, no |-> i - 1]]
<1>1. test.NCORES \in Nat
  BY TestFields
<1>2. \A i \in 1..test.NCORES : [kind |-> kind, no |-> i - 1] \in Entry
  BY DEF Entry, Kind
<1>3. s \in [1..test.NCORES -> Entry]
  BY <1>2
<1>4. s \in Seq(Entry)
  <2> HIDE DEF s
  <2>1. s \in UNION {[1..n -> Entry] : n \in Nat}
    BY ONLY <1>1, <1>3
  <2> QED BY ONLY <2>1, SeqDef, Zenon
<1>5. DOMAIN s = 1..Len(s) /\ DOMAIN s = 1..test.NCORES
  BY <1>4, Items
<1>6. \A i \in 1..test.NCORES : s[i].kind = kind
  OBVIOUS
<1>7. PerCore(kind)[h] = s
  BY DEF PerCore
<1> HIDE DEF s
<1> QED BY <1>4, <1>5, <1>6, <1>7

\* The steps that turn off the clock gating, and write and read registers.
LEMMA DrivesKeep ==
  ASSUME FlowInv, TurnOffClockGating \/ WriteRegisters \/ ReadRegisters
  PROVE  FlowInv'
<1>1. FlowTypes /\ Stages
  BY DEF FlowInv
<1>2. /\ UNCHANGED test /\ pc \in {"config", "writeRegs", "readRegs"} /\ stopped = "no"
      /\ stopped' = "no" /\ signOffStarted /\ signOffStarted'
  BY <1>1 DEF TurnOffClockGating, WriteRegisters, ReadRegisters, Drive, FlowStep, Running,
              Stages, Signing
<1>3. ncore \in Core /\ test.NCORES \in Nat \ {0} /\ ncore \in Nat
  BY <1>1, TestFields DEF FlowTypes
<1>4. CASE TurnOffClockGating
  <2>1. ncore' \in Core /\ pc' \in {"config", "writeRegs"} /\ (pc' = "writeRegs" => ncore' = 0)
    BY <1>3, <1>4 DEF TurnOffClockGating, Drive, Core
  <2>2. DriveStep(ConfigWrites)
    BY <1>2, <1>4, <2>1 DEF TurnOffClockGating, Drive, FlowStep, AddEntries, DriveStep
  <2>3. \A h \in Hosts :
          /\ ConfigWrites[h] \in Seq(Entry) /\ Len(ConfigWrites[h]) = 2
          /\ ConfigWrites[h][1].kind = "CORE_CONFIG" /\ ConfigWrites[h][2].kind = "MESH_CONFIG"
    BY <1>3 DEF ConfigWrites, Entry, Kind
  <2>4. Added(ConfigWrites)
    <3>1. ConfigWrites \in [Hosts -> Seq(Entry)]
      BY <2>3 DEF ConfigWrites
    <3>2. \A h \in Hosts : \A i \in 1..Len(ConfigWrites[h]) :
            ConfigWrites[h][i].kind \in {"CORE_CONFIG", "MESH_CONFIG"}
      BY <2>3
    <3> QED BY <3>1, <3>2 DEF Added
  <2>5. /\ FlowTypes' /\ SignOffReads' /\ WritesOnce' /\ LoggedTraffic' /\ WritesKept'
        /\ Watched' /\ Settled' /\ LastWait' /\ DumpComplete' /\ InOrder'
    BY <1>2, <2>2, <2>4, DriveKeeps, DriveInOrder, DriveKeepsWrites
  <2>6. Stages' /\ RegistersRight'
    BY <1>2, <2>1 DEF Stages, Signing, RegistersRight
  <2> QED BY <2>5, <2>6 DEF FlowInv
<1>5. ASSUME NEW kind \in {"reg", "regRead"}, ncore' = 0,
             NEW to \in {"readRegs", "regsBack"}, pc' = to,
             kind = "regRead" => to = "regsBack", DriveStep(PerCore(kind))
      PROVE  FlowInv'
  <2>1. Added(PerCore(kind))
    <3>1. PerCore(kind) \in [Hosts -> Seq(Entry)]
      BY <1>1, PerCoreEntries DEF PerCore, FlowTypes
    <3>2. \A h \in Hosts : \A i \in 1..Len(PerCore(kind)[h]) : PerCore(kind)[h][i].kind = kind
      BY <1>1, PerCoreEntries DEF FlowTypes
    <3> QED BY <1>5, <3>1, <3>2 DEF Added
  <2>2. /\ FlowTypes' /\ SignOffReads' /\ WritesOnce' /\ LoggedTraffic' /\ WritesKept'
        /\ Watched' /\ Settled' /\ LastWait' /\ DumpComplete' /\ InOrder'
    BY <1>2, <1>5, <2>1, DriveKeeps, DriveInOrder, DriveKeepsWrites
  <2>3. Stages'
    BY <1>2, <1>5 DEF Stages, Signing
  <2>4. RegistersRight'
    <3>1. test' = test /\ \A c \in Core' : ~(c < ncore')
      BY <1>2, <1>5, TestFields, <1>1 DEF Core, FlowTypes
    <3> QED BY <1>5, <3>1 DEF RegistersRight
  <2> QED BY <2>2, <2>3, <2>4 DEF FlowInv
<1>6. TurnOffClockGating \/ (ncore' = 0 /\ ncore' \in Core)
  BY <1>1, <1>2, <1>3 DEF WriteRegisters, ReadRegisters, Drive, FlowStep, Stages
<1>7. CASE WriteRegisters /\ ~TurnOffClockGating
  <2>1. DriveStep(PerCore("reg")) /\ pc' = "readRegs"
    BY <1>2, <1>6, <1>7 DEF WriteRegisters, Drive, FlowStep, AddEntries, DriveStep
  <2> QED BY <1>5, <1>6, <1>7, <2>1
<1>8. CASE ReadRegisters /\ ~TurnOffClockGating
  <2>1. DriveStep(PerCore("regRead")) /\ pc' = "regsBack"
    BY <1>2, <1>6, <1>8 DEF ReadRegisters, Drive, FlowStep, AddEntries, DriveStep
  <2> QED BY <1>5, <1>6, <1>8, <2>1
<1> QED BY <1>4, <1>7, <1>8

\* The read-backs of the registers of one core are looked at.
LEMMA RegistersBackKeeps ==
  ASSUME FlowInv, RegistersBack
  PROVE  FlowInv'
<1>1. /\ FlowTypes /\ Stages /\ SignOffReads /\ WritesOnce /\ Settled /\ InOrder
      /\ RegistersRight /\ LoggedTraffic
  BY DEF FlowInv
<1>2. /\ UNCHANGED <<test, stimulusArray, sEntry, signoffArray, signOffStarted, unlogged,
                     answers, running, halted, irq, engines, left>>
      /\ Core' = Core /\ pc = "regsBack" /\ Running
  BY DEF RegistersBack, FlowStep, Core
<1>3. ncore \in Core /\ test.NCORES \in Nat \ {0} /\ ncore \in Nat
  BY <1>1, TestFields DEF FlowTypes
<1>4. CASE \E h \in Hosts : \E r \in Back(h, ncore) : ~r[2].good
  <2>1. hostMem' = {} /\ stopped' = "error" /\ pc' = "stopped" /\ ncore' = ncore
    BY <1>4 DEF RegistersBack, Abort
  <2>2. FlowTypes' /\ Stages'
    BY <1>1, <1>2, <2>1 DEF FlowTypes, Stages, Signing
  <2>3. SignOffReads' /\ WritesOnce' /\ LoggedTraffic'
    BY <1>1, <1>2 DEF SignOffReads, WritesOnce, LoggedTraffic
  <2>4. Watched' /\ Settled' /\ RegistersRight' /\ LastWait' /\ DumpComplete'
    BY <2>1 DEF Watched, Settled, RegistersRight, LastWait, DumpComplete, Signing
  <2>5. WritesKept'
    BY <1>1, <1>2, <2>1 DEF WritesKept, Stages, Signing
  <2>6. InOrder'
    <3>1. \A h \in Hosts : ~RegBack(h)'
      BY <2>1 DEF RegBack
    <3> QED BY <1>1, <1>2, <2>1, <3>1 DEF InOrder, OrderAt, Queued, Coming
  <2> QED BY <2>2, <2>3, <2>4, <2>5, <2>6 DEF FlowInv
<1>5. CASE \A h \in Hosts : \A r \in Back(h, ncore) : r[2].good
  <2>1. /\ ncore' = (ncore + 1) % test.NCORES /\ UNCHANGED <<hostMem, stopped>>
        /\ pc' = IF ncore' = 0 THEN "last" ELSE "regsBack"
    BY <1>5 DEF RegistersBack
  <2>2. /\ ncore' \in Core
        /\ \A c \in Core : ncore' = 0 \/ c < ncore' => c < ncore \/ c = ncore
    BY <1>3, <2>1 DEF Core
  <2>3. pc' \in {"last", "regsBack"} /\ (pc' = "last" => ncore' = 0)
    BY <2>1
  <2>4. FlowTypes' /\ Stages'
    BY <1>1, <1>2, <2>1, <2>2, <2>3 DEF FlowTypes, Stages, Signing, Running
  <2>5. SignOffReads' /\ WritesOnce' /\ LoggedTraffic'
    BY <1>1, <1>2 DEF SignOffReads, WritesOnce, LoggedTraffic
  <2>6. Settled'
    BY <1>1, <1>2, <2>3 DEF Settled, Busy, Signing
  <2>7. WritesKept'
    BY <1>2, <2>1 DEF FlowInv, WritesKept, MemWrites, WaitsAt, IsBack
  <2>8. InOrder'
    BY <1>1, <1>2, <2>1, <2>3 DEF InOrder, OrderAt, Queued, Coming, RegBack
  <2>9. RegistersRight'
    <3>1. \A h \in Hosts : \A c \in Core : Back(h, c)' = Back(h, c)
      BY <2>1 DEF Back
    <3>2. \A h \in Hosts : \A c \in Core :
            ncore' = 0 \/ c < ncore' => \E r \in Back(h, c) : r[2].good
      <4> TAKE h \in Hosts
      <4>1. TAKE c \in Core
      <4>2. \E r \in Back(h, ncore) : r[2].good
        BY <1>5 DEF RegistersBack, IsCoreIdEndofTest
      <4>3. c < ncore => \E r \in Back(h, c) : r[2].good
        BY <1>1, <1>2 DEF RegistersRight
      <4> QED BY <2>2, <4>2, <4>3
    <3> QED BY <1>2, <2>3, <3>1, <3>2 DEF RegistersRight
  <2>10. Watched' /\ LastWait' /\ DumpComplete'
    BY <1>2, <2>1, <2>3 DEF Watched, LastWait, DumpComplete, Running
  <2> QED BY <2>4, <2>5, <2>6, <2>7, <2>8, <2>9, <2>10 DEF FlowInv
<1> QED BY <1>4, <1>5

-----------------------------------------------------------------------------
(***************************************************************************)
(* The steps of the ports.                                                 *)
(***************************************************************************)


\* A driver takes an entry, and its read-back is kept if it is a write.
LEMMA PopKeeps ==
  ASSUME FlowInv, NEW h \in Hosts, PopStimulus(h)
  PROVE  FlowInv'
<1>1. /\ FlowTypes /\ Stages /\ SignOffReads /\ WritesOnce /\ Settled /\ WritesKept
      /\ InOrder /\ RegistersRight /\ LoggedTraffic
  BY DEF FlowInv
<1>2. /\ UNCHANGED <<test, signOffStarted, hostMem, unlogged, answers, running, halted,
                     irq, engines, left, old, pc, ncore, stopped>>
      /\ stopped = "no" /\ sEntry[h] = NoEntry /\ stimulusArray[h] # <<>>
  BY DEF PopStimulus, Running, recordVars, chipVars, coreVars, flowVars
<1>3. Core' = Core
  BY <1>2 DEF Core
<1> DEFINE q == stimulusArray[h]
           e == Head(q)
           r == [e EXCEPT !.kind = "memRead"]
<1>4. /\ stimulusArray' = [stimulusArray EXCEPT ![h] = Tail(q)]
      /\ sEntry' = [sEntry EXCEPT ![h] = e]
      /\ signoffArray' = IF e.kind = "mem"
           THEN [signoffArray EXCEPT ![h] = Append(signoffArray[h], r)] ELSE signoffArray
  BY DEF PopStimulus
<1>5. q \in Seq(Entry) /\ signoffArray[h] \in Seq(Entry) /\ sEntry \in [Hosts -> Entry \cup {NoEntry}]
  BY <1>1 DEF FlowTypes
<1>6. /\ e = q[1] /\ e \in Entry /\ 1 \in 1..Len(q) /\ Tail(q) \in Seq(Entry)
      /\ \A i \in 1..Len(Tail(q)) : i + 1 \in 1..Len(q) /\ Tail(q)[i] = q[i + 1]
      /\ \A i \in 1..Len(q) : i = 1 \/ (i - 1 \in 1..Len(Tail(q)) /\ q[i] = Tail(q)[i - 1])
  BY <1>2, <1>5, Popped
<1>7. r \in Entry /\ r.kind = "memRead" /\ r.no = e.no
  BY <1>6, ReadOf
<1> DEFINE s == signoffArray[h]
           t == Append(s, r)
<1>8. /\ t \in Seq(Entry) /\ Len(t) = Len(s) + 1 /\ t[Len(s) + 1] = r
      /\ Len(s) + 1 \in 1..Len(t)
      /\ \A i \in 1..Len(s) : i \in 1..Len(t) /\ t[i] = s[i]
      /\ \A i \in 1..Len(t) : i \in 1..Len(s) \/ i = Len(s) + 1
  BY <1>5, <1>7, Appended
<1> HIDE DEF e, r, t
<1>9. /\ stimulusArray' \in [Hosts -> Seq(Entry)] /\ signoffArray' \in [Hosts -> Seq(Entry)]
      /\ sEntry' \in [Hosts -> Entry \cup {NoEntry}]
      /\ stimulusArray'[h] = Tail(q) /\ sEntry'[h] = e
      /\ signoffArray'[h] = IF e.kind = "mem" THEN t ELSE s
      /\ \A g \in Hosts : g # h => /\ stimulusArray'[g] = stimulusArray[g]
                                   /\ sEntry'[g] = sEntry[g]
                                   /\ signoffArray'[g] = signoffArray[g]
  BY <1>1, <1>4, <1>5, <1>6, <1>8 DEF FlowTypes, t
<1>10. pc \notin {"lookAgain", "signOff", "stop"}
  BY <1>1, <1>2 DEF Stages, NothingPending
<1>11. FlowTypes'
  BY <1>1, <1>2, <1>3, <1>9 DEF FlowTypes
<1>12. Stages' /\ LoggedTraffic' /\ Watched' /\ LastWait' /\ DumpComplete'
  BY <1>1, <1>2, <1>10 DEF Stages, LoggedTraffic, Watched, LastWait, DumpComplete
<1>13. SignOffReads'
  <2>1. \A i \in 1..Len(s) : s[i].kind = "memRead"
    BY <1>1 DEF SignOffReads
  <2>2. \A i \in 1..Len(t) : t[i].kind = "memRead"
    BY <1>7, <1>8, <2>1
  <2>3. SUFFICES ASSUME NEW g \in Hosts
                 PROVE  \A i \in 1..Len(signoffArray'[g]) :
                          signoffArray'[g][i].kind = "memRead"
    BY DEF SignOffReads
  <2>4. CASE g = h
    BY <1>9, <2>1, <2>2, <2>4
  <2>5. CASE g # h
    BY ZenonT(40), <1>1, <1>9, <2>5 DEF SignOffReads
  <2> QED BY <2>4, <2>5
<1>14. WritesOnce'
  BY <1>1, <1>2, <1>3 DEF WritesOnce
<1>15. Settled'
  <2>1. SUFFICES ASSUME test.prompt, pc \in Signing \cup {"signOff"}
                 PROVE  /\ \A g \in Hosts : sEntry'[g].kind # "ilat"
                        /\ \A g \in Hosts : \A i \in 1..Len(stimulusArray'[g]) :
                             stimulusArray'[g][i].kind # "ilat"
    BY <1>1, <1>2, <1>3 DEF Settled, Busy
  <2>2. /\ \A g \in Hosts : sEntry[g].kind # "ilat"
        /\ \A g \in Hosts : \A i \in 1..Len(stimulusArray[g]) :
             stimulusArray[g][i].kind # "ilat"
    BY <1>1, <2>1 DEF Settled
  <2>3. e.kind # "ilat" /\ \A i \in 1..Len(Tail(q)) : Tail(q)[i].kind # "ilat"
    <3>1. \A i \in 1..Len(q) : q[i].kind # "ilat"
      BY <2>2
    <3> QED BY <1>6, <3>1
  <2>4. SUFFICES ASSUME NEW g \in Hosts
                 PROVE  /\ sEntry'[g].kind # "ilat"
                        /\ \A i \in 1..Len(stimulusArray'[g]) :
                             stimulusArray'[g][i].kind # "ilat"
    OBVIOUS
  <2>5. CASE g = h
    BY <1>9, <2>3, <2>5
  <2>6. CASE g # h
    BY ZenonT(40), <1>9, <2>2, <2>6
  <2> QED BY <2>5, <2>6
<1>16. WritesKept'
  <2>1. ASSUME ~signOffStarted, NEW g \in Hosts, NEW f \in MemWrites(g)
        PROVE  \/ \E i \in 1..Len(stimulusArray'[g]) : stimulusArray'[g][i] = f
               \/ \E i \in 1..Len(signoffArray'[g]) : IsReadBack(signoffArray'[g][i], f.no)
    <3>1. \/ \E i \in 1..Len(stimulusArray[g]) : stimulusArray[g][i] = f
          \/ \E i \in 1..Len(signoffArray[g]) : IsReadBack(signoffArray[g][i], f.no)
      BY <1>1, <2>1 DEF WritesKept
    <3>2. CASE g # h
      BY <1>9, <3>1, <3>2
    <3>3. CASE g = h
      <4>1. CASE \E i \in 1..Len(s) : IsReadBack(s[i], f.no)
        BY <1>8, <1>9, <3>3, <4>1
      <4>2. CASE f = e
        <5>1. e.kind = "mem"
          BY <4>2 DEF MemWrites
        <5>2. signoffArray'[h] = t /\ IsReadBack(t[Len(s) + 1], f.no)
          BY <1>7, <1>8, <1>9, <4>2, <5>1 DEF IsReadBack
        <5> QED BY <1>8, <3>3, <5>2
      <4>3. CASE f # e /\ \E i \in 1..Len(q) : q[i] = f
        <5>1. PICK i \in 1..Len(q) : q[i] = f
          BY <4>3
        <5>2. i - 1 \in 1..Len(Tail(q)) /\ Tail(q)[i - 1] = f
          BY <1>6, <4>3, <5>1
        <5> QED BY <1>9, <3>3, <5>2
      <4> QED BY <3>1, <3>3, <4>1, <4>2, <4>3
    <3> QED BY <3>2, <3>3
  <2>2. ASSUME signOffStarted, NEW g \in Hosts, NEW f \in MemWrites(g)
        PROVE  WaitsAt(g, f.no)' \/ IsBack(g, f.no)'
    <3>1. WaitsAt(g, f.no) \/ IsBack(g, f.no)
      BY <1>1, <1>2, <2>2 DEF WritesKept
    <3>2. CASE IsBack(g, f.no)
      BY <1>2, <3>2 DEF IsBack
    <3>3. CASE WaitsAt(g, f.no) /\ g # h
      BY <1>2, <1>9, <3>3 DEF WaitsAt
    <3>4. CASE WaitsAt(h, f.no) /\ g = h
      <4>1. ~IsReadBack(sEntry[h], f.no)
        BY <1>2, EntryFields DEF IsReadBack
      <4>2. CASE \E i \in 1..Len(answers[h]) : IsReadBack(answers[h][i], f.no)
        BY <1>2, <3>4, <4>2 DEF WaitsAt
      <4>3. CASE \E i \in 1..Len(q) : IsReadBack(q[i], f.no)
        <5>1. PICK i \in 1..Len(q) : IsReadBack(q[i], f.no)
          BY <4>3
        <5>2. CASE i = 1
          BY <1>6, <1>9, <3>4, <5>1, <5>2 DEF WaitsAt
        <5>3. CASE i # 1
          <6>1. i - 1 \in 1..Len(Tail(q)) /\ IsReadBack(Tail(q)[i - 1], f.no)
            BY <1>6, <5>1, <5>3
          <6> QED BY <1>9, <3>4, <6>1 DEF WaitsAt
        <5> QED BY <5>2, <5>3
      <4> QED BY <3>4, <4>1, <4>2, <4>3 DEF WaitsAt
    <3> QED BY <3>1, <3>2, <3>3, <3>4
  <2> QED BY <1>2, <2>1, <2>2 DEF WritesKept, MemWrites
<1>17. InOrder'
  <2>1. SUFFICES ASSUME NEW g \in Hosts PROVE OrderAt(g)'
    BY DEF InOrder
  <2>2. OrderAt(g)
    BY <1>1 DEF InOrder
  <2>3. CASE g # h
    <3>1. /\ UNCHANGED <<test, pc, hostMem>> /\ answers'[g] = answers[g]
          /\ stimulusArray'[g] = stimulusArray[g] /\ sEntry'[g] = sEntry[g]
      BY <1>2, <1>9, <2>3
    <3> QED BY ONLY <2>2, <3>1 DEF OrderAt, Queued, Coming, RegBack
  <2>4. CASE g = h
    <3>1. /\ Coming(h, "regRead")' = Coming(h, "regRead") /\ RegBack(h)' = RegBack(h)
          /\ Coming(h, "memRead")' = Coming(h, "memRead")
      BY <1>2 DEF Coming, RegBack
    <3>2. ASSUME NEW kind, ~Queued(h, kind)
          PROVE  ~Queued(h, kind)' /\ sEntry'[h].kind # kind
      <4>1. \A i \in 1..Len(q) : q[i].kind # kind
        BY <3>2 DEF Queued
      <4>2. e.kind # kind /\ \A i \in 1..Len(Tail(q)) : Tail(q)[i].kind # kind
        BY <1>6, <4>1
      <4> QED BY <1>9, <4>2 DEF Queued
    <3>3. \A i, j \in 1..Len(q) : q[i].kind = "regRead" /\ q[j].kind = "memRead" => j < i
      BY <2>2, <2>4 DEF OrderAt
    <3>4. \A i, j \in 1..Len(Tail(q)) :
            Tail(q)[i].kind = "regRead" /\ Tail(q)[j].kind = "memRead" => j < i
      BY <1>6, <3>3
    <3>5. e.kind = "regRead" => \A j \in 1..Len(Tail(q)) : Tail(q)[j].kind # "memRead"
      BY <1>6, <3>3
    <3>6. sEntry'[h].kind = "regRead" => ~Queued(h, "memRead")'
      BY <1>9, <3>5 DEF Queued
    <3>7. \A i, j \in 1..Len(stimulusArray'[h]) :
            stimulusArray'[h][i].kind = "regRead" /\ stimulusArray'[h][j].kind = "memRead"
            => j < i
      BY <1>9, <3>4
    <3>8. /\ ~Queued(h, "regRead") => ~Queued(h, "regRead")' /\ sEntry'[h].kind # "regRead"
          /\ ~Queued(h, "memRead") => ~Queued(h, "memRead")' /\ sEntry'[h].kind # "memRead"
      BY <3>2
    <3> QED BY <1>2, <2>2, <2>4, <3>1, <3>6, <3>7, <3>8 DEF OrderAt
  <2> QED BY <2>3, <2>4
<1>18. RegistersRight'
  BY <1>1, <1>2, <1>3 DEF RegistersRight, Back
<1> QED BY <1>11, <1>12, <1>13, <1>14, <1>15, <1>16, <1>17, <1>18 DEF FlowInv

\* What the chip does with an entry.
LEMMA Delivered ==
  ASSUME FlowInv, NEW h \in Hosts, Deliver(h)
  PROVE  /\ UNCHANGED <<test, stimulusArray, signoffArray, signOffStarted, hostMem, unlogged,
                        running, halted, engines, left, pc, ncore, stopped>>
         /\ stopped = "no" /\ Core' = Core
         /\ sEntry[h] # NoEntry /\ sEntry[h] \in Entry
         /\ sEntry' \in [Hosts -> Entry \cup {NoEntry}] /\ sEntry'[h] = NoEntry
         /\ \A g \in Hosts : g # h => sEntry'[g] = sEntry[g] /\ answers'[g] = answers[g]
         /\ answers' \in [Hosts -> Seq(Reads \cup CoreWrites)]
         /\ DOMAIN irq' = Core
         /\ sEntry[h].kind # "ilat" => irq' = irq
         /\ \A c \in Core : irq'[c] # {} => irq[c] # {} \/ (sEntry[h].kind = "ilat" /\ sEntry[h].no = c)
         /\ <<"entry", h>> \in old /\ sEntry[h].kind = "ilat" => <<"core", sEntry[h].no>> \in old'
         /\ \A x \in old : x # <<"entry", h>> => x \in old'
         /\ \/ sEntry[h].kind \notin {"memRead", "regRead"} /\ answers'[h] = answers[h]
            \/ \E a \in Reads :
                 /\ a.kind = sEntry[h].kind /\ a.no = sEntry[h].no
                 /\ answers'[h] = Append(answers[h], a)
                 /\ <<"entry", h>> \in old => <<"answer", h, a>> \in old'
<1>1. FlowTypes
  BY DEF FlowInv
<1>2. /\ UNCHANGED <<test, stimulusArray, signoffArray, signOffStarted, hostMem, unlogged,
                     running, halted, engines, left, pc, ncore, stopped>>
      /\ stopped = "no"
  BY DEF Deliver, Running, recordVars, flowVars
<1> DEFINE e == sEntry[h]
           read == e.kind \in {"memRead", "regRead"}
           a == [kind |-> e.kind, no |-> e.no,
                 good |-> (e.kind = "regRead" => <<h, e.no>> \in reg)]
           next == IF read THEN {<<"answer", h, a>>}
                   ELSE IF e.kind = "ilat" THEN {<<"core", e.no>>} ELSE {}
<1>3. /\ e # NoEntry
      /\ answers' = IF read THEN [answers EXCEPT ![h] = Append(answers[h], a)] ELSE answers
      /\ irq' = IF e.kind = "ilat" THEN [irq EXCEPT ![e.no] = irq[e.no] \cup {"program"}] ELSE irq
      /\ old' = Becomes(<<"entry", h>>, next)
      /\ sEntry' = [sEntry EXCEPT ![h] = NoEntry]
  BY DEF Deliver
<1>4. e \in Entry
  BY <1>1, <1>3, EntryFields DEF FlowTypes
<1>5. read => a \in Reads /\ a.kind = e.kind /\ a.no = e.no
  BY <1>4 DEF Entry, Reads
<1>6. old' = IF <<"entry", h>> \in old THEN (old \ {<<"entry", h>>}) \cup next ELSE old
  BY <1>3 DEF Becomes
<1> HIDE DEF a
<1>7. answers[h] \in Seq(Reads \cup CoreWrites)
  BY <1>1 DEF FlowTypes
<1>8. read => Append(answers[h], a) \in Seq(Reads \cup CoreWrites)
  BY <1>5, <1>7, Appended
<1>9. /\ answers' \in [Hosts -> Seq(Reads \cup CoreWrites)]
      /\ answers'[h] = IF read THEN Append(answers[h], a) ELSE answers[h]
      /\ \A g \in Hosts : g # h => answers'[g] = answers[g]
  BY <1>1, <1>3, <1>8 DEF FlowTypes
<1>10. /\ sEntry' \in [Hosts -> Entry \cup {NoEntry}] /\ sEntry'[h] = NoEntry
       /\ \A g \in Hosts : g # h => sEntry'[g] = sEntry[g]
  BY <1>1, <1>3 DEF FlowTypes
<1>11. /\ DOMAIN irq' = Core
       /\ e.kind # "ilat" => irq' = irq
       /\ \A c \in Core : irq'[c] # {} => irq[c] # {} \/ (e.kind = "ilat" /\ e.no = c)
  BY <1>1, <1>3 DEF FlowTypes
<1>12. /\ <<"entry", h>> \in old /\ e.kind = "ilat" => <<"core", e.no>> \in old'
       /\ \A x \in old : x # <<"entry", h>> => x \in old'
       /\ read /\ <<"entry", h>> \in old => <<"answer", h, a>> \in old'
  BY <1>6
<1>13. \/ ~read /\ answers'[h] = answers[h]
       \/ \E b \in Reads : /\ b.kind = e.kind /\ b.no = e.no
                           /\ answers'[h] = Append(answers[h], b)
                           /\ <<"entry", h>> \in old => <<"answer", h, b>> \in old'
  BY <1>5, <1>9, <1>12
<1>14. Core' = Core
  BY <1>2 DEF Core
<1> HIDE DEF next
<1> QED BY <1>2, <1>3, <1>4, <1>9, <1>10, <1>11, <1>12, <1>13, <1>14

\* The chip takes an entry: what it makes of an old entry is old.
LEMMA DeliverKeeps ==
  ASSUME FlowInv, NEW h \in Hosts, Deliver(h)
  PROVE  FlowInv'
<1>1. /\ FlowTypes /\ Stages /\ SignOffReads /\ WritesOnce /\ Watched /\ Settled
      /\ WritesKept /\ InOrder /\ RegistersRight /\ LastWait /\ LoggedTraffic
  BY DEF FlowInv
<1> DEFINE e == sEntry[h]
           q == answers[h]
<1>2. /\ UNCHANGED <<test, stimulusArray, signoffArray, signOffStarted, hostMem, unlogged,
                     running, halted, engines, left, pc, ncore, stopped>>
      /\ stopped = "no" /\ Core' = Core
  BY Delivered
<1>3. /\ e # NoEntry /\ e \in Entry
      /\ sEntry' \in [Hosts -> Entry \cup {NoEntry}] /\ sEntry'[h] = NoEntry
      /\ \A g \in Hosts : g # h => sEntry'[g] = sEntry[g] /\ answers'[g] = answers[g]
      /\ answers' \in [Hosts -> Seq(Reads \cup CoreWrites)]
      /\ DOMAIN irq' = Core
      /\ e.kind # "ilat" => irq' = irq
      /\ \A c \in Core : irq'[c] # {} => irq[c] # {} \/ (e.kind = "ilat" /\ e.no = c)
      /\ <<"entry", h>> \in old /\ e.kind = "ilat" => <<"core", e.no>> \in old'
      /\ \A x \in old : x # <<"entry", h>> => x \in old'
  BY Delivered
<1>4. q \in Seq(Reads \cup CoreWrites) /\ Len(q) \in Nat
  BY <1>1, Items DEF FlowTypes
\* What is on its way to h: what was, and perhaps one read more.
<1>5. /\ \A i \in 1..Len(q) : i \in 1..Len(answers'[h]) /\ answers'[h][i] = q[i]
      /\ \A i \in 1..Len(answers'[h]) :
           \/ i \in 1..Len(q) /\ answers'[h][i] = q[i]
           \/ /\ i = Len(q) + 1 /\ answers'[h][i] \in Reads
              /\ answers'[h][i].kind = e.kind /\ answers'[h][i].no = e.no
              /\ <<"entry", h>> \in old => <<"answer", h, answers'[h][i]>> \in old'
      /\ e.kind \in {"memRead", "regRead"} =>
           \E i \in 1..Len(answers'[h]) :
             answers'[h][i].kind = e.kind /\ answers'[h][i].no = e.no
  <2>1. CASE e.kind \notin {"memRead", "regRead"} /\ answers'[h] = q
    BY <2>1
  <2>2. CASE \E a \in Reads :
               /\ a.kind = e.kind /\ a.no = e.no /\ answers'[h] = Append(q, a)
               /\ <<"entry", h>> \in old => <<"answer", h, a>> \in old'
    <3>1. PICK a \in Reads :
            /\ a.kind = e.kind /\ a.no = e.no /\ answers'[h] = Append(q, a)
            /\ <<"entry", h>> \in old => <<"answer", h, a>> \in old'
      BY <2>2
    <3> DEFINE t == Append(q, a)
    <3>2. /\ Len(t) = Len(q) + 1 /\ t[Len(q) + 1] = a /\ Len(q) + 1 \in 1..Len(t)
          /\ \A i \in 1..Len(q) : i \in 1..Len(t) /\ t[i] = q[i]
          /\ \A i \in 1..Len(t) : i \in 1..Len(q) \/ i = Len(q) + 1
      BY <1>4, Appended
    <3> HIDE DEF t
    <3>3. answers'[h] = t
      BY <3>1 DEF t
    <3> HIDE DEF q, e
    <3> QED BY ONLY <3>1, <3>2, <3>3
  <2> QED BY <2>1, <2>2, Delivered
<1>6. \A a \in Reads : a.kind # "core"
  BY DEF Reads
<1>7. /\ \A g \in Hosts : sEntry'[g] # NoEntry => sEntry'[g] = sEntry[g] /\ g # h
      /\ \A g \in Hosts : sEntry'[g].kind # "none" => sEntry'[g] = sEntry[g] /\ g # h
  BY <1>3, EntryFields
<1>8. FlowTypes'
  BY <1>1, <1>2, <1>3 DEF FlowTypes
<1>9. Stages' /\ SignOffReads' /\ LoggedTraffic' /\ DumpComplete'
  BY <1>1, <1>2 DEF Stages, SignOffReads, LoggedTraffic, DumpComplete, NothingPending
<1>10. RegistersRight'
  BY <1>1, <1>2 DEF RegistersRight, Back
<1>11. WritesOnce'
  <2>1. ASSUME NEW i \in 1..Len(answers'[h]), answers'[h][i].kind = "core"
        PROVE  /\ i \in 1..Len(q) /\ answers'[h][i] = q[i]
               /\ q[i].no \in Core /\ left[q[i].no] < q[i].nth
               /\ \A j \in 1..Len(answers'[h]) : answers'[h][j] = answers'[h][i] => i = j
    <3>1. i \in 1..Len(q) /\ answers'[h][i] = q[i]
      BY <1>5, <1>6, <2>1
    <3>2. ASSUME NEW j \in 1..Len(answers'[h]), answers'[h][j] = answers'[h][i]
          PROVE  i = j
      <4>1. j \in 1..Len(q) /\ answers'[h][j] = q[j]
        BY <1>5, <1>6, <2>1, <3>2
      <4> QED BY <1>1, <2>1, <3>1, <3>2, <4>1 DEF WritesOnce
    <3>3. q[i].no \in Core /\ left[q[i].no] < q[i].nth
      BY <1>1, <2>1, <3>1 DEF WritesOnce
    <3> QED BY <3>1, <3>2, <3>3
  <2>2. SUFFICES ASSUME NEW g \in Hosts, NEW i \in 1..Len(answers'[g]),
                        answers'[g][i].kind = "core"
                 PROVE  /\ answers'[g][i].no \in Core
                        /\ left[answers'[g][i].no] < answers'[g][i].nth
                        /\ \A j \in 1..Len(answers'[g]) :
                             answers'[g][j] = answers'[g][i] => i = j
    BY <1>2 DEF WritesOnce
  <2>3. CASE g = h
    BY <2>1, <2>2, <2>3
  <2>4. CASE g # h
    <3>1. answers'[g] = answers[g]
      BY <1>3, <2>4
    <3> QED BY <1>1, <2>2, <3>1 DEF WritesOnce
  <2> QED BY <2>3, <2>4
<1>12. Watched'
  <2>1. SUFFICES ASSUME test.prompt, pc = "lookAgain"
                 PROVE  /\ \A g \in Hosts : sEntry'[g] # NoEntry => <<"entry", g>> \in old'
                        /\ \A g \in Hosts : \A i \in 1..Len(answers'[g]) :
                             answers'[g][i].kind = "core" =>
                               <<"answer", g, answers'[g][i]>> \in old'
                        /\ \A c \in Core : Busy(c)' /\ ~halted[c] => <<"core", c>> \in old'
    BY <1>2 DEF Watched
  <2>2. /\ \A g \in Hosts : sEntry[g] # NoEntry => <<"entry", g>> \in old
        /\ \A g \in Hosts : \A i \in 1..Len(answers[g]) :
             answers[g][i].kind = "core" => <<"answer", g, answers[g][i]>> \in old
        /\ \A c \in Core : Busy(c) /\ ~halted[c] => <<"core", c>> \in old
    BY <1>1, <2>1 DEF Watched
  <2>3. \A g \in Hosts : sEntry'[g] # NoEntry => <<"entry", g>> \in old'
    BY <1>3, <1>7, <2>2, Things
  <2>4. \A g \in Hosts : \A i \in 1..Len(answers'[g]) :
          answers'[g][i].kind = "core" =>
            i \in 1..Len(answers[g]) /\ answers'[g][i] = answers[g][i]
    <3>1. TAKE g \in Hosts
    <3>2. CASE g = h
      BY <1>5, <1>6, <3>2
    <3>3. CASE g # h
      BY <1>3, <3>3
    <3> QED BY <3>2, <3>3
  <2>5. \A g \in Hosts : \A i \in 1..Len(answers'[g]) :
          answers'[g][i].kind = "core" => <<"answer", g, answers'[g][i]>> \in old'
    <3>1. TAKE g \in Hosts
    <3>2. TAKE i \in 1..Len(answers'[g])
    <3>3. HAVE answers'[g][i].kind = "core"
    <3>4. i \in 1..Len(answers[g]) /\ answers'[g][i] = answers[g][i]
      BY <2>4, <3>3
    <3>5. <<"answer", g, answers[g][i]>> \in old
      BY <2>2, <3>3, <3>4
    <3> QED BY <1>3, <3>4, <3>5, Things
  <2>6. ASSUME NEW c \in Core, Busy(c)', ~halted[c] PROVE <<"core", c>> \in old'
    <3>1. CASE Busy(c)
      BY <1>3, <2>2, <2>6, <3>1, Things
    <3>2. CASE ~Busy(c)
      <4>1. e.kind = "ilat" /\ e.no = c
        BY <1>2, <1>3, <2>6, <3>2 DEF Busy
      <4> QED BY <1>3, <2>2, <4>1
    <3> QED BY <3>1, <3>2
  <2> QED BY <2>3, <2>5, <2>6
<1>13. Settled'
  <2>1. SUFFICES ASSUME test.prompt, pc \in Signing \cup {"signOff"}
                 PROVE  /\ \A g \in Hosts : \A i \in 1..Len(answers'[g]) :
                             answers'[g][i].kind # "core"
                        /\ \A c \in Core : Busy(c)' => halted[c]
                        /\ \A g \in Hosts : sEntry'[g].kind # "ilat"
    BY <1>1, <1>2 DEF Settled
  <2>2. /\ \A g \in Hosts : \A i \in 1..Len(answers[g]) : answers[g][i].kind # "core"
        /\ \A c \in Core : Busy(c) => halted[c]
        /\ \A g \in Hosts : sEntry[g].kind # "ilat"
    BY <1>1, <2>1 DEF Settled
  <2>3. irq' = irq
    BY <1>3, <2>2
  <2>4. \A g \in Hosts : \A i \in 1..Len(answers'[g]) : answers'[g][i].kind # "core"
    <3>1. \A i \in 1..Len(answers'[h]) : answers'[h][i].kind # "core"
      <4>1. \A i \in 1..Len(q) : q[i].kind # "core"
        BY <2>2
      <4> QED BY <1>5, <1>6, <4>1
    <3>2. TAKE g \in Hosts
    <3>3. CASE g = h BY <3>1, <3>3
    <3>4. CASE g # h BY <1>3, <2>2, <3>4
    <3> QED BY <3>3, <3>4
  <2>5. \A c \in Core : Busy(c)' => halted[c]
    BY <1>2, <2>2, <2>3 DEF Busy
  <2>6. \A g \in Hosts : sEntry'[g].kind # "ilat"
    BY <1>7, <2>2
  <2> QED BY <2>4, <2>5, <2>6
<1>14. WritesKept'
  <2>1. ASSUME signOffStarted, NEW g \in Hosts, NEW f \in MemWrites(g)
        PROVE  WaitsAt(g, f.no)' \/ IsBack(g, f.no)'
    <3>1. WaitsAt(g, f.no) \/ IsBack(g, f.no)
      BY <1>1, <1>2, <2>1 DEF WritesKept
    <3>2. CASE IsBack(g, f.no)
      BY <1>2, <3>2 DEF IsBack
    <3>3. CASE WaitsAt(g, f.no) /\ g # h
      BY <1>2, <1>3, <3>3 DEF WaitsAt
    <3>4. CASE WaitsAt(h, f.no) /\ g = h
      <4>1. CASE IsReadBack(e, f.no)
        <5>1. PICK i \in 1..Len(answers'[h]) :
                answers'[h][i].kind = e.kind /\ answers'[h][i].no = e.no
          BY <1>5, <4>1 DEF IsReadBack
        <5> QED BY <3>4, <4>1, <5>1 DEF WaitsAt, IsReadBack
      <4>2. CASE \E i \in 1..Len(q) : IsReadBack(q[i], f.no)
        BY <1>5, <3>4, <4>2 DEF WaitsAt
      <4>3. CASE \E i \in 1..Len(stimulusArray[h]) : IsReadBack(stimulusArray[h][i], f.no)
        BY <1>2, <3>4, <4>3 DEF WaitsAt
      <4> QED BY <3>4, <4>1, <4>2, <4>3 DEF WaitsAt
    <3> QED BY <3>1, <3>2, <3>3, <3>4
  <2> QED BY <1>1, <1>2, <2>1 DEF WritesKept, MemWrites
<1>15. InOrder'
  <2>1. SUFFICES ASSUME NEW g \in Hosts PROVE OrderAt(g)'
    BY DEF InOrder
  <2>2. OrderAt(g)
    BY <1>1 DEF InOrder
  <2>3. CASE g # h
    BY <1>2, <1>3, <2>2, <2>3 DEF OrderAt, Queued, Coming, RegBack
  <2>4. CASE g = h
    <3>1. /\ Queued(h, "regRead")' = Queued(h, "regRead") /\ RegBack(h)' = RegBack(h)
          /\ Queued(h, "memRead")' = Queued(h, "memRead")
      BY <1>2 DEF Queued, RegBack
    <3>2. ASSUME NEW kind, ~Coming(h, kind), e.kind # kind
          PROVE  ~Coming(h, kind)'
      <4>1. \A i \in 1..Len(q) : q[i].kind # kind
        BY <3>2 DEF Coming
      <4>2. \A i \in 1..Len(answers'[h]) : answers'[h][i].kind # kind
        BY <1>5, <3>2, <4>1
      <4> QED BY <4>2 DEF Coming
    <3>3. /\ ~Coming(h, "regRead") /\ e.kind # "regRead" => ~Coming(h, "regRead")'
          /\ ~Coming(h, "memRead") /\ e.kind # "memRead" => ~Coming(h, "memRead")'
      BY <3>2
    <3>4. sEntry'[h].kind = "none"
      BY <1>3, EntryFields
    <3>5. ASSUME NEW i \in 1..Len(answers'[h]), NEW j \in 1..Len(answers'[h]),
                 answers'[h][i].kind = "regRead", answers'[h][j].kind = "memRead"
          PROVE  j < i
      <4>1. CASE i \in 1..Len(q) /\ answers'[h][i] = q[i]
        <5>1. e.kind # "memRead"
          BY <2>2, <2>4, <3>5, <4>1 DEF OrderAt, Coming
        <5>2. j \in 1..Len(q) /\ answers'[h][j] = q[j]
          BY <1>5, <3>5, <5>1
        <5> QED BY <2>2, <2>4, <3>5, <4>1, <5>2 DEF OrderAt
      <4>2. CASE i = Len(q) + 1 /\ answers'[h][i].kind = e.kind
        <5>1. j \in 1..Len(q)
          BY <1>5, <3>5, <4>2
        <5> QED BY <1>4, <4>2, <5>1
      <4> QED BY <1>5, <4>1, <4>2
    <3>6. /\ Coming(h, "regRead")' => ~Queued(h, "memRead")
          /\ ~test.prompt /\ RegBack(h) => ~Queued(h, "memRead") /\ ~Coming(h, "memRead")'
      BY <2>2, <2>4, <3>3 DEF OrderAt
    <3>7. pc \notin {"regsBack", "last", "stop", "stopped"} =>
            ~Queued(h, "regRead") /\ ~Coming(h, "regRead")' /\ ~RegBack(h)
      BY <2>2, <2>4, <3>3 DEF OrderAt
    <3>8. \A i, j \in 1..Len(stimulusArray[h]) :
            stimulusArray[h][i].kind = "regRead" /\ stimulusArray[h][j].kind = "memRead"
            => j < i
      BY <2>2, <2>4 DEF OrderAt
    <3> QED BY <1>2, <2>4, <3>1, <3>4, <3>5, <3>6, <3>7, <3>8 DEF OrderAt
  <2> QED BY <2>3, <2>4
<1>16. LastWait'
  <2>1. SUFFICES ASSUME test.prompt, pc = "stop", NEW g \in Hosts
                 PROVE  /\ sEntry'[g] # NoEntry => <<"entry", g>> \in old'
                        /\ \A i \in 1..Len(answers'[g]) : answers'[g][i].kind = "memRead" =>
                             \/ <<"answer", g, answers'[g][i]>> \in old'
                             \/ <<g, answers'[g][i]>> \in hostMem
    BY <1>2 DEF LastWait
  <2>2. /\ \A f \in Hosts : sEntry[f] # NoEntry => <<"entry", f>> \in old
        /\ \A i \in 1..Len(answers[g]) : answers[g][i].kind = "memRead" =>
             <<"answer", g, answers[g][i]>> \in old \/ <<g, answers[g][i]>> \in hostMem
    BY <1>1, <2>1 DEF LastWait
  <2>3. sEntry'[g] # NoEntry => <<"entry", g>> \in old'
    BY <1>3, <1>7, <2>2, Things
  <2>4. ASSUME NEW i \in 1..Len(answers'[g]), answers'[g][i].kind = "memRead"
        PROVE  <<"answer", g, answers'[g][i]>> \in old' \/ <<g, answers'[g][i]>> \in hostMem
    <3>1. CASE i \in 1..Len(answers[g]) /\ answers'[g][i] = answers[g][i]
      BY <1>3, <2>2, <2>4, <3>1, Things
    <3>2. CASE g = h /\ (<<"entry", h>> \in old => <<"answer", h, answers'[h][i]>> \in old')
      BY <1>3, <2>2, <3>2
    <3> QED BY <1>3, <1>5, <3>1, <3>2
  <2> QED BY <2>3, <2>4
<1> QED BY <1>8, <1>9, <1>10, <1>11, <1>12, <1>13, <1>14, <1>15, <1>16 DEF FlowInv

\* An answer comes: a read-back is stored before it is forgotten.
LEMMA SampleKeeps ==
  ASSUME FlowInv, NEW h \in Hosts, NEW i \in 1..Len(answers[h]), Sample(h, i)
  PROVE  FlowInv'
<1>1. /\ FlowTypes /\ Stages /\ SignOffReads /\ WritesOnce /\ Watched /\ Settled
      /\ WritesKept /\ InOrder /\ RegistersRight /\ LastWait /\ LoggedTraffic
  BY DEF FlowInv
<1> DEFINE q == answers[h]
           a == q[i]
           r == RemoveAt(q, i)
<1>2. /\ UNCHANGED <<test, stimulusArray, sEntry, signoffArray, signOffStarted,
                     running, halted, irq, engines, left, pc, ncore, stopped>>
      /\ stopped = "no" /\ Core' = Core /\ (test.prompt \/ i = 1)
  BY DEF Sample, Running, portVars, coreVars, flowVars, Core
<1>3. /\ answers' = [answers EXCEPT ![h] = r]
      /\ old' = old \ {<<"answer", h, a>>}
      /\ hostMem' = IF a.kind = "core" THEN hostMem ELSE hostMem \cup {<<h, a>>}
      /\ unlogged' = (unlogged \/ (a.kind = "core" /\ signOffStarted))
  BY DEF Sample
<1>4. q \in Seq(Reads \cup CoreWrites) /\ Len(q) \in Nat /\ a \in Reads \cup CoreWrites
  BY <1>1, Items DEF FlowTypes
<1>5. a.kind # "core" => a \in Reads
  BY <1>4, AnswerFields
<1>6. /\ r \in Seq(Reads \cup CoreWrites)
      /\ \A j \in 1..Len(r) :
           LET k == IF j < i THEN j ELSE j + 1 IN
           k \in 1..Len(q) /\ k # i /\ r[j] = q[k]
      /\ \A k \in 1..Len(q) : k # i => \E j \in 1..Len(r) : r[j] = q[k]
  <2>1. r \in Seq(Reads \cup CoreWrites) /\ Without(q, i, r)
    BY <1>4, Removed
  <2> HIDE DEF q, r
  <2> QED BY ONLY <2>1 DEF Without
<1> HIDE DEF r
<1>7. /\ answers' \in [Hosts -> Seq(Reads \cup CoreWrites)]
      /\ answers'[h] = r
      /\ \A g \in Hosts : g # h => answers'[g] = answers[g]
  BY <1>1, <1>3, <1>6 DEF FlowTypes
<1>8. /\ \A x \in old : x # <<"answer", h, a>> => x \in old'
      /\ hostMem \subseteq hostMem'
      /\ a.kind # "core" => <<h, a>> \in hostMem'
      /\ \A x \in hostMem' : x \in hostMem \/ (x = <<h, a>> /\ a.kind # "core")
  BY <1>3
<1>9. \A j \in 1..Len(r) : \E k \in 1..Len(q) : k # i /\ r[j] = q[k]
  BY <1>6
<1>10. FlowTypes'
  <2>1. hostMem' \subseteq Hosts \X Reads
    BY <1>1, <1>3, <1>5 DEF FlowTypes
  <2> QED BY <1>1, <1>2, <1>7, <2>1 DEF FlowTypes
<1>11. Stages' /\ SignOffReads' /\ DumpComplete'
  BY <1>1, <1>2 DEF Stages, SignOffReads, DumpComplete, NothingPending
<1>12. LoggedTraffic'
  <2>1. SUFFICES ASSUME test.prompt, a.kind = "core", signOffStarted
                 PROVE  FALSE
    BY <1>1, <1>2, <1>3 DEF LoggedTraffic
  <2>2. pc \in Signing
    BY <1>1, <1>2, <2>1 DEF Stages
  <2> QED BY <1>1, <2>1, <2>2 DEF Settled
<1>13. WritesOnce'
  <2>1. ASSUME NEW j \in 1..Len(r), r[j].kind = "core"
        PROVE  /\ r[j].no \in Core /\ left[r[j].no] < r[j].nth
               /\ \A l \in 1..Len(r) : r[l] = r[j] => j = l
    <3> DEFINE k == IF j < i THEN j ELSE j + 1
    <3>1. k \in 1..Len(q) /\ r[j] = q[k]
      BY <1>6
    <3>2. r[j].no \in Core /\ left[r[j].no] < r[j].nth
      BY <1>1, <2>1, <3>1 DEF WritesOnce
    <3>3. ASSUME NEW l \in 1..Len(r), r[l] = r[j] PROVE j = l
      <4> DEFINE m == IF l < i THEN l ELSE l + 1
      <4>1. m \in 1..Len(q) /\ r[l] = q[m]
        BY <1>6
      <4>2. k = m
        <5> HIDE DEF k, m
        <5> QED BY <1>1, <2>1, <3>1, <3>3, <4>1 DEF WritesOnce
      <4> QED BY <4>2
    <3> QED BY <3>2, <3>3
  <2>2. SUFFICES ASSUME NEW g \in Hosts, NEW j \in 1..Len(answers'[g]),
                        answers'[g][j].kind = "core"
                 PROVE  /\ answers'[g][j].no \in Core
                        /\ left[answers'[g][j].no] < answers'[g][j].nth
                        /\ \A l \in 1..Len(answers'[g]) :
                             answers'[g][l] = answers'[g][j] => j = l
    BY <1>2 DEF WritesOnce
  <2>3. CASE g = h
    BY <1>7, <2>1, <2>2, <2>3
  <2>4. CASE g # h
    BY <1>1, <1>7, <2>2, <2>4 DEF WritesOnce
  <2> QED BY <2>3, <2>4
<1>14. Watched'
  <2>1. SUFFICES ASSUME test.prompt, pc = "lookAgain"
                 PROVE  /\ \A g \in Hosts : sEntry[g] # NoEntry => <<"entry", g>> \in old'
                        /\ \A g \in Hosts : \A j \in 1..Len(answers'[g]) :
                             answers'[g][j].kind = "core" =>
                               <<"answer", g, answers'[g][j]>> \in old'
                        /\ \A c \in Core : Busy(c) /\ ~halted[c] => <<"core", c>> \in old'
    BY <1>2 DEF Watched, Busy
  <2>2. /\ \A g \in Hosts : sEntry[g] # NoEntry => <<"entry", g>> \in old
        /\ \A g \in Hosts : \A j \in 1..Len(answers[g]) :
             answers[g][j].kind = "core" => <<"answer", g, answers[g][j]>> \in old
        /\ \A c \in Core : Busy(c) /\ ~halted[c] => <<"core", c>> \in old
    BY <1>1, <2>1 DEF Watched
  <2>3. /\ \A g \in Hosts : sEntry[g] # NoEntry => <<"entry", g>> \in old'
        /\ \A c \in Core : Busy(c) /\ ~halted[c] => <<"core", c>> \in old'
    BY <1>8, <2>2, Things
  <2>4. ASSUME NEW g \in Hosts, NEW j \in 1..Len(answers'[g]), answers'[g][j].kind = "core"
        PROVE  <<"answer", g, answers'[g][j]>> \in old'
    <3>1. CASE g # h
      BY <1>7, <1>8, <2>2, <2>4, <3>1, Things
    <3>2. CASE g = h
      <4>1. j \in 1..Len(r) /\ answers'[g][j] = r[j]
        BY <1>7, <2>4, <3>2
      <4>2. PICK k \in 1..Len(q) : k # i /\ r[j] = q[k]
        BY <1>9, <4>1
      <4>3. q[k] # a
        BY <1>1, <2>4, <4>1, <4>2 DEF WritesOnce
      <4>4. <<"answer", h, q[k]>> \in old
        BY <2>2, <2>4, <4>1, <4>2
      <4>5. <<"answer", h, q[k]>> # <<"answer", h, a>>
        BY <4>3, Things
      <4> HIDE DEF q, a
      <4> QED BY <1>8, <3>2, <4>1, <4>2, <4>4, <4>5
    <3> QED BY <3>1, <3>2
  <2> QED BY <2>3, <2>4
<1>15. Settled'
  <2>1. SUFFICES ASSUME test.prompt, pc \in Signing \cup {"signOff"}, NEW g \in Hosts
                 PROVE  \A j \in 1..Len(answers'[g]) : answers'[g][j].kind # "core"
    BY <1>1, <1>2 DEF Settled, Busy
  <2>2. \A j \in 1..Len(answers[g]) : answers[g][j].kind # "core"
    BY <1>1, <2>1 DEF Settled
  <2>3. CASE g = h
    <3>1. \A k \in 1..Len(q) : q[k].kind # "core"
      BY <2>2, <2>3
    <3>2. \A j \in 1..Len(r) : r[j].kind # "core"
      BY <1>9, <3>1
    <3> QED BY <1>7, <2>3, <3>2
  <2>4. CASE g # h
    BY <1>7, <2>2, <2>4
  <2> QED BY <2>3, <2>4
<1>16. WritesKept'
  <2>1. ASSUME signOffStarted, NEW g \in Hosts, NEW f \in MemWrites(g)
        PROVE  WaitsAt(g, f.no)' \/ IsBack(g, f.no)'
    <3>1. WaitsAt(g, f.no) \/ IsBack(g, f.no)
      BY <1>1, <1>2, <2>1 DEF WritesKept
    <3>2. CASE IsBack(g, f.no)
      BY <1>8, <3>2 DEF IsBack
    <3>3. CASE WaitsAt(g, f.no) /\ g # h
      BY <1>2, <1>7, <3>3 DEF WaitsAt
    <3>4. CASE WaitsAt(h, f.no) /\ g = h
      <4>1. CASE IsReadBack(a, f.no)
        <5>1. <<h, a>> \in hostMem' /\ IsReadBack(<<h, a>>[2], f.no)
          BY <1>8, <4>1 DEF IsReadBack
        <5> QED BY <3>4, <5>1 DEF IsBack
      <4>2. CASE \E k \in 1..Len(q) : k # i /\ IsReadBack(q[k], f.no)
        <5>1. PICK k \in 1..Len(q) : k # i /\ IsReadBack(q[k], f.no)
          BY <4>2
        <5>2. PICK j \in 1..Len(r) : r[j] = q[k]
          BY <1>6, <5>1
        <5> QED BY <1>7, <3>4, <5>1, <5>2 DEF WaitsAt
      <4>3. CASE \/ \E j \in 1..Len(stimulusArray[h]) : IsReadBack(stimulusArray[h][j], f.no)
                 \/ IsReadBack(sEntry[h], f.no)
        BY <1>2, <3>4, <4>3 DEF WaitsAt
      <4> QED BY <3>4, <4>1, <4>2, <4>3 DEF WaitsAt
    <3> QED BY <3>1, <3>2, <3>3, <3>4
  <2> QED BY <1>1, <1>2, <2>1 DEF WritesKept, MemWrites
<1>17. InOrder'
  <2>1. SUFFICES ASSUME NEW g \in Hosts PROVE OrderAt(g)'
    BY DEF InOrder
  <2>2. OrderAt(g)
    BY <1>1 DEF InOrder
  <2>3. CASE g # h
    <3>1. RegBack(g)' = RegBack(g)
      <4>1. \A x \in hostMem' : x[1] = g => x \in hostMem
        BY <1>8, <2>3
      <4> QED BY <1>8, <4>1 DEF RegBack
    <3> QED BY <1>2, <1>7, <2>2, <2>3, <3>1 DEF OrderAt, Queued, Coming
  <2>4. CASE g = h
    <3>1. /\ Queued(h, "regRead")' = Queued(h, "regRead")
          /\ Queued(h, "memRead")' = Queued(h, "memRead")
      BY <1>2 DEF Queued
    <3>2. /\ Coming(h, "regRead")' => Coming(h, "regRead")
          /\ Coming(h, "memRead")' => Coming(h, "memRead")
      <4>1. ASSUME NEW j \in 1..Len(r)
            PROVE  \E k \in 1..Len(q) : q[k].kind = r[j].kind
        BY <1>9
      <4> QED BY ZenonT(40), <1>7, <4>1 DEF Coming
    <3>3. RegBack(h)' => RegBack(h) \/ a.kind = "regRead"
      BY <1>8 DEF RegBack
    <3>4. a.kind = "regRead" => Coming(h, "regRead")
      BY DEF Coming
    <3>5. \A j, k \in 1..Len(q) : q[j].kind = "regRead" /\ q[k].kind = "memRead" => k < j
      BY <2>2, <2>4 DEF OrderAt
    <3>6. ASSUME NEW j \in 1..Len(r), NEW k \in 1..Len(r),
                 r[j].kind = "regRead", r[k].kind = "memRead"
          PROVE  k < j
      <4> DEFINE l == IF j < i THEN j ELSE j + 1
                 m == IF k < i THEN k ELSE k + 1
      <4>1. /\ l \in 1..Len(q) /\ r[j] = q[l] /\ l # i
            /\ m \in 1..Len(q) /\ r[k] = q[m] /\ m # i
        BY <1>6
      <4>2. m < l
        <5> HIDE DEF l, m
        <5> QED BY <3>5, <3>6, <4>1
      <4> QED BY <1>4, <4>2
    <3>7. ~test.prompt /\ a.kind = "regRead" =>
            sEntry[h].kind # "memRead" /\ ~Queued(h, "memRead") /\ ~Coming(h, "memRead")
      <4>1. SUFFICES ASSUME ~test.prompt, a.kind = "regRead" PROVE ~Coming(h, "memRead")
        BY <2>2, <2>4, <3>4 DEF OrderAt
      <4>2. i = 1
        BY <1>2, <4>1
      <4>3. \A k \in 1..Len(q) : q[k].kind = "memRead" => k < 1
        BY <3>5, <4>1, <4>2
      <4> QED BY <1>4, <4>3 DEF Coming
    <3>8. /\ pc \notin {"regsBack", "last", "stop", "stopped"} =>
               ~Queued(h, "regRead") /\ sEntry[h].kind # "regRead"
               /\ ~Coming(h, "regRead")' /\ ~RegBack(h)'
          /\ \A j, k \in 1..Len(stimulusArray[h]) :
               stimulusArray[h][j].kind = "regRead" /\ stimulusArray[h][k].kind = "memRead"
               => k < j
          /\ sEntry[h].kind = "regRead" => ~Queued(h, "memRead")
          /\ Coming(h, "regRead")' => sEntry[h].kind # "memRead" /\ ~Queued(h, "memRead")
          /\ ~test.prompt /\ RegBack(h)' =>
               sEntry[h].kind # "memRead" /\ ~Queued(h, "memRead") /\ ~Coming(h, "memRead")'
      BY <2>2, <2>4, <3>2, <3>3, <3>4, <3>7 DEF OrderAt
    <3>9. \A j, k \in 1..Len(answers'[h]) :
            answers'[h][j].kind = "regRead" /\ answers'[h][k].kind = "memRead" => k < j
      BY <1>7, <3>6
    <3> HIDE DEF a, q
    <3> QED BY ONLY <1>2, <2>4, <3>1, <3>8, <3>9 DEF OrderAt
  <2> QED BY <2>3, <2>4
<1>18. RegistersRight'
  <2>1. \A g \in Hosts : \A c \in Core : Back(g, c) \subseteq Back(g, c)'
    BY <1>8 DEF Back
  <2> QED BY <1>1, <1>2, <2>1 DEF RegistersRight
<1>19. LastWait'
  <2>1. SUFFICES ASSUME test.prompt, pc = "stop", NEW g \in Hosts
                 PROVE  /\ sEntry[g] # NoEntry => <<"entry", g>> \in old'
                        /\ \A j \in 1..Len(answers'[g]) : answers'[g][j].kind = "memRead" =>
                             \/ <<"answer", g, answers'[g][j]>> \in old'
                             \/ <<g, answers'[g][j]>> \in hostMem'
    BY <1>2 DEF LastWait
  <2>2. /\ sEntry[g] # NoEntry => <<"entry", g>> \in old
        /\ \A j \in 1..Len(answers[g]) : answers[g][j].kind = "memRead" =>
             <<"answer", g, answers[g][j]>> \in old \/ <<g, answers[g][j]>> \in hostMem
    BY <1>1, <2>1 DEF LastWait
  <2>3. sEntry[g] # NoEntry => <<"entry", g>> \in old'
    BY <1>8, <2>2, Things
  <2>4. ASSUME NEW k \in 1..Len(answers[g]), answers[g][k].kind = "memRead"
        PROVE  \/ <<"answer", g, answers[g][k]>> \in old'
               \/ <<g, answers[g][k]>> \in hostMem'
    <3>1. CASE g = h /\ answers[g][k] = a
      BY <1>8, <2>4, <3>1
    <3>2. CASE ~(g = h /\ answers[g][k] = a)
      <4>1. <<"answer", g, answers[g][k]>> # <<"answer", h, a>>
        BY <3>2, Things
      <4> QED BY <1>8, <2>2, <2>4, <4>1
    <3> QED BY <3>1, <3>2
  <2>5. CASE g # h
    BY <1>7, <2>3, <2>4, <2>5
  <2>6. CASE g = h
    <3>1. ASSUME NEW j \in 1..Len(r), r[j].kind = "memRead"
          PROVE  <<"answer", h, r[j]>> \in old' \/ <<h, r[j]>> \in hostMem'
      <4>1. PICK k \in 1..Len(q) : r[j] = q[k]
        BY <1>9
      <4> QED BY <2>4, <2>6, <3>1, <4>1
    <3> QED BY <1>7, <2>3, <2>6, <3>1
  <2> QED BY <2>5, <2>6
<1> QED BY <1>10, <1>11, <1>12, <1>13, <1>14, <1>15, <1>16, <1>17, <1>18, <1>19 DEF FlowInv

-----------------------------------------------------------------------------
(***************************************************************************)
(* The steps of the cores.                                                 *)
(***************************************************************************)

\* A step that starts nothing on a core that was idle, and writes nothing.
QuietStep ==
  /\ Running
  /\ UNCHANGED <<test, stimulusArray, sEntry, signoffArray, signOffStarted, hostMem,
                 unlogged, answers, pc, ncore, stopped>>
  /\ DOMAIN running' = Core /\ DOMAIN irq' = Core /\ DOMAIN engines' = Core
  /\ halted' \in [Core -> BOOLEAN] /\ left' \in [Core -> Nat]
  /\ \A d \in Core : /\ left'[d] <= left[d] /\ (halted[d] => halted'[d])
                     /\ Busy(d)' => Busy(d)
  /\ \A x \in old : x \in old' \/
       \E d \in Core : x = <<"core", d>> /\ (halted'[d] \/ ~Busy(d)')

\* All steps of a core but a write to a host are quiet.
LEMMA QuietSteps ==
  ASSUME FlowInv, NEW c \in Core,
         Wake(c) \/ RestartTimer(c) \/ Breakpoint(c) \/ Idle(c) \/ EndEngine(c)
  PROVE  QuietStep
<1>1. /\ DOMAIN running = Core /\ halted \in [Core -> BOOLEAN] /\ DOMAIN irq = Core
      /\ DOMAIN engines = Core /\ left \in [Core -> Nat]
  BY DEF FlowInv, FlowTypes
<1>2. /\ Running
      /\ UNCHANGED <<test, stimulusArray, sEntry, signoffArray, signOffStarted, hostMem,
                     unlogged, answers, pc, ncore, stopped>>
  BY DEF Wake, RestartTimer, Breakpoint, Idle, EndEngine, Work, CoreStep, portVars, recordVars,
         flowVars
<1>3. \A n \in Nat : n <= n /\ (n > 0 => n - 1 <= n /\ n - 1 \in Nat)
  OBVIOUS
<1>4. \A d \in Core : left[d] \in Nat
  BY <1>1
<1>5. CASE Wake(c)
  <2>1. UNCHANGED <<halted, left, old>>
    BY <1>5 DEF Wake
  <2>2. /\ DOMAIN running' = Core /\ DOMAIN irq' = Core /\ DOMAIN engines' = Core
        /\ \A d \in Core : d # c => /\ running'[d] = running[d] /\ irq'[d] = irq[d]
                                    /\ engines'[d] = engines[d]
        /\ irq[c] # {}
    BY <1>1, <1>5 DEF Wake
  <2>3. \A d \in Core : Busy(d)' => Busy(d)
    BY <2>2 DEF Busy
  <2> QED BY <1>1, <1>2, <1>3, <1>4, <2>1, <2>2, <2>3 DEF QuietStep
<1>6. ASSUME UNCHANGED <<running, irq>>, running[c] = "program", NEW what, Work(c, what)
      PROVE  /\ left' \in [Core -> Nat] /\ \A d \in Core : left'[d] <= left[d]
             /\ Busy(c)
  <2>1. left' = [left EXCEPT ![c] = left[c] - 1] /\ left[c] > 0
    BY <1>6 DEF Work
  <2>2. left[c] - 1 \in Nat /\ left[c] - 1 <= left[c]
    BY <1>3, <1>4, <2>1
  <2>3. \A d \in Core : left'[d] <= left[d]
    BY <1>1, <1>3, <1>4, <2>1, <2>2
  <2>4. left' \in [Core -> Nat]
    BY <1>1, <2>1, <2>2
  <2> QED BY <1>6, <2>3, <2>4 DEF Busy
<1>7. CASE RestartTimer(c)
  <2>1. Work(c, "restart") /\ running[c] = "program"
        /\ UNCHANGED <<running, irq, halted, old>>
        /\ engines' = [engines EXCEPT ![c] = engines[c] \cup {"timer"}]
    BY <1>7 DEF RestartTimer, Work
  <2>2. DOMAIN engines' = Core /\ \A d \in Core : d # c => engines'[d] = engines[d]
    BY <1>1, <2>1
  <2>3. left' \in [Core -> Nat] /\ (\A d \in Core : left'[d] <= left[d]) /\ Busy(c)
    BY <1>6, <2>1
  <2>4. \A d \in Core : Busy(d)' => Busy(d)
    BY <2>1, <2>2, <2>3 DEF Busy
  <2> QED BY <1>1, <1>2, <2>1, <2>2, <2>3, <2>4 DEF QuietStep
<1>8. CASE Breakpoint(c)
  <2>1. Work(c, "break") /\ running[c] = "program" /\ UNCHANGED <<running, irq, engines>>
        /\ halted' = [halted EXCEPT ![c] = TRUE] /\ old' = old \ {<<"core", c>>}
    BY <1>8 DEF Breakpoint, Work
  <2>2. left' \in [Core -> Nat] /\ (\A d \in Core : left'[d] <= left[d]) /\ Busy(c)
    BY <1>6, <2>1
  <2>3. /\ halted' \in [Core -> BOOLEAN] /\ halted'[c]
        /\ \A d \in Core : halted[d] => halted'[d]
    BY <1>1, <2>1
  <2>4. \A x \in old : x \in old' \/ x = <<"core", c>>
    BY <2>1
  <2>5. \A d \in Core : Busy(d)' => Busy(d)
    BY <2>1 DEF Busy
  <2> QED BY <1>1, <1>2, <2>1, <2>2, <2>3, <2>4, <2>5 DEF QuietStep
<1>9. CASE Idle(c)
  <2>1. /\ UNCHANGED <<halted, irq, engines, left>>
        /\ running' = [running EXCEPT ![c] = "no"] /\ running[c] # "no"
        /\ old' = IF irq[c] # {} \/ engines[c] # {} THEN old ELSE old \ {<<"core", c>>}
    BY <1>9 DEF Idle
  <2>2. /\ DOMAIN running' = Core /\ running'[c] = "no"
        /\ \A d \in Core : d # c => running'[d] = running[d]
    BY <1>1, <2>1
  <2>3. \A d \in Core : Busy(d)' => Busy(d)
    BY <2>1, <2>2 DEF Busy
  <2>4. \A x \in old : x \in old' \/ (x = <<"core", c>> /\ ~Busy(c)')
    BY <2>1, <2>2 DEF Busy
  <2> QED BY <1>1, <1>2, <1>3, <1>4, <2>1, <2>2, <2>3, <2>4 DEF QuietStep
<1>10. CASE EndEngine(c)
  <2>1. UNCHANGED <<running, halted, left, old>>
    BY <1>10 DEF EndEngine
  <2>2. /\ DOMAIN irq' = Core /\ DOMAIN engines' = Core /\ engines[c] # {}
        /\ \A d \in Core : d # c => irq'[d] = irq[d] /\ engines'[d] = engines[d]
    BY <1>1, <1>10 DEF EndEngine
  <2>3. \A d \in Core : Busy(d)' => Busy(d)
    BY <2>1, <2>2 DEF Busy
  <2> QED BY <1>1, <1>2, <1>3, <1>4, <2>1, <2>2, <2>3 DEF QuietStep
<1> QED BY <1>5, <1>7, <1>8, <1>9, <1>10

\* A quiet step keeps the invariant: a busy core was busy before.
LEMMA QuietKeeps ==
  ASSUME FlowInv, QuietStep
  PROVE  FlowInv'
<1>1. /\ FlowTypes /\ Stages /\ SignOffReads /\ WritesOnce /\ Watched /\ Settled
      /\ WritesKept /\ InOrder /\ RegistersRight /\ LastWait /\ LoggedTraffic
  BY DEF FlowInv
<1>2. /\ UNCHANGED <<test, stimulusArray, sEntry, signoffArray, signOffStarted, hostMem,
                     unlogged, answers, pc, ncore, stopped>>
      /\ Core' = Core /\ stopped = "no"
  BY DEF QuietStep, Core, Running
<1>3. /\ \A d \in Core : /\ left'[d] <= left[d] /\ (halted[d] => halted'[d])
                         /\ Busy(d)' => Busy(d)
      /\ \A x \in old : x \in old' \/
           \E d \in Core : x = <<"core", d>> /\ (halted'[d] \/ ~Busy(d)')
      /\ left' \in [Core -> Nat]
  BY DEF QuietStep
<1>4. FlowTypes'
  BY <1>1, <1>2 DEF FlowTypes, QuietStep
<1>5. Stages' /\ SignOffReads' /\ LoggedTraffic' /\ DumpComplete'
  BY <1>1, <1>2 DEF Stages, SignOffReads, LoggedTraffic, DumpComplete, NothingPending
<1>6. WritesOnce'
  <2>1. ASSUME NEW d \in Core, NEW n \in Nat, left[d] < n PROVE left'[d] < n
    BY <1>1, <1>3, <2>1 DEF FlowTypes
  <2>2. ASSUME NEW h \in Hosts, NEW i \in 1..Len(answers[h]), answers[h][i].kind = "core"
        PROVE  /\ answers[h][i].no \in Core
               /\ left'[answers[h][i].no] < answers[h][i].nth
               /\ \A j \in 1..Len(answers[h]) : answers[h][j] = answers[h][i] => i = j
    <3>1. /\ answers[h][i].no \in Core
          /\ left[answers[h][i].no] < answers[h][i].nth
          /\ \A j \in 1..Len(answers[h]) : answers[h][j] = answers[h][i] => i = j
      BY <1>1, <2>2 DEF WritesOnce
    <3>2. answers[h] \in Seq(Reads \cup CoreWrites)
      BY <1>1 DEF FlowTypes
    <3>3. answers[h][i] \in Reads \cup CoreWrites
      BY <3>2, Items
    <3>4. answers[h][i].nth \in Nat
      BY <2>2, <3>3, AnswerFields
    <3> QED BY <2>1, <3>1, <3>4
  <2> QED BY <1>2, <2>2 DEF WritesOnce
<1>7. Watched'
  <2>1. SUFFICES ASSUME test.prompt, pc = "lookAgain"
                 PROVE  /\ \A h \in Hosts : sEntry[h] # NoEntry => <<"entry", h>> \in old'
                        /\ \A h \in Hosts : \A i \in 1..Len(answers[h]) :
                             answers[h][i].kind = "core" => <<"answer", h, answers[h][i]>> \in old'
                        /\ \A c \in Core : Busy(c)' /\ ~halted'[c] => <<"core", c>> \in old'
    BY <1>2 DEF Watched
  <2>2. /\ \A h \in Hosts : sEntry[h] # NoEntry => <<"entry", h>> \in old
        /\ \A h \in Hosts : \A i \in 1..Len(answers[h]) :
             answers[h][i].kind = "core" => <<"answer", h, answers[h][i]>> \in old
        /\ \A c \in Core : Busy(c) /\ ~halted[c] => <<"core", c>> \in old
    BY <1>1, <2>1 DEF Watched
  <2>3. \A h \in Hosts : sEntry[h] # NoEntry => <<"entry", h>> \in old'
    BY <1>3, <2>2, Things
  <2>4. \A h \in Hosts : \A i \in 1..Len(answers[h]) :
          answers[h][i].kind = "core" => <<"answer", h, answers[h][i]>> \in old'
    BY <1>3, <2>2, Things
  <2>5. \A c \in Core : Busy(c)' /\ ~halted'[c] => <<"core", c>> \in old'
    BY <1>3, <2>2, Things
  <2> QED BY <2>3, <2>4, <2>5
<1>8. Settled'
  BY <1>1, <1>2, <1>3 DEF Settled
<1>9. WritesKept'
  BY <1>1, <1>2 DEF WritesKept, MemWrites, WaitsAt, IsBack
<1>10. InOrder'
  BY <1>1, <1>2 DEF InOrder, OrderAt, Queued, Coming, RegBack
<1>11. RegistersRight'
  <2>1. \A h \in Hosts : \A c \in Core : Back(h, c)' = Back(h, c)
    BY <1>2 DEF Back
  <2> QED BY <1>1, <1>2, <2>1 DEF RegistersRight
<1>12. LastWait'
  BY ZenonT(40), <1>1, <1>2, <1>3, Things DEF LastWait
<1> QED BY <1>4, <1>5, <1>6, <1>7, <1>8, <1>9, <1>10, <1>11, <1>12 DEF FlowInv

\* A write of a core: what makes it old is that the core is.
LEMMA WriteToHostKeeps ==
  ASSUME FlowInv, NEW c \in Core, WriteToHost(c)
  PROVE  FlowInv'
<1>1. /\ FlowTypes /\ Stages /\ SignOffReads /\ WritesOnce /\ Watched /\ Settled
      /\ WritesKept /\ InOrder /\ RegistersRight /\ LastWait /\ LoggedTraffic
  BY DEF FlowInv
<1>2. /\ UNCHANGED <<test, stimulusArray, sEntry, signoffArray, signOffStarted, hostMem,
                     unlogged, running, halted, irq, engines, pc, ncore, stopped>>
      /\ Core' = Core /\ stopped = "no" /\ running[c] = "program" /\ ~halted[c]
      /\ left[c] > 0 /\ left' = [left EXCEPT ![c] = left[c] - 1]
  BY DEF WriteToHost, Work, CoreStep, portVars, recordVars, flowVars, Core, Running
<1> DEFINE w == [kind |-> "core", no |-> c, nth |-> left[c]]
<1>3. PICK h \in Hosts :
        /\ answers' = [answers EXCEPT ![h] = Append(answers[h], w)]
        /\ old' = IF <<"core", c>> \in old THEN old \cup {<<"answer", h, w>>} ELSE old
  BY DEF WriteToHost
<1> DEFINE q == answers[h]
           t == Append(q, w)
<1>4. q \in Seq(Reads \cup CoreWrites) /\ Len(q) \in Nat
  BY <1>1, Items DEF FlowTypes
<1>5. \A d \in Core : left[d] \in Nat /\ d \in Nat
  BY <1>1, TestFields DEF FlowTypes
<1>6. w \in Reads \cup CoreWrites /\ w.kind = "core" /\ w.no = c /\ w.nth = left[c]
  BY <1>5 DEF CoreWrites
<1> HIDE DEF w
<1>7. /\ t \in Seq(Reads \cup CoreWrites) /\ Len(t) = Len(q) + 1 /\ t[Len(q) + 1] = w
      /\ Len(q) + 1 \in 1..Len(t)
      /\ \A i \in 1..Len(q) : i \in 1..Len(t) /\ t[i] = q[i]
      /\ \A i \in 1..Len(t) : i \in 1..Len(q) \/ i = Len(q) + 1
  BY <1>4, <1>6, Appended
<1> HIDE DEF t
<1>8. /\ answers' \in [Hosts -> Seq(Reads \cup CoreWrites)] /\ answers'[h] = t
      /\ \A g \in Hosts : g # h => answers'[g] = answers[g]
  BY <1>1, <1>3, <1>7 DEF FlowTypes, t
<1>9. /\ left' \in [Core -> Nat] /\ left'[c] = left[c] - 1
      /\ \A d \in Core : d # c => left'[d] = left[d]
      /\ \A d \in Core : left'[d] <= left[d]
  <2>1. left[c] - 1 \in Nat /\ left[c] - 1 <= left[c]
    BY <1>2, <1>5
  <2>2. /\ left' \in [Core -> Nat] /\ left'[c] = left[c] - 1
        /\ \A d \in Core : d # c => left'[d] = left[d]
    BY <1>1, <1>2, <2>1 DEF FlowTypes
  <2> QED BY <1>5, <2>1, <2>2
<1>10. Busy(c) /\ \A d \in Core : Busy(d)' = Busy(d)
  BY <1>2 DEF Busy
<1>11. pc \in Signing \cup {"signOff"} => ~test.prompt
  BY <1>1, <1>2, <1>10 DEF Settled
<1>12. FlowTypes'
  BY <1>1, <1>2, <1>8, <1>9 DEF FlowTypes
<1>13. Stages' /\ SignOffReads' /\ LoggedTraffic' /\ DumpComplete'
  BY <1>1, <1>2 DEF Stages, SignOffReads, LoggedTraffic, DumpComplete, NothingPending
<1>14. Settled' /\ LastWait'
  BY <1>2, <1>11 DEF Settled, LastWait, Signing
<1>15. RegistersRight'
  <2>1. \A g \in Hosts : \A d \in Core : Back(g, d)' = Back(g, d)
    BY <1>2 DEF Back
  <2> QED BY <1>1, <1>2, <2>1 DEF RegistersRight
<1>16. \A g \in Hosts : \A i \in 1..Len(answers'[g]) :
         \/ i \in 1..Len(answers[g]) /\ answers'[g][i] = answers[g][i]
         \/ g = h /\ i = Len(q) + 1 /\ answers'[g][i] = w
  BY <1>7, <1>8
<1>17. \A g \in Hosts : \A i \in 1..Len(answers[g]) :
         /\ answers[g][i] \in Reads \cup CoreWrites
         /\ i \in 1..Len(answers'[g]) /\ answers'[g][i] = answers[g][i]
  <2>1. \A g \in Hosts : answers[g] \in Seq(Reads \cup CoreWrites)
    BY <1>1 DEF FlowTypes
  <2>2. \A g \in Hosts : \A i \in 1..Len(answers[g]) :
          answers[g][i] \in Reads \cup CoreWrites
    BY <2>1, Items
  <2> QED BY <1>7, <1>8, <2>2
<1>18. WritesOnce'
  <2>1. ASSUME NEW g \in Hosts, NEW i \in 1..Len(answers[g]), answers[g][i].kind = "core"
        PROVE  /\ answers[g][i].no \in Core
               /\ left'[answers[g][i].no] < answers[g][i].nth
               /\ answers[g][i] # w
    <3> DEFINE b == answers[g][i]
    <3>1. b.no \in Core /\ left[b.no] < b.nth
      BY <1>1, <2>1 DEF WritesOnce
    <3>2. b.nth \in Nat
      BY <1>17, <2>1, AnswerFields
    <3> HIDE DEF b
    <3>3. left'[b.no] < b.nth
      BY <1>5, <1>9, <3>1, <3>2
    <3>4. b # w
      <4>1. CASE b.no = c
        BY <1>5, <1>6, <3>1, <3>2, <4>1
      <4>2. CASE b.no # c
        BY <1>6, <4>2
      <4> QED BY <4>1, <4>2
    <3> QED BY <3>1, <3>3, <3>4 DEF b
  <2>2. w.no \in Core /\ left'[w.no] < w.nth
    BY <1>5, <1>6, <1>9
  <2>3. SUFFICES ASSUME NEW g \in Hosts, NEW i \in 1..Len(answers'[g]),
                        answers'[g][i].kind = "core"
                 PROVE  /\ answers'[g][i].no \in Core
                        /\ left'[answers'[g][i].no] < answers'[g][i].nth
                        /\ \A j \in 1..Len(answers'[g]) :
                             answers'[g][j] = answers'[g][i] => i = j
    BY <1>2 DEF WritesOnce
  <2>4. CASE i \in 1..Len(answers[g]) /\ answers'[g][i] = answers[g][i]
    <3>1. /\ answers[g][i].no \in Core
          /\ left'[answers[g][i].no] < answers[g][i].nth
          /\ answers[g][i] # w
      BY <2>1, <2>3, <2>4
    <3>2. ASSUME NEW j \in 1..Len(answers'[g]), answers'[g][j] = answers'[g][i]
          PROVE  i = j
      <4>1. j \in 1..Len(answers[g]) /\ answers'[g][j] = answers[g][j]
        BY <1>16, <2>4, <3>1, <3>2
      <4> QED BY <1>1, <2>3, <2>4, <3>2, <4>1 DEF WritesOnce
    <3> QED BY <2>4, <3>1, <3>2
  <2>5. CASE g = h /\ i = Len(q) + 1 /\ answers'[g][i] = w
    <3>1. ASSUME NEW j \in 1..Len(answers'[g]), answers'[g][j] = w
          PROVE  j = i
      <4>1. CASE j \in 1..Len(answers[g]) /\ answers'[g][j] = answers[g][j]
        BY <1>6, <2>1, <3>1, <4>1
      <4>2. CASE j = Len(q) + 1
        BY <2>5, <4>2
      <4> QED BY <1>16, <4>1, <4>2
    <3> QED BY <2>2, <2>5, <3>1
  <2> QED BY <1>16, <2>4, <2>5
<1>19. Watched'
  <2>1. SUFFICES ASSUME test.prompt, pc = "lookAgain"
                 PROVE  /\ \A g \in Hosts : sEntry[g] # NoEntry => <<"entry", g>> \in old'
                        /\ \A g \in Hosts : \A i \in 1..Len(answers'[g]) :
                             answers'[g][i].kind = "core" =>
                               <<"answer", g, answers'[g][i]>> \in old'
                        /\ \A d \in Core : Busy(d) /\ ~halted[d] => <<"core", d>> \in old'
    BY <1>2, <1>10 DEF Watched
  <2>2. /\ \A g \in Hosts : sEntry[g] # NoEntry => <<"entry", g>> \in old
        /\ \A g \in Hosts : \A i \in 1..Len(answers[g]) :
             answers[g][i].kind = "core" => <<"answer", g, answers[g][i]>> \in old
        /\ \A d \in Core : Busy(d) /\ ~halted[d] => <<"core", d>> \in old
    BY <1>1, <2>1 DEF Watched
  <2>3. \A x \in old : x \in old'
    BY <1>3
  <2>4. <<"answer", h, w>> \in old'
    BY <1>2, <1>3, <1>10, <2>2
  <2> QED BY <1>16, <2>2, <2>3, <2>4
<1>20. WritesKept'
  <2>1. \A g \in Hosts : \A no :
          WaitsAt(g, no) \/ IsBack(g, no) => WaitsAt(g, no)' \/ IsBack(g, no)'
    BY <1>2, <1>17 DEF WaitsAt, IsBack
  <2> QED BY <1>1, <1>2, <2>1 DEF WritesKept, MemWrites
<1>21. InOrder'
  <2>1. SUFFICES ASSUME NEW g \in Hosts PROVE OrderAt(g)'
    BY DEF InOrder
  <2>2. OrderAt(g)
    BY <1>1 DEF InOrder
  <2>3. \A i \in 1..Len(answers'[g]) : answers'[g][i].kind # "core" =>
          i \in 1..Len(answers[g]) /\ answers'[g][i] = answers[g][i]
    BY <1>6, <1>16
  <2>4. /\ Coming(g, "regRead")' => Coming(g, "regRead")
        /\ Coming(g, "memRead")' => Coming(g, "memRead")
    BY <2>3 DEF Coming
  <2>5. \A i, j \in 1..Len(answers'[g]) :
          answers'[g][i].kind = "regRead" /\ answers'[g][j].kind = "memRead" => j < i
    BY <2>2, <2>3 DEF OrderAt
  <2>6. /\ Queued(g, "regRead")' = Queued(g, "regRead") /\ RegBack(g)' = RegBack(g)
        /\ Queued(g, "memRead")' = Queued(g, "memRead")
    BY <1>2 DEF Queued, RegBack
  <2> QED BY <1>2, <2>2, <2>4, <2>5, <2>6 DEF OrderAt
<1> QED BY <1>12, <1>13, <1>14, <1>15, <1>18, <1>19, <1>20, <1>21 DEF FlowInv

-----------------------------------------------------------------------------
(***************************************************************************)
(* The theorems.                                                           *)
(***************************************************************************)

\* A step in which nothing happens.
LEMMA StutterKeeps ==
  ASSUME FlowInv, UNCHANGED vars
  PROVE  FlowInv'
<1>1. UNCHANGED <<test, stimulusArray, sEntry, signoffArray, signOffStarted, hostMem,
                  unlogged, answers, running, halted, irq, engines, left, old, pc, ncore,
                  stopped>>
  BY DEF vars, portVars, recordVars, chipVars, coreVars, flowVars
<1>2. Core' = Core
  BY <1>1 DEF Core
<1>3. FlowTypes' /\ Stages' /\ SignOffReads' /\ WritesOnce'
  BY <1>1, <1>2 DEF FlowInv, FlowTypes, Stages, SignOffReads, WritesOnce, NothingPending
<1>4. Watched' /\ Settled' /\ LastWait'
  BY <1>1, <1>2 DEF FlowInv, Watched, Settled, LastWait, Busy
<1>5. WritesKept' /\ InOrder'
  BY <1>1 DEF FlowInv, WritesKept, MemWrites, WaitsAt, IsBack, InOrder, OrderAt, Queued,
              Coming, RegBack
<1>6. RegistersRight' /\ LoggedTraffic' /\ DumpComplete'
  <2>1. \A h \in Hosts : \A c \in Core : Back(h, c)' = Back(h, c)
    BY <1>1 DEF Back
  <2> QED BY <1>1, <1>2, <2>1 DEF FlowInv, RegistersRight, LoggedTraffic, DumpComplete
<1> QED BY <1>3, <1>4, <1>5, <1>6 DEF FlowInv

\* Every step keeps the invariant.
LEMMA FlowNext ==
  ASSUME FlowInv, [Next]_vars
  PROVE  FlowInv'
<1>1. FlowTypes
  BY DEF FlowInv
<1>2. CASE \/ WaitLoad \/ Suspend \/ ResumeSuspended \/ Resumed
           \/ StartRound \/ SkipDone \/ ReadTimers \/ ReadILAT \/ ReadDMAStatus \/ ReadStatus
           \/ DMAErrorReported \/ Finilize \/ Done
           \/ NotDone \/ ReadOpcode \/ ResumeBreakpoint
  BY <1>1, <1>2, EarlySteps, EarlyKeeps
<1>3. CASE FirstLook \/ SecondLook \/ WaitSignOff \/ LastLook \/ StopTest
  BY <1>3, FirstLookKeeps, SecondLookKeeps, WaitSignOffKeeps, LastLookKeeps, StopTestKeeps
<1>4. CASE DispathSignOff \/ TurnOffClockGating \/ WriteRegisters \/ ReadRegisters
           \/ RegistersBack
  BY <1>4, DispathSignOffKeeps, DrivesKeep, RegistersBackKeeps
<1>5. CASE Timeout
  BY <1>5, TimeoutKeeps
<1>6. ASSUME NEW h \in Hosts, PortStep(h) \/ Answer(h)
      PROVE  FlowInv'
  BY <1>6, PopKeeps, DeliverKeeps, SampleKeeps DEF PortStep, Answer
<1>7. ASSUME NEW c \in Core, CoreRuns(c) \/ EndEngine(c)
      PROVE  FlowInv'
  <2>1. CASE WriteToHost(c)
    BY <2>1, WriteToHostKeeps
  <2>2. CASE Wake(c) \/ RestartTimer(c) \/ Breakpoint(c) \/ Idle(c) \/ EndEngine(c)
    BY <2>2, QuietSteps, QuietKeeps
  <2> QED BY <1>7, <2>1, <2>2 DEF CoreRuns
<1>8. CASE UNCHANGED vars
  BY <1>8, StutterKeeps
<1> QED BY <1>2, <1>3, <1>4, <1>5, <1>6, <1>7, <1>8 DEF Next, CheckCoreStatus

(***************************************************************************)
(* The invariant holds in every state the program reaches.                 *)
(***************************************************************************)
THEOREM FlowInvariant == Spec => []FlowInv
<1>1. Init => FlowInv
  BY FlowInit
<1>2. FlowInv /\ [Next]_vars => FlowInv'
  BY FlowNext
<1> QED BY <1>1, <1>2, PTL DEF Spec

(***************************************************************************)
(* In a prompt chip no write of a core to a host comes after the sign-off  *)
(* has started, so comparegen looks at the address of each: what runs at   *)
(* the second look of CheckCoreStatus (Watched) has run since the first,   *)
(* which was too long ago for it to be running still.                      *)
(***************************************************************************)
THEOREM TrafficLogged == Spec => []LoggedTraffic
<1>1. FlowInv => LoggedTraffic
  BY DEF FlowInv
<1> QED BY <1>1, FlowInvariant, PTL

(***************************************************************************)
(* When CheckCoreStatus stops the test as done, the host memory holds what *)
(* was read back for every write of every host, and a right register of    *)
(* every core: in a prompt chip for the last wait was long enough, in a    *)
(* slow one for the registers were read after the rest.                    *)
(***************************************************************************)
THEOREM NothingMissing == Spec => []DumpComplete
<1>1. FlowInv => DumpComplete
  BY DEF FlowInv
<1> QED BY <1>1, FlowInvariant, PTL
=============================================================================

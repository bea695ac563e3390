--------------------------- MODULE HostPortProofs ---------------------------
(***************************************************************************)
(* Theorems about HostPort, for every value of its constants: its types,   *)
(* the priority of answers, the exactly-once, in-order delivery of every   *)
(* class, the refinement of the channel, and the sign-off.                 *)
(***************************************************************************)
EXTENDS HostPort, SequenceTheorems, FiniteSetTheorems, WellFoundedInduction, TLAPS

(***************************************************************************)
(* Sets of natural numbers have a least element.                           *)
(***************************************************************************)
LEMMA LeastElement ==
  ASSUME NEW S, S \subseteq Nat, S # {}
  PROVE  \E i \in S : \A j \in S : i <= j
<1> DEFINE R == {ss \in Nat \X Nat : ss[1] < ss[2]}
<1>1. IsWellFoundedOn(R, Nat)
  BY NatLessThanWellFounded DEF OpToRel
<1>2. \E i \in S : \A j \in S : <<j, i>> \notin R
  <2> HIDE DEF R
  <2>1. QED BY <1>1, WFMin
<1>3. ASSUME NEW i \in S, NEW j \in S, <<j, i>> \notin R PROVE i <= j
  BY <1>3
<1>4. QED BY <1>2, <1>3

(***************************************************************************)
(* The element at each place of a sequence after an insertion.             *)
(***************************************************************************)
LEMMA InsertAtProperties ==
  ASSUME NEW S, NEW s \in Seq(S), NEW e \in S, NEW p \in 1..(Len(s) + 1)
  PROVE  /\ InsertAt(s, p, e) \in Seq(S)
         /\ Len(InsertAt(s, p, e)) = Len(s) + 1
         /\ \A i \in 1..(Len(s) + 1) : InsertAt(s, p, e)[i] =
              IF i < p THEN s[i] ELSE IF i = p THEN e ELSE s[i - 1]
<1> DEFINE a == SubSeq(s, 1, p - 1)
           b == SubSeq(s, p, Len(s))
           ae == a \o <<e>>
<1>1. Len(s) \in Nat /\ p \in Int /\ \A i \in 1..Len(s) : s[i] \in S
  BY LenProperties, ElementOfSeq
<1>2. /\ a \in Seq(S) /\ Len(a) = p - 1
      /\ \A i \in 1..(p - 1) : a[i] = s[i]
  <2>1. \A i \in 1..(p - 1) : s[i] \in S BY <1>1
  <2>2. /\ a \in Seq(S)
        /\ Len(a) = IF 1 <= p - 1 THEN (p - 1) - 1 + 1 ELSE 0
        /\ \A i \in 1..((p - 1) - 1 + 1) : a[i] = s[1 + i - 1]
    BY <1>1, <2>1, SubSeqProperties
  <2>3. QED BY <1>1, <2>2
<1>3. /\ b \in Seq(S) /\ Len(b) = Len(s) - p + 1
      /\ \A i \in 1..(Len(s) - p + 1) : b[i] = s[p + i - 1]
  <2>1. \A i \in p..Len(s) : s[i] \in S BY <1>1
  <2>2. /\ b \in Seq(S)
        /\ Len(b) = IF p <= Len(s) THEN Len(s) - p + 1 ELSE 0
        /\ \A i \in 1..(Len(s) - p + 1) : b[i] = s[p + i - 1]
    BY <1>1, <2>1, SubSeqProperties
  <2>3. QED BY <1>1, <2>2
<1> HIDE DEF a, b
<1>4. <<e>> \in Seq(S) /\ Len(<<e>>) = 1 /\ <<e>>[1] = e
  OBVIOUS
<1>5. /\ ae \in Seq(S) /\ Len(ae) = p
      /\ \A i \in 1..p : ae[i] = IF i <= p - 1 THEN a[i] ELSE <<e>>[i - (p - 1)]
  BY <1>1, <1>2, <1>4, ConcatProperties
<1> HIDE DEF ae
<1>6. /\ ae \o b \in Seq(S) /\ Len(ae \o b) = p + (Len(s) - p + 1)
      /\ \A i \in 1..(p + (Len(s) - p + 1)) :
           (ae \o b)[i] = IF i <= p THEN ae[i] ELSE b[i - p]
  BY <1>1, <1>3, <1>5, ConcatProperties
<1>7. InsertAt(s, p, e) = ae \o b
  BY DEF InsertAt, ae, a, b
<1>8. ASSUME NEW i \in 1..(Len(s) + 1)
      PROVE  (ae \o b)[i] = IF i < p THEN s[i] ELSE IF i = p THEN e ELSE s[i - 1]
  <2>1. CASE i < p BY <1>1, <1>2, <1>5, <1>6, <2>1
  <2>2. CASE i = p BY SMTT(30), <1>1, <1>4, <1>5, <1>6, <2>2
  <2>3. CASE i > p
    <3>1. i - p \in 1..(Len(s) - p + 1) /\ p + (i - p) - 1 = i - 1
      BY <1>1, <2>3
    <3>2. b[i - p] = s[p + (i - p) - 1] BY <1>3, <3>1
    <3>3. QED BY <1>1, <1>6, <2>3, <3>1, <3>2
  <2>4. i < p \/ i = p \/ i > p BY <1>1
  <2>5. QED BY <2>1, <2>2, <2>3, <2>4
<1>9. QED BY <1>1, <1>6, <1>7, <1>8

(***************************************************************************)
(* AddWriteBackStimulus inserts at a place of the queue that has only      *)
(* answers and ILAT writes before it, and neither at it.                   *)
(***************************************************************************)
LEMMA InsertPointProperties ==
  ASSUME NEW q \in Seq(Entry)
  PROVE  /\ InsertPoint(q) \in 1..(Len(q) + 1)
         /\ \A i \in 1..Len(q) : i < InsertPoint(q) => LetsPass(q[i])
         /\ InsertPoint(q) <= Len(q) => ~LetsPass(q[InsertPoint(q)])
<1>1. Len(q) \in Nat
  OBVIOUS
<1>2. CASE Stops(q) = {}
  BY <1>1, <1>2 DEF InsertPoint, Stops
<1>3. CASE Stops(q) # {}
  <2>1. Stops(q) \subseteq 1..Len(q) /\ Stops(q) \subseteq Nat
    BY <1>1 DEF Stops
  <2>2. \E i \in Stops(q) : \A j \in Stops(q) : i <= j
    BY <1>3, <2>1, LeastElement
  <2>3. /\ InsertPoint(q) \in Stops(q)
        /\ \A j \in Stops(q) : InsertPoint(q) <= j
    BY <1>3, <2>2 DEF InsertPoint
  <2>4. ASSUME NEW i \in 1..Len(q), i < InsertPoint(q) PROVE LetsPass(q[i])
    <3>1. i \notin Stops(q) BY <1>1, <2>1, <2>3, <2>4
    <3>2. QED BY <3>1 DEF Stops
  <2>5. ~LetsPass(q[InsertPoint(q)])
    BY <2>3 DEF Stops
  <2>6. QED BY <1>1, <2>1, <2>3, <2>4, <2>5
<1>4. QED BY <1>2, <1>3

LEMMA AddWriteBackStimulusType ==
  ASSUME NEW q \in Seq(Entry), NEW e \in Entry
  PROVE  AddWriteBackStimulus(q, e) \in Seq(Entry)
BY InsertPointProperties, InsertAtProperties DEF AddWriteBackStimulus
-----------------------------------------------------------------------------
(***************************************************************************)
(* Types.                                                                  *)
(***************************************************************************)
LEMMA InitType == Init => TypeOK
<1> SUFFICES ASSUME Init PROVE TypeOK
  OBVIOUS
<1>1. regKind \in Seq(Kind) /\ Len(regKind) \in Nat
  BY HostPortAssumption DEF Init
<1>2. stimulusArray \in Seq(Entry)
  BY <1>1 DEF Init, Entry, Class
<1>3. signoffArray \in Seq(Entry) /\ addrLog \in Seq(Nat) /\ asked \in Seq(Nat)
  BY DEF Init
<1>4. sEntry \in Entry /\ bus \in Entry /\ dutBus \in Request
  BY DEF Init, NoEntry, Entry, Class, Kind, NoRequest, Request
<1>5. sub \in [Class -> Nat] /\ com \in [Class -> Nat] /\ got \in [Class -> Seq(Entry)]
  BY <1>1 DEF Init
<1>6. /\ isSpi \in BOOLEAN /\ signOffStarted \in BOOLEAN /\ aborted \in BOOLEAN
      /\ dut_wr_wait \in BOOLEAN /\ dut_rd_wait \in BOOLEAN
  BY DEF Init
<1>7. /\ signPoint \in Nat /\ pc \in {"idle", "delay", "hold"}
      /\ do_wait \in Nat /\ chip_slave_wait \in 0..HoldLimit
      /\ backoff \in 0..MaxBackoff /\ hostMem \in Nat /\ written \in Nat
      /\ todo \subseteq Thread
  BY HostPortAssumption DEF Init
<1>8. QED
  BY <1>1, <1>2, <1>3, <1>4, <1>5, <1>6, <1>7 DEF TypeOK

LEMMA DriveType ==
  ASSUME TypeOK, Drive
  PROVE  TypeOK'
<1> USE DEF DriveStep, queueVars, driveVars, sampleVars, dutVars, clientVars
<1>1. todo' \subseteq Thread
  BY DEF TypeOK, Drive, SpiWaitError, NoMoreStimulus, StrayStimulus, PopStimulus,
         CountDown, HoldStimulus, ChipStuck
<1>2. CASE SpiWaitError
  BY <1>1, <1>2 DEF TypeOK, SpiWaitError
<1>3. CASE NoMoreStimulus
  <2>1. NoEntry \in Entry BY DEF NoEntry, Entry, Class, Kind
  <2>2. QED BY <1>1, <1>3, <2>1, HostPortAssumption DEF TypeOK, NoMoreStimulus
<1>4. CASE StrayStimulus
  <2>1. Head(stimulusArray) \in Entry /\ Tail(stimulusArray) \in Seq(Entry)
    BY <1>4, HeadTailProperties DEF TypeOK, StrayStimulus
  <2> DEFINE c == Head(stimulusArray).cls
  <2>2. com' \in [Class -> Nat]
    <3>1. c \in Class BY <2>1 DEF Entry
    <3>2. com' = [com EXCEPT ![c] = @ + 1] BY <1>4 DEF StrayStimulus
    <3> HIDE DEF c
    <3>3. QED BY SMTT(30), <3>1, <3>2 DEF TypeOK, Class
  <2>3. QED BY <1>1, <1>4, <2>1, <2>2 DEF TypeOK, StrayStimulus
<1>5. CASE PopStimulus
  <2> DEFINE e == Head(stimulusArray)
  <2>1. e \in Entry /\ Tail(stimulusArray) \in Seq(Entry)
    BY <1>5, HeadTailProperties DEF TypeOK, PopStimulus
  <2>2. com' \in [Class -> Nat]
    <3>1. e.cls \in Class BY <2>1 DEF Entry
    <3>2. com' = [com EXCEPT ![e.cls] = @ + 1] BY <1>5 DEF PopStimulus
    <3> HIDE DEF e
    <3>3. QED BY SMTT(30), <3>1, <3>2 DEF TypeOK, Class
  <2>3. SignOffRead(e) \in Entry
    BY <2>1 DEF SignOffRead, Entry, Kind
  <2>4. signoffArray' \in Seq(Entry)
    BY <1>5, <2>3, AppendProperties DEF TypeOK, PopStimulus
  <2>5. /\ bus' \in Entry /\ pc' \in {"delay", "hold"}
        /\ do_wait' \in Nat /\ chip_slave_wait' \in 0..HoldLimit
    <3>1. NoEntry \in Entry BY DEF NoEntry, Entry, Class, Kind
    <3>2. e.delay \in Nat BY <2>1 DEF Entry
    <3>3. QED BY <1>5, <2>1, <3>1, <3>2, HostPortAssumption
              DEF PopStimulus, Present, Withhold
  <2>6. QED BY <1>1, <1>5, <2>1, <2>2, <2>4, <2>5 DEF TypeOK, PopStimulus
<1>6. CASE CountDown
  <2>1. NoEntry \in Entry BY DEF NoEntry, Entry, Class, Kind
  <2>2. /\ bus' \in Entry /\ pc' \in {"delay", "hold"}
        /\ do_wait' \in Nat /\ chip_slave_wait' \in 0..HoldLimit
    BY <1>6, <2>1, HostPortAssumption DEF TypeOK, CountDown, Present, Withhold
  <2>3. QED BY <1>1, <1>6, <2>2 DEF TypeOK, CountDown
<1>7. CASE HoldStimulus
  BY <1>1, <1>7, HostPortAssumption DEF TypeOK, HoldStimulus
<1>8. CASE ChipStuck
  BY <1>1, <1>8 DEF TypeOK, ChipStuck
<1>9. QED
  BY <1>2, <1>3, <1>4, <1>5, <1>6, <1>7, <1>8 DEF Drive

LEMMA SampleType ==
  ASSUME TypeOK, Sample
  PROVE  TypeOK'
<1> USE DEF SampleStep, queueVars, driveVars, sampleVars, dutVars, clientVars
<1>1. todo' \subseteq Thread
  BY DEF TypeOK, Sample, BackPressure, NoAccess, SpiReadError, OutOfRange, SampleRead, SampleWrite
<1>2. CASE BackPressure
  BY <1>1, <1>2, HostPortAssumption DEF TypeOK, BackPressure
<1>3. ASSUME ChooseBackoff PROVE backoff' \in 0..MaxBackoff
  BY <1>3, HostPortAssumption DEF ChooseBackoff
<1>4. CASE NoAccess
  BY <1>1, <1>3, <1>4 DEF TypeOK, NoAccess
<1>5. CASE SpiReadError \/ OutOfRange
  <2>1. CASE SpiReadError
    BY <1>1, <2>1 DEF TypeOK, SpiReadError
  <2>2. CASE OutOfRange
    BY <1>1, <2>2 DEF TypeOK, OutOfRange
  <2>3. QED BY <1>5, <2>1, <2>2
<1>6. CASE SampleRead
  <2>1. stimulusArray' \in Seq(Entry)
    <3>1. PICK d \in Delays :
            stimulusArray' = AddWriteBackStimulus(stimulusArray,
              [cls |-> "wb", no |-> dutBus.no, kind |-> "write", delay |-> d,
               ref |-> hostMem])
      BY <1>6 DEF SampleRead
    <3>2. [cls |-> "wb", no |-> dutBus.no, kind |-> "write", delay |-> d,
           ref |-> hostMem] \in Entry
      BY HostPortAssumption DEF TypeOK, Entry, Class, Kind, Request
    <3>3. QED BY <3>1, <3>2, AddWriteBackStimulusType DEF TypeOK
  <2>2. sub' \in [Class -> Nat]
    BY <1>6 DEF TypeOK, SampleRead, Class
  <2>3. QED BY <1>1, <1>3, <1>6, <2>1, <2>2 DEF TypeOK, SampleRead
<1>7. CASE SampleWrite
  <2>1. dutBus.no \in Nat BY DEF TypeOK, Request
  <2>2. hostMem' \in Nat /\ addrLog' \in Seq(Nat)
    BY <1>7, <2>1, AppendProperties DEF TypeOK, SampleWrite
  <2>3. QED BY <1>1, <1>3, <1>7, <2>2 DEF TypeOK, SampleWrite
<1>8. QED
  BY <1>2, <1>4, <1>5, <1>6, <1>7 DEF Sample

LEMMA RisingEdgeType ==
  ASSUME TypeOK, RisingEdge
  PROVE  TypeOK'
<1> USE DEF queueVars, driveVars, sampleVars, dutVars, clientVars
<1>1. got' \in [Class -> Seq(Entry)]
  <2>1. CASE Accepted
    <3>1. bus.cls \in Class BY DEF TypeOK, Entry
    <3>2. got' = [got EXCEPT ![bus.cls] = Append(got[bus.cls], bus)]
      BY <2>1 DEF RisingEdge, SlaveInterface
    <3>3. Append(got[bus.cls], bus) \in Seq(Entry)
      BY <3>1, AppendProperties DEF TypeOK
    <3>4. QED BY <3>1, <3>2, <3>3 DEF TypeOK
  <2>2. CASE ~Accepted
    BY <2>2 DEF RisingEdge, SlaveInterface, TypeOK
  <2>3. QED BY <2>1, <2>2
<1>2. dut_wr_wait' \in BOOLEAN /\ dut_rd_wait' \in BOOLEAN
  BY DEF RisingEdge, SlaveInterface
<1>3. dutBus' \in Request /\ written' \in Nat /\ asked' \in Seq(Nat)
  <2>1. NoRequest \in Request BY DEF NoRequest, Request
  <2>2. Len(asked) \in Nat BY DEF TypeOK
  <2>3. ASSUME NEW b \in BOOLEAN, NEW n \in Nat
        PROVE  [write |-> b, no |-> n] \in Request
    BY DEF Request
  <2>4. Len(asked) + 1 \in Nat /\ written + 1 \in Nat
    BY <2>2 DEF TypeOK
  <2>5. Append(asked, written) \in Seq(Nat)
    BY AppendProperties DEF TypeOK
  <2>6. dutBus' \in Request
    <3>1. \/ dutBus' = dutBus \/ dutBus' = NoRequest
          \/ dutBus' = [write |-> FALSE, no |-> Len(asked) + 1]
          \/ dutBus' = [write |-> TRUE, no |-> written + 1]
      BY DEF RisingEdge, MasterInterface
    <3>2. dutBus \in Request BY DEF TypeOK
    <3>3. QED BY <2>1, <2>3, <2>4, <3>1, <3>2
  <2>7. written' \in Nat /\ asked' \in Seq(Nat)
    BY <2>4, <2>5 DEF RisingEdge, MasterInterface, TypeOK
  <2>8. QED BY <2>6, <2>7
<1>4. todo' \subseteq Thread
  BY DEF RisingEdge
<1>5. QED
  BY <1>1, <1>2, <1>3, <1>4 DEF RisingEdge, TypeOK

LEMMA ClientType ==
  ASSUME TypeOK, AddStimulus \/ DispathSignOff
  PROVE  TypeOK'
<1> USE DEF queueVars, driveVars, sampleVars, dutVars, clientVars
<1>1. CASE AddStimulus
  <2>1. PICK k \in ClientKind, d \in Delays :
          /\ regKind' = Append(regKind, k)
          /\ sub' = [sub EXCEPT !["reg"] = @ + 1]
          /\ stimulusArray' = Append(stimulusArray,
               [cls |-> "reg", no |-> sub["reg"] + 1, kind |-> k,
                delay |-> d, ref |-> 0])
    BY <1>1 DEF AddStimulus
  <2>2. sub["reg"] + 1 \in Nat /\ sub' \in [Class -> Nat]
    BY SMTT(30), <2>1 DEF TypeOK, Class
  <2>3. [cls |-> "reg", no |-> sub["reg"] + 1, kind |-> k, delay |-> d, ref |-> 0]
          \in Entry
    BY <2>2, HostPortAssumption DEF Entry, Class, Kind, ClientKind
  <2>4. stimulusArray' \in Seq(Entry)
    BY <2>1, <2>3, AppendProperties DEF TypeOK
  <2>5. regKind' \in Seq(Kind)
    BY <2>1, AppendProperties DEF TypeOK, ClientKind, Kind
  <2>6. QED BY <1>1, <2>2, <2>4, <2>5 DEF TypeOK, AddStimulus
<1>2. CASE DispathSignOff
  <2> DEFINE r == [i \in 1..Len(signoffArray) |->
                     [signoffArray[i] EXCEPT !.no = sub["reg"] + i]]
             k == [i \in 1..Len(signoffArray) |-> "read"]
  <2>1. Len(signoffArray) \in Nat /\ sub["reg"] \in Nat /\ com["reg"] \in Nat
    BY DEF TypeOK, Class
  <2>2. r \in Seq(Entry)
    <3>1. ASSUME NEW i \in 1..Len(signoffArray)
          PROVE  [signoffArray[i] EXCEPT !.no = sub["reg"] + i] \in Entry
      <4>1. signoffArray[i] \in Entry /\ sub["reg"] + i \in Nat
        BY <2>1, ElementOfSeq DEF TypeOK
      <4>2. QED BY <4>1 DEF Entry
    <3>2. QED BY <2>1, <3>1
  <2>3. k \in Seq(Kind)
    BY <2>1 DEF Kind
  <2>4. stimulusArray' = stimulusArray \o r /\ regKind' = regKind \o k
    BY <1>2 DEF DispathSignOff
  <2> HIDE DEF r, k
  <2>5. stimulusArray' \in Seq(Entry) /\ regKind' \in Seq(Kind)
    BY <2>2, <2>3, <2>4, ConcatProperties DEF TypeOK
  <2>6. sub' \in [Class -> Nat] /\ signPoint' \in Nat
    BY SMTT(30), <1>2, <2>1 DEF DispathSignOff, TypeOK, Class
  <2>7. QED BY <1>2, <2>5, <2>6 DEF TypeOK, DispathSignOff
<1>3. QED BY <1>1, <1>2

LEMMA NextType == TypeOK /\ [Next]_vars => TypeOK'
<1> SUFFICES ASSUME TypeOK, [Next]_vars PROVE TypeOK'
  OBVIOUS
<1>1. CASE UNCHANGED vars
  BY <1>1 DEF vars, queueVars, driveVars, sampleVars, dutVars, clientVars, TypeOK
<1>2. CASE Stopped
  BY <1>1, <1>2 DEF Stopped
<1>3. QED
  BY <1>1, <1>2, DriveType, SampleType, RisingEdgeType, ClientType DEF Next

(***************************************************************************)
(* Every state of a run has its types: in particular the driver counts no  *)
(* more than HoldLimit cycles of the chip's wait, and no queue holds       *)
(* anything but an entry, whatever the threads' order.                     *)
(***************************************************************************)
THEOREM TypeCorrect == Spec => []TypeOK
BY InitType, NextType, PTL DEF Spec
-----------------------------------------------------------------------------
LEMMA EntryFields ==
  ASSUME NEW q \in Seq(Entry), NEW i \in 1..Len(q)
  PROVE  q[i] \in Entry /\ q[i].cls \in Class /\ q[i].no \in Nat
<1>1. q[i] \in Entry BY ElementOfSeq
<1>2. QED BY <1>1 DEF Entry

(***************************************************************************)
(* The head of a numbered queue is the next of its class.                  *)
(***************************************************************************)
LEMMA NumberedHead ==
  ASSUME NEW q \in Seq(Entry), q # <<>>,
         NEW lo \in [Class -> Nat], NEW hi \in [Class -> Nat],
         Numbered(q, lo, hi)
  PROVE  /\ Head(q).no = lo[Head(q).cls] + 1
         /\ lo[Head(q).cls] < hi[Head(q).cls]
<1> DEFINE c == q[1].cls
           n == lo[c] + 1
<1>1. /\ Len(q) \in Nat \ {0} /\ 1 \in 1..Len(q) /\ Head(q) = q[1]
      /\ q[1] \in Entry
  BY ElementOfSeq
<1>2. c \in Class /\ q[1].no \in Nat /\ lo[c] \in Nat /\ hi[c] \in Nat
  BY <1>1 DEF Entry
<1>3. lo[c] < q[1].no /\ q[1].no <= hi[c]
  BY <1>1 DEF Numbered
<1>4. n \in (lo[c] + 1)..hi[c]
  BY <1>2, <1>3
<1>5. PICK i \in 1..Len(q) : q[i].cls = c /\ q[i].no = n
  BY <1>2, <1>4 DEF Numbered
<1>6. q[1].no <= n
  <2>1. CASE i = 1 BY <1>5, <2>1, <1>2
  <2>2. CASE i # 1
    <3>1. 1 < i BY <1>1, <2>2
    <3>2. q[1].no < q[i].no BY <1>1, <1>5, <3>1 DEF Numbered
    <3>3. QED BY <1>2, <1>5, <3>2
  <2>3. QED BY <2>1, <2>2
<1>7. q[1].no = n
  BY <1>2, <1>3, <1>6
<1>8. QED BY <1>1, <1>2, <1>3, <1>7

LEMMA NumberedTail ==
  ASSUME NEW q \in Seq(Entry), q # <<>>,
         NEW lo \in [Class -> Nat], NEW hi \in [Class -> Nat],
         Numbered(q, lo, hi)
  PROVE  Numbered(Tail(q), [lo EXCEPT ![Head(q).cls] = @ + 1], hi)
<1> DEFINE t == Tail(q)
           h == q[1].cls
           l == [lo EXCEPT ![h] = lo[h] + 1]
<1>1. /\ Len(q) \in Nat \ {0} /\ Head(q) = q[1] /\ q[1] \in Entry
      /\ Len(t) = Len(q) - 1
      /\ \A i \in 1..Len(t) : t[i] = q[i + 1] /\ i + 1 \in 1..Len(q)
  BY HeadTailProperties, ElementOfSeq
<1>2. h \in Class /\ \A i \in 1..Len(q) : q[i].cls \in Class /\ q[i].no \in Nat
  <2>1. 1 \in 1..Len(q) BY <1>1
  <2>2. QED BY <2>1, EntryFields
<1>3. q[1].no = lo[h] + 1
  BY <1>1, NumberedHead
<1>4. \A c \in Class : lo[c] \in Nat /\ hi[c] \in Nat
                       /\ l[c] = IF c = h THEN lo[c] + 1 ELSE lo[c]
  OBVIOUS
<1> HIDE DEF t, l
<1>5. ASSUME NEW i \in 1..Len(t)
      PROVE  l[t[i].cls] < t[i].no /\ t[i].no <= hi[t[i].cls]
  <2>1. t[i] = q[i + 1] /\ i + 1 \in 1..Len(q) /\ 1 \in 1..Len(q) /\ 1 < i + 1
    BY <1>1
  <2>2. lo[t[i].cls] < t[i].no /\ t[i].no <= hi[t[i].cls]
    BY <2>1 DEF Numbered
  <2>3. t[i].cls = h => q[1].no < t[i].no
    BY <2>1 DEF Numbered
  <2>4. t[i].cls \in Class /\ t[i].no \in Nat
    BY <1>2, <2>1
  <2>5. QED BY <1>2, <1>3, <1>4, <2>2, <2>3, <2>4
<1>6. ASSUME NEW i \in 1..Len(t), NEW j \in 1..Len(t), i < j, t[i].cls = t[j].cls
      PROVE  t[i].no < t[j].no
  <2>1. /\ t[i] = q[i + 1] /\ i + 1 \in 1..Len(q)
        /\ t[j] = q[j + 1] /\ j + 1 \in 1..Len(q) /\ i + 1 < j + 1
    BY <1>1, <1>6
  <2>2. QED BY <1>6, <2>1 DEF Numbered
<1>7. ASSUME NEW c \in Class, NEW n \in (l[c] + 1)..hi[c]
      PROVE  \E i \in 1..Len(t) : t[i].cls = c /\ t[i].no = n
  <2>1. n \in (lo[c] + 1)..hi[c] /\ (c = h => n # lo[h] + 1)
    BY <1>4
  <2>2. PICK i \in 1..Len(q) : q[i].cls = c /\ q[i].no = n
    BY <2>1 DEF Numbered
  <2>3. i # 1
    BY <1>3, <2>1, <2>2
  <2>4. i - 1 \in 1..Len(t) /\ (i - 1) + 1 = i
    BY <1>1, <2>3
  <2>5. t[i - 1] = q[i]
    BY <1>1, <2>4
  <2>6. QED BY <2>2, <2>4, <2>5
<1>8. \A c \in Class : l[c] <= hi[c]
  <2>1. \A c \in Class : lo[c] <= hi[c] BY DEF Numbered
  <2>2. lo[h] < hi[h] BY <1>1, NumberedHead
  <2>3. QED BY <1>4, <2>1, <2>2
<1>9. Numbered(t, l, hi)
  BY <1>5, <1>6, <1>7, <1>8 DEF Numbered
<1>10. QED BY <1>1, <1>9 DEF t, l

(***************************************************************************)
(* Submitted entries go behind all others of their class.                  *)
(***************************************************************************)
LEMMA NumberedConcat ==
  ASSUME NEW q \in Seq(Entry), NEW r \in Seq(Entry),
         NEW lo \in [Class -> Nat], NEW hi \in [Class -> Nat],
         Numbered(q, lo, hi),
         \A i \in 1..Len(r) : r[i].cls = "reg" /\ r[i].no = hi["reg"] + i
  PROVE  Numbered(q \o r, lo, [hi EXCEPT !["reg"] = @ + Len(r)])
<1> DEFINE s == q \o r
           h == [hi EXCEPT !["reg"] = hi["reg"] + Len(r)]
<1>1. /\ Len(q) \in Nat /\ Len(r) \in Nat /\ Len(s) = Len(q) + Len(r)
      /\ \A i \in 1..Len(s) : s[i] = IF i <= Len(q) THEN q[i] ELSE r[i - Len(q)]
  BY ConcatProperties
<1>2. \A i \in 1..Len(q) : q[i].cls \in Class /\ q[i].no \in Nat
  BY EntryFields
<1>3. /\ "reg" \in Class
      /\ \A c \in Class : /\ lo[c] \in Nat /\ hi[c] \in Nat
                          /\ h[c] = IF c = "reg" THEN hi[c] + Len(r) ELSE hi[c]
  BY <1>1 DEF Class
<1>0. ASSUME NEW c \in Class
      PROVE  /\ hi[c] <= h[c] /\ lo[c] \in Nat /\ hi[c] \in Nat /\ h[c] \in Nat
             /\ lo[c] <= h[c]
  <2>1. lo[c] <= hi[c] BY DEF Numbered
  <2>2. QED BY <1>1, <2>1
<1>11. /\ lo["reg"] \in Nat /\ hi["reg"] \in Nat /\ lo["reg"] <= hi["reg"]
       /\ h["reg"] = hi["reg"] + Len(r)
  BY <1>1 DEF Numbered, Class
<1> HIDE DEF s, h
<1>4. \A i \in 1..Len(q) : i \in 1..Len(s) /\ s[i] = q[i]
  BY <1>1
<1>5. \A i \in 1..Len(s) :
        i > Len(q) => s[i].cls = "reg" /\ s[i].no = hi["reg"] + (i - Len(q))
  <2>1. ASSUME NEW i \in 1..Len(s), i > Len(q)
        PROVE  s[i].cls = "reg" /\ s[i].no = hi["reg"] + (i - Len(q))
    <3>1. i - Len(q) \in 1..Len(r) /\ s[i] = r[i - Len(q)] BY <1>1, <2>1
    <3>2. QED BY <3>1
  <2>2. QED BY <2>1
<1>6. ASSUME NEW i \in 1..Len(s)
      PROVE  lo[s[i].cls] < s[i].no /\ s[i].no <= h[s[i].cls]
  <2>1. CASE i <= Len(q)
    <3>1. i \in 1..Len(q) /\ s[i] = q[i] BY <1>1, <1>4, <2>1
    <3>2. lo[q[i].cls] < q[i].no /\ q[i].no <= hi[q[i].cls] BY <3>1 DEF Numbered
    <3>3. q[i].cls \in Class /\ q[i].no \in Nat BY <1>2, <3>1
    <3>4. /\ hi[q[i].cls] <= h[q[i].cls] /\ lo[q[i].cls] \in Nat
          /\ hi[q[i].cls] \in Nat /\ h[q[i].cls] \in Nat
      BY <1>0, <3>3
    <3>5. lo[q[i].cls] < q[i].no /\ q[i].no <= h[q[i].cls]
      BY SMTT(30), <3>2, <3>3, <3>4
    <3>6. QED BY <3>1, <3>5
  <2>2. CASE i > Len(q)
    <3>1. /\ s[i].cls = "reg" /\ s[i].no = hi["reg"] + (i - Len(q))
          /\ i - Len(q) \in 1..Len(r)
      BY <1>1, <1>5, <2>2
    <3>2. /\ lo["reg"] < hi["reg"] + (i - Len(q))
          /\ hi["reg"] + (i - Len(q)) <= h["reg"]
      BY <1>1, <1>11, <3>1
    <3>3. QED BY <3>1, <3>2
  <2>3. QED BY <1>1, <2>1, <2>2
<1>7. ASSUME NEW i \in 1..Len(s), NEW j \in 1..Len(s), i < j, s[i].cls = s[j].cls
      PROVE  s[i].no < s[j].no
  <2>1. CASE j <= Len(q)
    <3>1. i \in 1..Len(q) /\ j \in 1..Len(q) /\ s[i] = q[i] /\ s[j] = q[j]
      BY <1>1, <1>4, <1>7, <2>1
    <3>2. QED BY <1>7, <3>1 DEF Numbered
  <2>2. CASE j > Len(q) /\ i > Len(q)
    <3>1. /\ s[i].no = hi["reg"] + (i - Len(q))
          /\ s[j].no = hi["reg"] + (j - Len(q))
      BY <1>5, <2>2
    <3>2. hi["reg"] + (i - Len(q)) < hi["reg"] + (j - Len(q))
      BY <1>1, <1>7, <1>11
    <3>3. QED BY <3>1, <3>2
  <2>3. CASE j > Len(q) /\ i <= Len(q)
    <3>1. i \in 1..Len(q) /\ s[i] = q[i] BY <1>1, <1>4, <2>3
    <3>2. s[j].cls = "reg" /\ s[j].no = hi["reg"] + (j - Len(q))
      BY <1>5, <2>3
    <3>3. q[i].cls = "reg" /\ q[i].no <= hi["reg"]
      BY <1>7, <3>1, <3>2 DEF Numbered
    <3>4. QED BY <1>1, <1>2, <1>3, <2>3, <3>1, <3>2, <3>3
  <2>4. QED BY <1>1, <2>1, <2>2, <2>3
<1>8. ASSUME NEW c \in Class, NEW n \in (lo[c] + 1)..h[c]
      PROVE  \E i \in 1..Len(s) : s[i].cls = c /\ s[i].no = n
  <2>1. CASE n \in (lo[c] + 1)..hi[c]
    <3>1. PICK i \in 1..Len(q) : q[i].cls = c /\ q[i].no = n
      BY <2>1 DEF Numbered
    <3>2. QED BY <1>4, <3>1
  <2>2. CASE n \notin (lo[c] + 1)..hi[c]
    <3>1. c = "reg" /\ n \in (hi["reg"] + 1)..(hi["reg"] + Len(r))
      BY <1>1, <1>3, <2>2
    <3> DEFINE i == Len(q) + (n - hi["reg"])
    <3>2. i \in 1..Len(s) /\ i > Len(q) /\ hi["reg"] + (i - Len(q)) = n
      BY <1>1, <1>3, <3>1
    <3>3. QED BY <1>5, <3>1, <3>2
  <2>3. QED BY <2>1, <2>2
<1>9. Numbered(s, lo, h)
  BY <1>0, <1>6, <1>7, <1>8 DEF Numbered
<1>10. QED BY <1>9 DEF s, h

(***************************************************************************)
(* An answer inserted behind the last answer keeps every class in order.   *)
(***************************************************************************)
LEMMA NumberedInsert ==
  ASSUME NEW q \in Seq(Entry), NEW e \in Entry, NEW p \in 1..(Len(q) + 1),
         NEW lo \in [Class -> Nat], NEW hi \in [Class -> Nat],
         Numbered(q, lo, hi),
         e.cls = "wb", e.no = hi["wb"] + 1,
         \A i \in 1..Len(q) : p <= i => q[i].cls # "wb"
  PROVE  Numbered(InsertAt(q, p, e), lo, [hi EXCEPT !["wb"] = @ + 1])
<1> DEFINE s == InsertAt(q, p, e)
           h == [hi EXCEPT !["wb"] = hi["wb"] + 1]
           old(i) == IF i < p THEN i ELSE i - 1
<1>1. /\ Len(q) \in Nat /\ Len(s) = Len(q) + 1 /\ p \in 1..Len(s) /\ s[p] = e
      /\ \A i \in 1..Len(s) : s[i] = IF i < p THEN q[i] ELSE IF i = p THEN e ELSE q[i - 1]
  <2>1. /\ Len(q) \in Nat /\ Len(s) = Len(q) + 1
        /\ \A i \in 1..(Len(q) + 1) :
             s[i] = IF i < p THEN q[i] ELSE IF i = p THEN e ELSE q[i - 1]
    BY InsertAtProperties
  <2> HIDE DEF s
  <2>2. QED BY <2>1
<1>2. /\ "wb" \in Class
      /\ \A c \in Class : /\ lo[c] \in Nat /\ hi[c] \in Nat /\ h[c] \in Nat
                          /\ hi[c] <= h[c] /\ lo[c] <= h[c] /\ lo[c] <= hi[c]
                          /\ h[c] = IF c = "wb" THEN hi[c] + 1 ELSE hi[c]
  <2>1. \A c \in Class : lo[c] <= hi[c] BY DEF Numbered
  <2>2. QED BY <2>1 DEF Class
<1> HIDE DEF s, h
<1>3. ASSUME NEW i \in 1..Len(s), i # p
      PROVE  /\ old(i) \in 1..Len(q) /\ s[i] = q[old(i)]
             /\ q[old(i)].cls \in Class /\ q[old(i)].no \in Nat
  <2>1. old(i) \in 1..Len(q) /\ s[i] = q[old(i)] BY <1>1, <1>3
  <2> HIDE DEF old
  <2>2. QED BY <2>1, EntryFields
<1>4. ASSUME NEW i \in 1..Len(s)
      PROVE  lo[s[i].cls] < s[i].no /\ s[i].no <= h[s[i].cls]
  <2>1. CASE i = p
    <3>1. s[i].cls = "wb" /\ s[i].no = hi["wb"] + 1 BY <1>1, <2>1
    <3>2. lo["wb"] < hi["wb"] + 1 /\ hi["wb"] + 1 <= h["wb"] BY <1>2
    <3>3. QED BY <3>1, <3>2
  <2>2. CASE i # p
    <3> DEFINE o == q[old(i)]
    <3>1. /\ old(i) \in 1..Len(q) /\ s[i] = o /\ o.cls \in Class /\ o.no \in Nat
      BY <1>3, <2>2
    <3>2. lo[o.cls] < o.no /\ o.no <= hi[o.cls]
      <4> HIDE DEF old
      <4>1. QED BY <3>1 DEF Numbered
    <3> HIDE DEF o
    <3>3. hi[o.cls] <= h[o.cls] /\ hi[o.cls] \in Nat /\ h[o.cls] \in Nat
      BY <1>2, <3>1
    <3>4. lo[o.cls] < o.no /\ o.no <= h[o.cls]
      BY <3>1, <3>2, <3>3
    <3>5. QED BY <3>1, <3>4
  <2>3. QED BY <2>1, <2>2
<1>5. ASSUME NEW i \in 1..Len(s), NEW j \in 1..Len(s), i < j, s[i].cls = s[j].cls
      PROVE  s[i].no < s[j].no
  <2>1. CASE i # p /\ j # p
    <3>1. /\ old(i) \in 1..Len(q) /\ s[i] = q[old(i)]
          /\ old(j) \in 1..Len(q) /\ s[j] = q[old(j)]
      BY <1>3, <2>1
    <3>2. old(i) < old(j) BY <1>1, <1>5, <2>1
    <3> HIDE DEF old
    <3>3. QED BY SMTT(30), <1>5, <3>1, <3>2 DEF Numbered
  <2>2. CASE j = p
    <3>1. i # p BY <1>5, <2>2
    <3> DEFINE o == q[old(i)]
    <3>2. old(i) \in 1..Len(q) /\ s[i] = o /\ o.no \in Nat BY <1>3, <3>1
    <3>3. o.cls = "wb" BY <1>1, <1>5, <2>2, <3>2
    <3>4. o.no <= hi["wb"]
      <4> HIDE DEF old
      <4>1. QED BY <3>2, <3>3 DEF Numbered
    <3> HIDE DEF o
    <3>5. s[j].no = hi["wb"] + 1 BY <1>1, <2>2
    <3>6. o.no < hi["wb"] + 1 BY <1>2, <3>2, <3>4
    <3>7. QED BY <3>2, <3>5, <3>6
  <2>3. CASE i = p
    <3>1. j # p /\ p <= old(j) BY <1>1, <1>5, <2>3
    <3>2. old(j) \in 1..Len(q) /\ s[j] = q[old(j)] BY <1>3, <3>1
    <3>3. q[old(j)].cls # "wb"
      <4> HIDE DEF old
      <4>1. QED BY <3>1, <3>2
    <3>4. s[i].cls = "wb" BY <1>1, <2>3
    <3>5. QED BY <1>5, <3>2, <3>3, <3>4
  <2>4. QED BY <2>1, <2>2, <2>3
<1>6. ASSUME NEW c \in Class, NEW n \in (lo[c] + 1)..h[c]
      PROVE  \E i \in 1..Len(s) : s[i].cls = c /\ s[i].no = n
  <2>1. CASE n \in (lo[c] + 1)..hi[c]
    <3>1. PICK i \in 1..Len(q) : q[i].cls = c /\ q[i].no = n
      BY <2>1 DEF Numbered
    <3>2. CASE i < p
      <4>1. i \in 1..Len(s) /\ s[i] = q[i] BY <1>1, <3>2
      <4>2. QED BY <3>1, <4>1
    <3>3. CASE p <= i
      <4>1. i + 1 \in 1..Len(s) /\ s[i + 1] = q[(i + 1) - 1] /\ (i + 1) - 1 = i
        BY SMTT(30), <1>1, <3>3
      <4>2. QED BY <3>1, <4>1
    <3>4. QED BY <1>1, <3>2, <3>3
  <2>2. CASE n \notin (lo[c] + 1)..hi[c]
    <3>1. lo[c] \in Nat /\ hi[c] \in Nat /\ h[c] = IF c = "wb" THEN hi[c] + 1 ELSE hi[c]
      BY <1>2
    <3>2. c = "wb" /\ n = hi["wb"] + 1
      BY <2>2, <3>1
    <3>3. QED BY <1>1, <3>2
  <2>3. QED BY <2>1, <2>2
<1>7. Numbered(s, lo, h)
  BY <1>2, <1>4, <1>5, <1>6 DEF Numbered
<1>8. QED BY <1>7 DEF s, h

(***************************************************************************)
(* How the operations on the queue keep answers ahead.                     *)
(***************************************************************************)
LEMMA AheadTail ==
  ASSUME NEW q \in Seq(Entry), q # <<>>, Ahead(q)
  PROVE  Ahead(Tail(q))
<1>1. /\ Len(q) \in Nat /\ Len(Tail(q)) = Len(q) - 1
      /\ \A i \in 1..Len(Tail(q)) : Tail(q)[i] = q[i + 1]
  BY HeadTailProperties
<1>2. ASSUME NEW i \in 1..Len(Tail(q)), NEW j \in 1..Len(Tail(q)),
             i < j, Tail(q)[j].cls = "wb"
      PROVE  LetsPass(Tail(q)[i])
  <2>1. /\ i + 1 \in 1..Len(q) /\ j + 1 \in 1..Len(q) /\ i + 1 < j + 1
        /\ Tail(q)[i] = q[i + 1] /\ Tail(q)[j] = q[j + 1]
    BY <1>1, <1>2
  <2>2. QED BY <1>2, <2>1 DEF Ahead
<1>3. QED BY <1>2 DEF Ahead

LEMMA AheadConcat ==
  ASSUME NEW q \in Seq(Entry), NEW r \in Seq(Entry), Ahead(q),
         \A i \in 1..Len(r) : r[i].cls = "reg"
  PROVE  Ahead(q \o r)
<1> DEFINE s == q \o r
<1>1. /\ Len(q) \in Nat /\ Len(r) \in Nat /\ Len(s) = Len(q) + Len(r)
      /\ \A i \in 1..Len(s) : s[i] = IF i <= Len(q) THEN q[i] ELSE r[i - Len(q)]
  BY ConcatProperties
<1> HIDE DEF s
<1>2. ASSUME NEW i \in 1..Len(s), NEW j \in 1..Len(s), i < j, s[j].cls = "wb"
      PROVE  LetsPass(s[i])
  <2>1. j <= Len(q)
    <3>1. CASE j > Len(q)
      <4>1. j - Len(q) \in 1..Len(r) /\ s[j] = r[j - Len(q)] BY <1>1, <3>1
      <4>2. QED BY <1>2, <4>1
    <3>2. QED BY <1>1, <3>1
  <2>2. i \in 1..Len(q) /\ j \in 1..Len(q) /\ s[i] = q[i] /\ s[j] = q[j]
    BY <1>1, <1>2, <2>1
  <2>3. QED BY <1>2, <2>2 DEF Ahead
<1>3. Ahead(s) BY <1>2 DEF Ahead
<1>4. QED BY <1>3 DEF s

LEMMA AheadInsert ==
  ASSUME NEW q \in Seq(Entry), NEW e \in Entry, Ahead(q), e.cls = "wb"
  PROVE  /\ Ahead(AddWriteBackStimulus(q, e))
         /\ \A i \in 1..Len(q) : InsertPoint(q) <= i => q[i].cls # "wb"
<1> DEFINE p == InsertPoint(q)
           s == InsertAt(q, p, e)
<1>1. /\ p \in 1..(Len(q) + 1) /\ Len(q) \in Nat
      /\ \A i \in 1..Len(q) : i < p => LetsPass(q[i])
      /\ p <= Len(q) => ~LetsPass(q[p])
  BY InsertPointProperties
<1> HIDE DEF p
<1>2. /\ Len(s) = Len(q) + 1
      /\ \A i \in 1..Len(s) : s[i] = IF i < p THEN q[i] ELSE IF i = p THEN e ELSE q[i - 1]
  BY <1>1, InsertAtProperties
<1> HIDE DEF s
<1>3. ASSUME NEW i \in 1..Len(q), p <= i PROVE q[i].cls # "wb"
  <2>1. p \in 1..Len(q) /\ ~LetsPass(q[p]) BY <1>1, <1>3
  <2>2. CASE i = p BY <2>1, <2>2 DEF LetsPass
  <2>3. CASE i # p
    <3>1. p < i BY <1>1, <1>3, <2>3
    <3>2. QED BY <2>1, <3>1 DEF Ahead
  <2>4. QED BY <2>2, <2>3
<1>4. ASSUME NEW i \in 1..Len(s), NEW j \in 1..Len(s), i < j, s[j].cls = "wb"
      PROVE  LetsPass(s[i])
  <2>1. CASE i < p
    <3>1. i \in 1..Len(q) /\ s[i] = q[i] BY <1>1, <1>2, <2>1
    <3>2. QED BY <1>1, <2>1, <3>1
  <2>2. CASE i >= p
    <3>1. j - 1 \in 1..Len(q) /\ p <= j - 1 /\ s[j] = q[j - 1]
      BY <1>1, <1>2, <1>4, <2>2
    <3>2. QED BY <1>3, <1>4, <3>1
  <2>3. QED BY <1>1, <2>1, <2>2
<1>5. Ahead(s) BY <1>4 DEF Ahead
<1>6. QED BY <1>3, <1>5 DEF AddWriteBackStimulus, s, p
-----------------------------------------------------------------------------
(***************************************************************************)
(* The steps, and the queue's share of the inductive invariant.            *)
(***************************************************************************)
QueueInv ==
  /\ Numbered(stimulusArray, com, sub) /\ Ahead(stimulusArray)
  /\ Kinds /\ AllAnswer

\* What the queue's share speaks of.
queueView == <<stimulusArray, signoffArray, com, sub, regKind, asked, got>>

\* Taking the head keeps the queue in order.
LEMMA QueueTake ==
  ASSUME TypeOK, QueueInv, stimulusArray # <<>>,
         stimulusArray' = Tail(stimulusArray), sub' = sub,
         com' = [com EXCEPT ![Head(stimulusArray).cls] = @ + 1]
  PROVE  /\ Numbered(stimulusArray, com, sub)' /\ Ahead(stimulusArray)'
         /\ \A i \in 1..Len(stimulusArray') :
              /\ i + 1 \in 1..Len(stimulusArray)
              /\ stimulusArray'[i] = stimulusArray[i + 1]
         /\ Head(stimulusArray) = stimulusArray[1] /\ 1 \in 1..Len(stimulusArray)
<1>1. Numbered(Tail(stimulusArray), com', sub)
  BY NumberedTail DEF TypeOK, QueueInv
<1>2. Numbered(stimulusArray, com, sub)'
  BY <1>1
<1>3. Ahead(stimulusArray)'
  BY AheadTail DEF TypeOK, QueueInv
<1>4. \A i \in 1..Len(stimulusArray') :
        /\ i + 1 \in 1..Len(stimulusArray)
        /\ stimulusArray'[i] = stimulusArray[i + 1]
  BY HeadTailProperties DEF TypeOK
<1>5. Head(stimulusArray) = stimulusArray[1] /\ 1 \in 1..Len(stimulusArray)
  BY DEF TypeOK
<1>6. QED BY <1>2, <1>3, <1>4, <1>5

LEMMA QueueDrive ==
  ASSUME TypeOK, QueueInv, Drive
  PROVE  QueueInv'
<1> USE DEF DriveStep, queueVars, driveVars, sampleVars, dutVars, clientVars
<1>1. regKind' = regKind /\ asked' = asked /\ got' = got
  BY DEF Drive, SpiWaitError, NoMoreStimulus, StrayStimulus, PopStimulus,
         CountDown, HoldStimulus, ChipStuck
<1>2. ASSUME UNCHANGED queueView, sEntry' = sEntry \/ sEntry' = NoEntry
      PROVE  QueueInv'
  <2>1. Numbered(stimulusArray, com, sub)' /\ Ahead(stimulusArray)'
    BY <1>2 DEF QueueInv, queueView
  <2>2. Kinds' BY <1>2 DEF QueueInv, queueView, Kinds
  <2>3. AllAnswer'
    BY <1>2 DEF QueueInv, queueView, AllAnswer, Answers, NoEntry
  <2>4. QED BY <2>1, <2>2, <2>3 DEF QueueInv
<1>3. CASE SpiWaitError \/ CountDown \/ HoldStimulus \/ ChipStuck \/ NoMoreStimulus
  BY <1>1, <1>2, <1>3
  DEF queueView, SpiWaitError, CountDown, HoldStimulus, ChipStuck, NoMoreStimulus
<1>4. ASSUME stimulusArray # <<>>, stimulusArray' = Tail(stimulusArray), sub' = sub,
             com' = [com EXCEPT ![Head(stimulusArray).cls] = @ + 1],
             sEntry' = Head(stimulusArray),
             \/ signoffArray' = signoffArray
             \/ /\ ReadBack(Head(stimulusArray))
                /\ signoffArray' =
                     Append(signoffArray, SignOffRead(Head(stimulusArray)))
      PROVE  QueueInv'
  <2> DEFINE h == Head(stimulusArray)
  <2>1. /\ Numbered(stimulusArray, com, sub)' /\ Ahead(stimulusArray)'
        /\ \A i \in 1..Len(stimulusArray') :
             /\ i + 1 \in 1..Len(stimulusArray)
             /\ stimulusArray'[i] = stimulusArray[i + 1]
        /\ h = stimulusArray[1] /\ 1 \in 1..Len(stimulusArray)
    BY <1>4, QueueTake
  <2>2. Kinds'
    <3>1. Len(regKind') = sub'["reg"] BY <1>1, <1>4 DEF QueueInv, Kinds
    <3>2. \A i \in 1..Len(stimulusArray') :
            stimulusArray'[i].cls = "reg" =>
              regKind'[stimulusArray'[i].no] = stimulusArray'[i].kind
      BY <1>1, <2>1 DEF QueueInv, Kinds
    <3>3. \A i \in 1..Len(signoffArray') :
            signoffArray'[i].cls = "reg" /\ signoffArray'[i].kind = "read"
      <4>1. CASE signoffArray' = signoffArray BY <4>1 DEF QueueInv, Kinds
      <4>2. CASE /\ ReadBack(h)
                 /\ signoffArray' = Append(signoffArray, SignOffRead(h))
        <5>1. h \in Entry BY <2>1, EntryFields DEF TypeOK
        <5>2. /\ SignOffRead(h) \in Entry /\ SignOffRead(h).cls = "reg"
              /\ SignOffRead(h).kind = "read"
          <6> HIDE DEF h
          <6>1. QED BY <4>2, <5>1 DEF ReadBack, SignOffRead, Entry, Kind
        <5>3. /\ Len(signoffArray') = Len(signoffArray) + 1
              /\ \A i \in 1..Len(signoffArray) : signoffArray'[i] = signoffArray[i]
              /\ signoffArray'[Len(signoffArray) + 1] = SignOffRead(h)
              /\ Len(signoffArray) \in Nat
          BY <4>2, <5>2, AppendProperties DEF TypeOK
        <5> HIDE DEF h
        <5>4. ASSUME NEW i \in 1..Len(signoffArray')
              PROVE  signoffArray'[i].cls = "reg" /\ signoffArray'[i].kind = "read"
          <6>1. CASE i \in 1..Len(signoffArray)
            BY <5>3, <6>1 DEF QueueInv, Kinds
          <6>2. CASE i = Len(signoffArray) + 1
            BY <5>2, <5>3, <6>2
          <6>3. QED BY <5>3, <6>1, <6>2
        <5>5. QED BY <5>4
      <4>3. QED BY <1>4, <4>1, <4>2
    <3>4. QED BY <3>1, <3>2, <3>3 DEF Kinds
  <2>3. AllAnswer'
    <3>1. \A i \in 1..Len(stimulusArray') : Answers(stimulusArray'[i])
      BY <2>1 DEF QueueInv, AllAnswer
    <3>2. Answers(sEntry') BY <1>4, <2>1 DEF QueueInv, AllAnswer
    <3>3. QED BY <1>1, <3>1, <3>2 DEF QueueInv, AllAnswer, Answers
  <2>4. QED BY <2>1, <2>2, <2>3 DEF QueueInv
<1>5. CASE StrayStimulus
  BY <1>4, <1>5 DEF StrayStimulus
<1>6. CASE PopStimulus
  BY <1>4, <1>6 DEF PopStimulus
<1>7. QED BY <1>3, <1>5, <1>6 DEF Drive

LEMMA QueueSample ==
  ASSUME TypeOK, QueueInv, Sampled, ~aborted, Sample
  PROVE  QueueInv'
<1> USE DEF SampleStep, queueVars, driveVars, sampleVars, dutVars, clientVars
<1>1. /\ regKind' = regKind /\ asked' = asked /\ got' = got /\ com' = com
      /\ sEntry' = sEntry /\ signoffArray' = signoffArray
  BY DEF Sample, BackPressure, NoAccess, SpiReadError, OutOfRange, SampleRead, SampleWrite
<1>2. ASSUME stimulusArray' = stimulusArray, sub' = sub
      PROVE  QueueInv'
  BY <1>1, <1>2 DEF QueueInv, Kinds, AllAnswer, Answers
<1>3. CASE SampleRead
  <2>1. PICK d \in Delays :
          stimulusArray' = AddWriteBackStimulus(stimulusArray,
            [cls |-> "wb", no |-> dutBus.no, kind |-> "write", delay |-> d,
             ref |-> hostMem])
    BY <1>3 DEF SampleRead
  <2> DEFINE e == [cls |-> "wb", no |-> dutBus.no, kind |-> "write", delay |-> d,
                   ref |-> hostMem]
             q == stimulusArray
             p == InsertPoint(q)
  <2>2. Fresh /\ ~dutBus.write
    BY <1>3 DEF SampleRead, Fresh
  <2>3. /\ dutBus.no = Len(asked) /\ Len(asked) = sub["wb"] + 1
        /\ asked[Len(asked)] = hostMem
    BY <2>2 DEF Sampled
  <2>4. e \in Entry /\ e.cls = "wb" /\ e.no = sub["wb"] + 1
        /\ e.no = Len(asked) /\ e.ref = asked[e.no]
    BY <2>3, HostPortAssumption DEF TypeOK, Entry, Class, Kind, Request
  <2>5. sub' = [sub EXCEPT !["wb"] = @ + 1]
    BY <1>3 DEF SampleRead
  <2>6. /\ q \in Seq(Entry) /\ com \in [Class -> Nat] /\ sub \in [Class -> Nat]
        /\ Numbered(q, com, sub) /\ Ahead(q) /\ stimulusArray' = AddWriteBackStimulus(q, e)
        /\ sub["wb"] \in Nat
    BY <2>1 DEF TypeOK, QueueInv, Class
  <2> HIDE DEF e, q, p
  <2>7. /\ Ahead(stimulusArray')
        /\ \A i \in 1..Len(q) : p <= i => q[i].cls # "wb"
    BY <2>4, <2>6, AheadInsert DEF p
  <2>8. p \in 1..(Len(q) + 1) /\ stimulusArray' = InsertAt(q, p, e)
    BY <2>6, InsertPointProperties DEF AddWriteBackStimulus, p
  <2>9. Numbered(stimulusArray', com, sub')
    <3>1. p \in 1..(Len(q) + 1) BY <2>8
    <3> HIDE DEF p
    <3>2. Numbered(InsertAt(q, p, e), com, [sub EXCEPT !["wb"] = @ + 1])
      BY <2>4, <2>6, <2>7, <3>1, NumberedInsert
    <3>3. QED BY <2>5, <2>8, <3>2
  <2>10. /\ Len(stimulusArray') = Len(q) + 1 /\ Len(q) \in Nat
         /\ \A i \in 1..Len(stimulusArray') : stimulusArray'[i] =
              IF i < p THEN q[i] ELSE IF i = p THEN e ELSE q[i - 1]
    BY SMTT(30), <2>4, <2>6, <2>8, InsertAtProperties
  <2>11. ASSUME NEW i \in 1..Len(stimulusArray')
         PROVE  \/ stimulusArray'[i] = e
                \/ \E j \in 1..Len(q) : stimulusArray'[i] = q[j]
    <3>1. CASE i < p
      <4>1. i \in 1..Len(q) /\ stimulusArray'[i] = q[i] BY <2>8, <2>10, <3>1
      <4>2. QED BY <4>1
    <3>2. CASE i > p
      <4>1. i - 1 \in 1..Len(q) /\ stimulusArray'[i] = q[i - 1] BY <2>8, <2>10, <3>2
      <4>2. QED BY <4>1
    <3>3. CASE i = p BY <2>10, <3>3
    <3>4. QED BY <2>8, <3>1, <3>2, <3>3
  <2>12. Kinds'
    <3>1. Len(regKind') = sub'["reg"]
      BY <1>1, <2>5, <2>6 DEF QueueInv, Kinds, Class
    <3>2. \A i \in 1..Len(stimulusArray') :
            stimulusArray'[i].cls = "reg" =>
              regKind'[stimulusArray'[i].no] = stimulusArray'[i].kind
      BY <1>1, <2>4, <2>11 DEF QueueInv, Kinds, q
    <3>3. QED BY <1>1, <3>1, <3>2 DEF QueueInv, Kinds
  <2>13. AllAnswer'
    <3>1. Answers(e)
      <4>1. Len(asked) \in Nat /\ Len(asked) >= 1 BY <2>3, <2>6 DEF TypeOK
      <4>2. QED BY <2>4, <4>1 DEF Answers
    <3>2. \A i \in 1..Len(stimulusArray') : Answers(stimulusArray'[i])
      BY <2>11, <3>1 DEF QueueInv, AllAnswer, q
    <3>3. QED BY <1>1, <3>2 DEF QueueInv, AllAnswer, Answers
  <2>14. QED BY <1>1, <2>7, <2>9, <2>12, <2>13 DEF QueueInv
<1>4. QED
  BY <1>2, <1>3 DEF Sample, BackPressure, NoAccess, SpiReadError, OutOfRange, SampleWrite

LEMMA KindsConcat ==
  ASSUME NEW j \in Seq(Kind), NEW k \in Seq(Kind)
  PROVE  /\ Len(j \o k) = Len(j) + Len(k)
         /\ \A i \in 1..(Len(j) + Len(k)) :
              (j \o k)[i] = IF i <= Len(j) THEN j[i] ELSE k[i - Len(j)]
BY ConcatProperties

LEMMA KindsPrefix ==
  ASSUME NEW j \in Seq(Kind), NEW k \in Seq(Kind)
  PROVE  /\ j \o k \in Seq(Kind) /\ Len(j \o k) = Len(j) + Len(k)
         /\ SubSeq(j \o k, 1, Len(j)) = j
<1>1. /\ j \o k \in Seq(Kind) /\ Len(j \o k) = Len(j) + Len(k)
      /\ Len(j) \in Nat /\ Len(k) \in Nat
  BY ConcatProperties
<1>2. \A i \in 1..Len(j) : (j \o k)[i] = j[i] /\ j[i] \in Kind
  BY <1>1, KindsConcat, ElementOfSeq
<1> DEFINE s == SubSeq(j \o k, 1, Len(j))
<1>3. /\ s \in Seq(Kind) /\ Len(s) = Len(j)
      /\ \A i \in 1..Len(j) : s[i] = (j \o k)[i]
  <2>1. \A i \in 1..Len(j) : (j \o k)[i] \in Kind BY <1>2
  <2>2. /\ s \in Seq(Kind)
        /\ Len(s) = IF 1 <= Len(j) THEN Len(j) - 1 + 1 ELSE 0
        /\ \A i \in 1..(Len(j) - 1 + 1) : s[i] = (j \o k)[1 + i - 1]
    BY <1>1, <2>1, SubSeqProperties
  <2>3. QED BY <1>1, <2>2
<1> HIDE DEF s
<1>4. s = j
  BY <1>2, <1>3, SeqEqual
<1>5. QED BY <1>1, <1>4 DEF s

\* Regular entries with the next tickets, and their kinds.
LEMMA QueueSubmit ==
  ASSUME TypeOK, QueueInv, NEW r \in Seq(Entry), NEW k \in Seq(Kind),
         Len(k) = Len(r),
         \A i \in 1..Len(r) : /\ r[i].cls = "reg" /\ r[i].no = sub["reg"] + i
                              /\ r[i].kind = k[i],
         stimulusArray' = stimulusArray \o r, regKind' = regKind \o k,
         sub' = [sub EXCEPT !["reg"] = @ + Len(r)],
         UNCHANGED <<signoffArray, com, asked, got, sEntry>>
  PROVE  QueueInv'
<1> DEFINE q == stimulusArray
<1>1. /\ q \in Seq(Entry) /\ com \in [Class -> Nat] /\ sub \in [Class -> Nat]
      /\ Numbered(q, com, sub) /\ Ahead(q) /\ sub["reg"] \in Nat
      /\ Len(regKind) = sub["reg"] /\ regKind \in Seq(Kind)
      /\ Len(q) \in Nat /\ Len(r) \in Nat
  BY DEF TypeOK, QueueInv, Kinds, Class
<1>2. Numbered(stimulusArray', com', sub')
  <2>1. Numbered(q \o r, com, [sub EXCEPT !["reg"] = @ + Len(r)])
    <3> HIDE DEF q
    <3>1. QED BY <1>1, NumberedConcat
  <2>2. QED BY <2>1
<1>3. Ahead(stimulusArray')
  BY <1>1, AheadConcat
<1>4. /\ Len(stimulusArray') = Len(q) + Len(r)
      /\ \A i \in 1..(Len(q) + Len(r)) :
           stimulusArray'[i] = IF i <= Len(q) THEN q[i] ELSE r[i - Len(q)]
  BY <1>1, ConcatProperties
<1>5. /\ Len(regKind') = sub["reg"] + Len(r)
      /\ \A i \in 1..(sub["reg"] + Len(r)) :
           regKind'[i] = IF i <= sub["reg"] THEN regKind[i] ELSE k[i - sub["reg"]]
  <2>1. /\ Len(regKind \o k) = Len(regKind) + Len(k)
        /\ \A i \in 1..(Len(regKind) + Len(k)) : (regKind \o k)[i] =
             IF i <= Len(regKind) THEN regKind[i] ELSE k[i - Len(regKind)]
    BY <1>1, KindsConcat
  <2>2. QED BY <1>1, <2>1
<1>6. ASSUME NEW i \in 1..Len(stimulusArray')
      PROVE  \/ \E j \in 1..Len(q) : stimulusArray'[i] = q[j]
             \/ \E j \in 1..Len(r) : stimulusArray'[i] = r[j]
  <2>1. CASE i <= Len(q)
    <3>1. i \in 1..Len(q) /\ stimulusArray'[i] = q[i] BY <1>1, <1>4, <2>1
    <3>2. QED BY <3>1
  <2>2. CASE i > Len(q)
    <3>1. i - Len(q) \in 1..Len(r) /\ stimulusArray'[i] = r[i - Len(q)]
      BY <1>1, <1>4, <2>2
    <3>2. QED BY <3>1
  <2>3. QED BY <1>1, <2>1, <2>2
<1>7. Kinds'
  <2>1. Len(regKind') = sub'["reg"] BY <1>1, <1>5 DEF Class
  <2>2. ASSUME NEW j \in 1..Len(q), q[j].cls = "reg"
        PROVE  regKind'[q[j].no] = q[j].kind
    <3>1. regKind[q[j].no] = q[j].kind BY <2>2 DEF QueueInv, Kinds
    <3>2. com["reg"] < q[j].no /\ q[j].no <= sub["reg"]
      BY <1>1, <2>2 DEF Numbered
    <3>3. q[j].no \in Nat /\ com["reg"] \in Nat
      BY <1>1, EntryFields DEF Class
    <3> DEFINE n == q[j].no
    <3>4. n \in 1..(sub["reg"] + Len(r)) /\ n <= sub["reg"]
      <4> HIDE DEF q
      <4>1. QED BY <1>1, <3>2, <3>3
    <3>5. regKind'[n] = regKind[n]
      <4> HIDE DEF n
      <4>1. QED BY <1>5, <3>4
    <3>6. QED BY <3>1, <3>5
  <2>3. ASSUME NEW j \in 1..Len(r) PROVE regKind'[r[j].no] = r[j].kind
    <3>1. r[j].no = sub["reg"] + j /\ r[j].kind = k[j] OBVIOUS
    <3>2. /\ sub["reg"] + j \in 1..(sub["reg"] + Len(r)) /\ ~(sub["reg"] + j <= sub["reg"])
          /\ (sub["reg"] + j) - sub["reg"] = j
      BY <1>1
    <3>3. regKind'[sub["reg"] + j] = k[j]
      BY <1>5, <3>2
    <3>4. QED BY <3>1, <3>3
  <2>4. \A i \in 1..Len(stimulusArray') :
          stimulusArray'[i].cls = "reg" =>
            regKind'[stimulusArray'[i].no] = stimulusArray'[i].kind
    BY ZenonT(60), <1>6, <2>2, <2>3
  <2>5. QED BY <2>1, <2>4 DEF QueueInv, Kinds
<1>8. AllAnswer'
  <2>1. \A i \in 1..Len(stimulusArray') : Answers(stimulusArray'[i])
    <3>1. \A j \in 1..Len(r) : Answers(r[j]) BY DEF Answers
    <3>2. \A j \in 1..Len(q) : Answers(q[j]) BY DEF QueueInv, AllAnswer
    <3>3. QED BY <1>6, <3>1, <3>2
  <2>2. QED BY <2>1 DEF QueueInv, AllAnswer, Answers
<1>9. QED BY <1>2, <1>3, <1>7, <1>8 DEF QueueInv

LEMMA QueueClient ==
  ASSUME TypeOK, QueueInv, AddStimulus \/ DispathSignOff
  PROVE  QueueInv'
<1> USE DEF queueVars, driveVars, sampleVars, dutVars, clientVars
<1>1. CASE AddStimulus
  <2>1. PICK k \in ClientKind, d \in Delays :
          /\ regKind' = Append(regKind, k)
          /\ sub' = [sub EXCEPT !["reg"] = @ + 1]
          /\ stimulusArray' = Append(stimulusArray,
               [cls |-> "reg", no |-> sub["reg"] + 1, kind |-> k,
                delay |-> d, ref |-> 0])
    BY <1>1 DEF AddStimulus
  <2> DEFINE e == [cls |-> "reg", no |-> sub["reg"] + 1, kind |-> k,
                   delay |-> d, ref |-> 0]
  <2>2. e \in Entry /\ e.cls = "reg" /\ e.no = sub["reg"] + 1 /\ e.kind = k
    <3>1. sub["reg"] \in Nat BY DEF TypeOK, Class
    <3>2. QED BY <3>1, HostPortAssumption DEF Entry, Class, Kind, ClientKind
  <2>3. k \in Kind BY DEF Kind, ClientKind
  <2>4. stimulusArray' = stimulusArray \o <<e>> /\ regKind' = regKind \o <<k>>
    BY <2>1, <2>2, <2>3, AppendIsConcat DEF TypeOK
  <2> DEFINE r == <<e>>
             kk == <<k>>
  <2> HIDE DEF e
  <2>5. /\ <<e>> \in Seq(Entry) /\ <<k>> \in Seq(Kind)
        /\ Len(<<e>>) = 1 /\ Len(<<k>>) = 1 /\ <<e>>[1] = e /\ <<k>>[1] = k
    BY <2>2, <2>3
  <2>6. UNCHANGED <<signoffArray, com, asked, got, sEntry>>
    BY <1>1 DEF AddStimulus
  <2>7. /\ r \in Seq(Entry) /\ kk \in Seq(Kind) /\ Len(kk) = Len(r)
        /\ \A i \in 1..Len(r) : /\ r[i].cls = "reg" /\ r[i].no = sub["reg"] + i
                                /\ r[i].kind = kk[i]
        /\ stimulusArray' = stimulusArray \o r /\ regKind' = regKind \o kk
        /\ sub' = [sub EXCEPT !["reg"] = @ + Len(r)]
    BY <2>1, <2>2, <2>4, <2>5
  <2> HIDE DEF r, kk
  <2>8. QED BY <2>6, <2>7, QueueSubmit
<1>2. CASE DispathSignOff
  <2> DEFINE n == Len(signoffArray)
             r == [i \in 1..n |-> [signoffArray[i] EXCEPT !.no = sub["reg"] + i]]
             k == [i \in 1..n |-> "read"]
  <2>1. n \in Nat /\ sub["reg"] \in Nat
    BY DEF TypeOK, Class
  <2>2. ASSUME NEW i \in 1..n
        PROVE  /\ r[i] \in Entry /\ r[i].cls = "reg" /\ r[i].no = sub["reg"] + i
               /\ r[i].kind = k[i]
    <3>1. /\ signoffArray[i] \in Entry /\ sub["reg"] + i \in Nat
          /\ signoffArray[i].cls = "reg" /\ signoffArray[i].kind = "read"
      BY <2>1, ElementOfSeq DEF TypeOK, QueueInv, Kinds
    <3>2. r[i] = [signoffArray[i] EXCEPT !.no = sub["reg"] + i] /\ k[i] = "read"
      OBVIOUS
    <3> HIDE DEF r, k
    <3>3. QED BY <3>1, <3>2 DEF Entry
  <2>3. r \in Seq(Entry) /\ Len(r) = n
    <3>1. \A i \in 1..n : [signoffArray[i] EXCEPT !.no = sub["reg"] + i] \in Entry
      BY <2>2
    <3>2. QED BY <2>1, <3>1
  <2>4. k \in Seq(Kind) /\ Len(k) = n
    BY <2>1 DEF Kind
  <2>5. /\ stimulusArray' = stimulusArray \o r /\ regKind' = regKind \o k
        /\ sub' = [sub EXCEPT !["reg"] = @ + n]
        /\ UNCHANGED <<signoffArray, com, asked, got, sEntry>>
    BY <1>2 DEF DispathSignOff
  <2> HIDE DEF r, k, n
  <2>6. QED BY <2>2, <2>3, <2>4, <2>5, QueueSubmit
<1>3. QED BY <1>1, <1>2

LEMMA QueueRisingEdge ==
  ASSUME TypeOK, QueueInv, Handshake, ~aborted, RisingEdge
  PROVE  QueueInv'
<1> USE DEF queueVars, driveVars, sampleVars, dutVars, clientVars
<1>1. UNCHANGED <<stimulusArray, signoffArray, sub, com, regKind, sEntry>>
  BY DEF RisingEdge
<1>2. /\ Len(asked) \in Nat /\ Len(asked') \in Nat /\ Len(asked) <= Len(asked')
      /\ \A n \in 1..Len(asked) : asked'[n] = asked[n]
  <2>1. asked' = asked \/ asked' = Append(asked, written)
    BY DEF RisingEdge, MasterInterface
  <2>2. asked \in Seq(Nat) /\ written \in Nat /\ Len(asked) \in Nat
    BY DEF TypeOK
  <2>3. CASE asked' = asked BY <2>2, <2>3
  <2>4. CASE asked' = Append(asked, written)
    <3>1. /\ Len(asked') = Len(asked) + 1
          /\ \A n \in 1..Len(asked) : asked'[n] = asked[n]
      BY <2>2, <2>4, AppendProperties
    <3>2. QED BY <2>2, <3>1
  <2>5. QED BY <2>1, <2>3, <2>4
<1> DEFINE next(e) == e.cls = "wb" => e.no \in 1..Len(asked') /\ e.ref = asked'[e.no]
<1>3. ASSUME NEW e, Answers(e) PROVE next(e)
  BY <1>2, <1>3 DEF Answers
<1>4. \A i \in 1..Len(got'["wb"]) :
        got'["wb"][i].cls = "wb" /\ Answers(got'["wb"][i])
  <2>1. \A i \in 1..Len(got["wb"]) :
          got["wb"][i].cls = "wb" /\ Answers(got["wb"][i])
    BY DEF QueueInv, AllAnswer
  <2>2. CASE ~Accepted \/ bus.cls # "wb"
    <3>1. got'["wb"] = got["wb"]
      BY <2>2 DEF RisingEdge, SlaveInterface, TypeOK, Class
    <3>2. QED BY <2>1, <3>1
  <2>3. CASE Accepted /\ bus.cls = "wb"
    <3>1. bus = sEntry
      BY <2>3 DEF Handshake, Accepted, TypeOK
    <3>2. Answers(bus) BY <3>1 DEF QueueInv, AllAnswer
    <3>3. got["wb"] \in Seq(Entry) /\ bus \in Entry
      BY DEF TypeOK, Class
    <3>4. got'["wb"] = Append(got["wb"], bus)
      BY <2>3 DEF RisingEdge, SlaveInterface, TypeOK, Class
    <3>5. /\ Len(got'["wb"]) = Len(got["wb"]) + 1 /\ Len(got["wb"]) \in Nat
          /\ \A i \in 1..Len(got["wb"]) : got'["wb"][i] = got["wb"][i]
          /\ got'["wb"][Len(got["wb"]) + 1] = bus
      BY <3>3, <3>4, AppendProperties
    <3>6. ASSUME NEW i \in 1..Len(got'["wb"])
          PROVE  got'["wb"][i].cls = "wb" /\ Answers(got'["wb"][i])
      <4>1. CASE i \in 1..Len(got["wb"]) BY <2>1, <3>5, <4>1
      <4>2. CASE i = Len(got["wb"]) + 1 BY <2>3, <3>2, <3>5, <4>2
      <4>3. QED BY <3>5, <4>1, <4>2
    <3>7. QED BY <3>6
  <2>4. QED BY <2>2, <2>3
<1>5. AllAnswer'
  <2>1. \A i \in 1..Len(stimulusArray') : next(stimulusArray'[i])
    BY <1>1, <1>3 DEF QueueInv, AllAnswer
  <2>2. next(sEntry') BY <1>1, <1>3 DEF QueueInv, AllAnswer
  <2>3. \A i \in 1..Len(got'["wb"]) : got'["wb"][i].cls = "wb" /\ next(got'["wb"][i])
    BY <1>3, <1>4
  <2>4. QED BY <2>1, <2>2, <2>3 DEF AllAnswer, Answers
<1>6. QED BY <1>1, <1>5 DEF QueueInv, Kinds
-----------------------------------------------------------------------------
(***************************************************************************)
(* The handshake with the chip's slave interface.                          *)
(***************************************************************************)
LEMMA AtTopSettled ==
  ASSUME Handshake, ~aborted, "drive" \in todo, AtTop
  PROVE  Settled
BY DEF Handshake, AtTop

LEMMA HandshakeDrive ==
  ASSUME TypeOK, QueueInv, Handshake, ~aborted, Drive
  PROVE  Handshake'
<1> USE DEF DriveStep, queueVars, driveVars, sampleVars, dutVars, clientVars
<1>1. /\ "drive" \in todo /\ "drive" \notin todo'
      /\ got' = got /\ dut_wr_wait' = dut_wr_wait /\ dut_rd_wait' = dut_rd_wait
  BY DEF Drive, SpiWaitError, NoMoreStimulus, StrayStimulus, PopStimulus,
         CountDown, HoldStimulus, ChipStuck
<1>2. CASE SpiWaitError \/ StrayStimulus \/ ChipStuck
  BY <1>2 DEF SpiWaitError, StrayStimulus, ChipStuck, Handshake
<1>3. CASE NoMoreStimulus
  <2>1. Settled BY <1>1, <1>3, AtTopSettled DEF NoMoreStimulus
  <2>2. pc' = "idle" /\ bus' = NoEntry /\ com' = com
    BY <1>3 DEF NoMoreStimulus
  <2>3. Settled' BY <1>1, <2>1, <2>2 DEF Settled
  <2>4. QED BY <2>2, <2>3 DEF Handshake
<1>4. CASE PopStimulus
  <2> DEFINE e == Head(stimulusArray)
  <2>1. Settled BY <1>1, <1>4, AtTopSettled DEF PopStimulus
  <2>2. /\ stimulusArray # <<>> /\ e.kind # "stray" /\ sEntry' = e
        /\ com' = [com EXCEPT ![e.cls] = @ + 1]
        /\ IF e.delay = 0 /\ Ready(e) THEN Present(e)
           ELSE Withhold(IF e.delay > 0 THEN e.delay - 1 ELSE 0)
    BY <1>4 DEF PopStimulus
  <2>3. e \in Entry /\ e.cls \in Class
    <3>1. e \in Entry BY <2>2, HeadTailProperties DEF TypeOK
    <3>2. QED BY <3>1 DEF Entry
  <2>4. e.no = com[e.cls] + 1
    BY <2>2, NumberedHead DEF TypeOK, QueueInv
  <2>5. e # NoEntry
    BY <2>2 DEF NoEntry
  <2> HIDE DEF e
  <2>6. \A c \in Class : com[c] \in Nat /\ Len(got[c]) \in Nat
    BY DEF TypeOK
  <2>7. sEntry'.no = com'[sEntry'.cls]
    BY <2>2, <2>3, <2>4, <2>6 DEF TypeOK
  <2>8. UnderWay'
    <3>1. \A c \in Class : com'[c] = com[c] + (IF c = e.cls THEN 1 ELSE 0)
      BY SMTT(30), <2>2, <2>3, <2>6 DEF TypeOK
    <3>2. QED BY <1>1, <2>1, <2>2, <2>6, <3>1 DEF UnderWay, Settled
  <2>9. CASE e.delay = 0 /\ Ready(e)
    <3>1. pc' = "hold" /\ bus' = sEntry' BY <2>2, <2>9 DEF Present
    <3>2. Ready(sEntry)' BY <1>1, <2>2, <2>9 DEF Ready, IsWrite
    <3>3. QED BY <1>1, <2>2, <2>5, <2>7, <2>8, <3>1, <3>2 DEF Handshake
  <2>10. CASE ~(e.delay = 0 /\ Ready(e))
    <3>1. pc' = "delay" /\ bus' = NoEntry BY <2>2, <2>10 DEF Withhold
    <3>2. QED BY <2>7, <2>8, <3>1 DEF Handshake
  <2>11. QED BY <2>9, <2>10
<1>5. CASE CountDown
  <2>1. /\ UnderWay /\ sEntry.no = com[sEntry.cls] /\ sEntry' = sEntry /\ com' = com
    BY <1>5 DEF CountDown, Handshake
  <2>2. UnderWay' /\ sEntry'.no = com'[sEntry'.cls]
    BY <1>1, <2>1 DEF UnderWay
  <2>3. sEntry # NoEntry
    <3>1. sEntry.cls \in Class BY DEF TypeOK, Entry
    <3>2. com[sEntry.cls] = Len(got[sEntry.cls]) + 1 /\ Len(got[sEntry.cls]) \in Nat
      BY <2>1, <3>1 DEF UnderWay, TypeOK
    <3>3. sEntry.no # 0 BY <2>1, <3>2
    <3>4. QED BY <3>3 DEF NoEntry
  <2>4. CASE do_wait = 0 /\ Ready(sEntry)
    <3>1. pc' = "hold" /\ bus' = sEntry' BY <1>5, <2>1, <2>4 DEF CountDown, Present
    <3>2. Ready(sEntry)' BY <1>1, <2>1, <2>4 DEF Ready, IsWrite
    <3>3. QED BY <1>1, <2>1, <2>2, <2>3, <3>1, <3>2 DEF Handshake
  <2>5. CASE ~(do_wait = 0 /\ Ready(sEntry))
    <3>1. pc' = "delay" /\ bus' = NoEntry BY <1>5, <2>5 DEF CountDown, Withhold
    <3>2. QED BY <2>2, <3>1 DEF Handshake
  <2>6. QED BY <2>4, <2>5
<1>6. CASE HoldStimulus
  <2>1. /\ pc = "hold" /\ ~Ready(sEntry)
        /\ pc' = pc /\ bus' = bus /\ sEntry' = sEntry /\ com' = com
    BY <1>6 DEF HoldStimulus
  <2>2. Settled /\ bus = sEntry /\ sEntry # NoEntry /\ sEntry.no = com[sEntry.cls]
    BY <2>1 DEF Handshake
  <2>3. Settled' /\ ~Ready(sEntry)'
    BY <1>1, <2>1, <2>2 DEF Settled, Ready, IsWrite
  <2>4. QED BY <2>1, <2>2, <2>3 DEF Handshake
<1>7. QED
  BY <1>2, <1>3, <1>4, <1>5, <1>6 DEF Drive

LEMMA HandshakeOther ==
  ASSUME Handshake, ~aborted, Sample \/ AddStimulus \/ DispathSignOff
  PROVE  Handshake'
<1> USE DEF SampleStep, driveVars, sampleVars, dutVars, clientVars
<1>1. /\ UNCHANGED <<pc, bus, sEntry, com, got, dut_wr_wait, dut_rd_wait>>
      /\ "drive" \in todo' <=> "drive" \in todo
  BY DEF Sample, BackPressure, NoAccess, SpiReadError, OutOfRange, SampleRead, SampleWrite,
         AddStimulus, DispathSignOff
<1>2. /\ Settled' <=> Settled
      /\ UnderWay' <=> UnderWay
      /\ Ready(sEntry)' <=> Ready(sEntry)
  BY <1>1 DEF Settled, UnderWay, Ready, IsWrite
<1>3. QED BY <1>1, <1>2 DEF Handshake

LEMMA DeliveryRisingEdge ==
  ASSUME TypeOK, Handshake, AcceptedInOrder, ~aborted, RisingEdge
  PROVE  Handshake' /\ AcceptedInOrder'
<1> USE DEF driveVars, sampleVars, dutVars, clientVars
<1>1. /\ UNCHANGED <<pc, bus, sEntry, com>>
      /\ "drive" \notin todo /\ "drive" \in todo'
  BY DEF RisingEdge, Thread
<1>2. pc \in {"idle", "delay", "hold"} /\ sEntry.cls \in Class
      /\ \A c \in Class : com[c] \in Nat /\ got[c] \in Seq(Entry) /\ Len(got[c]) \in Nat
  <2>1. sEntry.cls \in Class BY DEF TypeOK, Entry
  <2>2. ASSUME NEW c \in Class
        PROVE  com[c] \in Nat /\ got[c] \in Seq(Entry) /\ Len(got[c]) \in Nat
    BY DEF TypeOK
  <2>3. pc \in {"idle", "delay", "hold"} BY DEF TypeOK
  <2>4. QED BY <2>1, <2>2, <2>3
<1>3. CASE Accepted
  <2>1. pc = "hold" /\ bus = sEntry /\ sEntry.no = com[sEntry.cls] /\ sEntry # NoEntry
    BY <1>2, <1>3 DEF Accepted, Handshake
  <2>2. UnderWay
    BY <1>1, <1>3, <2>1 DEF Accepted, Handshake
  <2> DEFINE c == sEntry.cls
  <2>3. got' = [got EXCEPT ![c] = Append(got[c], sEntry)]
    BY <1>3, <2>1 DEF RisingEdge, SlaveInterface
  <2>4. sEntry.no = Len(got[c]) + 1
    BY <1>2, <2>1, <2>2 DEF UnderWay
  <2>5. /\ Len(got'[c]) = Len(got[c]) + 1
        /\ \A i \in 1..Len(got[c]) : got'[c][i] = got[c][i]
        /\ got'[c][Len(got[c]) + 1] = sEntry
        /\ \A d \in Class : d # c => got'[d] = got[d]
    <3>1. sEntry \in Entry /\ got \in [Class -> Seq(Entry)] BY DEF TypeOK
    <3>2. got'[c] = Append(got[c], sEntry) /\ \A d \in Class : d # c => got'[d] = got[d]
      BY <1>2, <2>3, <3>1
    <3>3. QED BY <1>2, <3>1, <3>2, AppendProperties
  <2> HIDE DEF c
  <2>6. Settled'
    <3>1. ASSUME NEW d \in Class PROVE com[d] = Len(got'[d])
      <4>1. com[d] = Len(got[d]) + (IF d = c THEN 1 ELSE 0)
        BY <2>2 DEF UnderWay, c
      <4>2. com[d] \in Nat /\ Len(got[d]) \in Nat BY <1>2
      <4>3. CASE d = c BY <2>5, <4>1, <4>2, <4>3
      <4>4. CASE d # c BY <2>5, <4>1, <4>2, <4>4
      <4>5. QED BY <4>3, <4>4
    <3>2. QED BY <1>1, <3>1 DEF Settled
  <2>7. Handshake'
    BY <1>1, <2>1, <2>6 DEF Handshake
  <2>8. ASSUME NEW d \in Class, NEW i \in 1..Len(got'[d])
        PROVE  got'[d][i].no = i
    <3>1. CASE d # c BY <2>5, <3>1 DEF AcceptedInOrder
    <3>2. CASE d = c /\ i \in 1..Len(got[c]) BY <1>2, <2>5, <3>2 DEF AcceptedInOrder
    <3>3. CASE d = c /\ i = Len(got[c]) + 1 BY <2>4, <2>5, <3>3
    <3>4. QED BY <1>2, <2>5, <3>1, <3>2, <3>3
  <2>9. QED BY <2>7, <2>8 DEF AcceptedInOrder
<1>4. CASE ~Accepted
  <2>1. got' = got
    BY <1>4 DEF RisingEdge, SlaveInterface
  <2>2. (Settled' <=> Settled) /\ (UnderWay' <=> UnderWay)
    BY <1>1, <2>1 DEF Settled, UnderWay
  <2>3. pc = "hold" => Settled
    BY <1>4 DEF Accepted, Handshake
  <2>4. Handshake'
    BY <1>1, <2>2, <2>3 DEF Handshake
  <2>5. QED BY <2>1, <2>4 DEF AcceptedInOrder
<1>5. QED BY <1>3, <1>4
-----------------------------------------------------------------------------
(***************************************************************************)
(* What Sample has seen of the chip's master interface.                    *)
(***************************************************************************)
LEMMA SampledSample ==
  ASSUME TypeOK, Sampled, ~aborted, Sample
  PROVE  Sampled'
<1> USE DEF SampleStep, driveVars, sampleVars, dutVars, clientVars
<1>1. /\ "sample" \in todo /\ ~Fresh'
      /\ UNCHANGED <<dutBus, asked, written>>
  BY DEF Sample, BackPressure, NoAccess, SpiReadError, OutOfRange, SampleRead, SampleWrite, Fresh
<1>2. CASE BackPressure \/ NoAccess
  BY <1>1, <1>2 DEF BackPressure, NoAccess, Sampled, Fresh, TypeOK
<1>3. CASE SpiReadError \/ OutOfRange
  BY <1>3 DEF SpiReadError, OutOfRange, Sampled
<1>4. CASE SampleRead
  <2>1. Fresh /\ ~dutBus.write BY <1>4 DEF SampleRead, Fresh
  <2>2. Len(asked) = sub["wb"] + 1 /\ hostMem = written BY <2>1 DEF Sampled
  <2>3. hostMem' = hostMem /\ sub'["wb"] = sub["wb"] + 1
    BY <1>4 DEF SampleRead, TypeOK, Class
  <2>4. QED BY <1>1, <2>2, <2>3 DEF Sampled
<1>5. CASE SampleWrite
  <2>1. Fresh /\ dutBus.write BY <1>1, <1>5 DEF SampleWrite, Fresh, NoRequest
  <2>2. Len(asked) = sub["wb"] /\ dutBus.no = written BY <2>1 DEF Sampled
  <2>3. hostMem' = dutBus.no /\ sub' = sub
    BY <1>5 DEF SampleWrite
  <2>4. QED BY <1>1, <2>2, <2>3 DEF Sampled
<1>6. QED BY <1>2, <1>3, <1>4, <1>5 DEF Sample

LEMMA SampledOther ==
  ASSUME TypeOK, Sampled, ~aborted, Drive \/ AddStimulus \/ DispathSignOff
  PROVE  Sampled'
<1> USE DEF DriveStep, driveVars, sampleVars, dutVars, clientVars
<1>1. /\ UNCHANGED <<dutBus, asked, written, backoff>>
      /\ "sample" \in todo' <=> "sample" \in todo
  BY DEF Drive, SpiWaitError, NoMoreStimulus, StrayStimulus, PopStimulus,
         CountDown, HoldStimulus, ChipStuck, AddStimulus, DispathSignOff
<1>2. aborted' \/ hostMem' = hostMem
  BY DEF Drive, SpiWaitError, NoMoreStimulus, StrayStimulus, PopStimulus,
         CountDown, HoldStimulus, ChipStuck, AddStimulus, DispathSignOff
<1>3. sub'["wb"] = sub["wb"]
  <2>1. CASE Drive
    BY <2>1 DEF Drive, SpiWaitError, NoMoreStimulus, StrayStimulus, PopStimulus,
                CountDown, HoldStimulus, ChipStuck
  <2>2. CASE AddStimulus
    BY <2>2 DEF AddStimulus, TypeOK, Class
  <2>3. CASE DispathSignOff
    BY <2>3 DEF DispathSignOff, TypeOK, Class
  <2>4. QED BY <2>1, <2>2, <2>3
<1>4. QED BY <1>1, <1>2, <1>3 DEF Sampled, Fresh

LEMMA SampledRisingEdge ==
  ASSUME TypeOK, Sampled, ~aborted, RisingEdge
  PROVE  Sampled'
<1> USE DEF driveVars, sampleVars, dutVars, clientVars
<1>1. hostMem = written /\ Len(asked) = sub["wb"]
  BY DEF RisingEdge, Sampled, Fresh
<1>2. UNCHANGED <<hostMem, sub, backoff>>
  BY DEF RisingEdge
<1>3. CASE HostWaits /\ UNCHANGED <<dutBus, written, asked>>
  <2>1. ~Fresh' BY <1>2, <1>3 DEF HostWaits, Fresh, TypeOK
  <2>2. QED BY <1>1, <1>2, <1>3, <2>1 DEF Sampled
<1>4. CASE dutBus' = NoRequest /\ UNCHANGED <<written, asked>>
  <2>1. ~Fresh' BY <1>4 DEF Fresh
  <2>2. QED BY <1>1, <1>2, <1>4, <2>1 DEF Sampled
<1>5. CASE /\ dutBus' = [write |-> FALSE, no |-> Len(asked) + 1]
           /\ asked' = Append(asked, written) /\ UNCHANGED written
  <2>1. ~dutBus'.write /\ dutBus'.no = Len(asked) + 1 BY <1>5
  <2>2. Len(asked') = Len(asked) + 1 /\ asked'[Len(asked) + 1] = written
    BY <1>5, AppendProperties DEF TypeOK
  <2>3. Fresh'
    <3>1. dutBus' # NoRequest
      <4>1. Len(asked) \in Nat BY DEF TypeOK
      <4>2. dutBus'.no # 0 BY <2>1, <4>1
      <4>3. QED BY <4>2 DEF NoRequest
    <3>2. backoff' = 0 \/ HostWaits
      BY <1>2, HostPortAssumption DEF HostWaits, TypeOK
    <3>3. CASE HostWaits
      BY <1>5, <3>3, <2>1, <2>2 DEF RisingEdge, MasterInterface, TypeOK
    <3>4. QED BY <3>1, <3>2, <3>3 DEF RisingEdge, Thread, Fresh
  <2>4. QED BY <1>1, <1>2, <1>5, <2>1, <2>2, <2>3 DEF Sampled
<1>6. CASE /\ dutBus' = [write |-> TRUE, no |-> written + 1]
           /\ written' = written + 1 /\ UNCHANGED asked
  <2>1. dutBus'.write /\ dutBus'.no = written + 1 BY <1>6
  <2>2. Fresh'
    <3>1. dutBus' # NoRequest BY <2>1 DEF NoRequest
    <3>2. backoff' = 0 \/ HostWaits
      BY <1>2, HostPortAssumption DEF HostWaits, TypeOK
    <3>3. CASE HostWaits
      BY <1>6, <3>3 DEF RisingEdge, MasterInterface, TypeOK
    <3>4. QED BY <3>1, <3>2, <3>3 DEF RisingEdge, Thread, Fresh
  <2>3. QED BY <1>1, <1>2, <1>6, <2>1, <2>2 DEF Sampled
<1>7. QED
  BY <1>3, <1>4, <1>5, <1>6 DEF RisingEdge, MasterInterface
-----------------------------------------------------------------------------
(***************************************************************************)
(* The inductive invariant.                                                *)
(***************************************************************************)
LEMMA InitInv == Init => IInv
<1> SUFFICES ASSUME Init PROVE IInv
  OBVIOUS
<1>1. TypeOK
  BY InitType
<1> DEFINE q == stimulusArray
<1>2. /\ Len(regKind) \in Nat /\ Len(q) = Len(regKind)
      /\ \A i \in 1..Len(q) :
           q[i].cls = "reg" /\ q[i].no = i /\ q[i].kind = regKind[i]
  BY <1>1 DEF Init, TypeOK
<1>3. /\ sub = [c \in Class |-> IF c = "reg" THEN Len(regKind) ELSE 0]
      /\ com = [c \in Class |-> 0] /\ got = [c \in Class |-> <<>>]
      /\ signoffArray = <<>> /\ asked = <<>> /\ hostMem = 0 /\ written = 0
      /\ pc = "idle" /\ sEntry = NoEntry /\ bus = NoEntry /\ todo = {}
  BY DEF Init
<1>4. Numbered(q, com, sub)
  <2> HIDE DEF q
  <2>1. \A c \in Class : com[c] <= sub[c]
    BY <1>2, <1>3
  <2>2. \A i \in 1..Len(q) : com[q[i].cls] < q[i].no /\ q[i].no <= sub[q[i].cls]
    BY <1>2, <1>3 DEF Class
  <2>3. \A i, j \in 1..Len(q) : i < j /\ q[i].cls = q[j].cls => q[i].no < q[j].no
    BY <1>2
  <2>4. ASSUME NEW c \in Class, NEW n \in (com[c] + 1)..sub[c]
        PROVE  \E i \in 1..Len(q) : q[i].cls = c /\ q[i].no = n
    <3>1. c = "reg" /\ n \in 1..Len(q) BY <1>2, <1>3
    <3>2. QED BY <1>2, <3>1
  <2>5. QED BY <2>1, <2>2, <2>3, <2>4 DEF Numbered
<1>5. Ahead(q)
  BY <1>2 DEF Ahead
<1>6. Kinds
  BY <1>2, <1>3 DEF Kinds, Class
<1>7. Handshake
  BY <1>3 DEF Handshake, Settled
<1>8. AcceptedInOrder
  BY <1>3 DEF AcceptedInOrder
<1>9. Sampled
  BY <1>3 DEF Sampled, Fresh, Class
<1>10. AllAnswer
  BY <1>2, <1>3 DEF AllAnswer, Answers, NoEntry, Class
<1>11. QED
  BY <1>1, <1>4, <1>5, <1>6, <1>7, <1>8, <1>9, <1>10 DEF IInv

LEMMA NextInv == IInv /\ [Next]_vars => IInv'
<1> SUFFICES ASSUME IInv, [Next]_vars PROVE IInv'
  OBVIOUS
<1>1. TypeOK /\ QueueInv /\ Handshake /\ AcceptedInOrder /\ Sampled
  BY DEF IInv, QueueInv
<1>2. TypeOK'
  BY <1>1, NextType
<1>3. SUFFICES QueueInv' /\ Handshake' /\ AcceptedInOrder' /\ Sampled'
  BY <1>2 DEF IInv, QueueInv
<1>4. CASE UNCHANGED vars
  <2> USE DEF vars, queueVars, driveVars, sampleVars, dutVars, clientVars
  <2>1. QueueInv'
    BY <1>1, <1>4 DEF QueueInv, Kinds, AllAnswer, Answers
  <2>2. Handshake'
    BY <1>1, <1>4 DEF Handshake, Settled, UnderWay, Ready, IsWrite
  <2>3. AcceptedInOrder'
    BY <1>1, <1>4 DEF AcceptedInOrder
  <2>4. Sampled'
    BY <1>1, <1>4 DEF Sampled, Fresh
  <2>5. QED BY <2>1, <2>2, <2>3, <2>4
<1>5. ASSUME got' = got PROVE AcceptedInOrder'
  BY <1>1, <1>5 DEF AcceptedInOrder
<1>6. CASE ~aborted /\ Drive
  <2>1. got' = got
    BY <1>6 DEF Drive, SpiWaitError, NoMoreStimulus, StrayStimulus, PopStimulus,
                CountDown, HoldStimulus, ChipStuck, DriveStep, dutVars
  <2>2. QED
    BY <1>1, <1>5, <1>6, <2>1, QueueDrive, HandshakeDrive, SampledOther
<1>7. CASE ~aborted /\ Sample
  <2>1. got' = got
    BY <1>7 DEF Sample, BackPressure, NoAccess, SpiReadError, OutOfRange, SampleRead,
                SampleWrite, SampleStep, dutVars
  <2>2. QED
    BY <1>1, <1>5, <1>7, <2>1, QueueSample, HandshakeOther, SampledSample
<1>8. CASE ~aborted /\ RisingEdge
  BY <1>1, <1>8, QueueRisingEdge, DeliveryRisingEdge, SampledRisingEdge
<1>9. CASE ~aborted /\ (AddStimulus \/ DispathSignOff)
  <2>1. got' = got
    BY <1>9 DEF AddStimulus, DispathSignOff, dutVars
  <2>2. QED
    BY <1>1, <1>5, <1>9, <2>1, QueueClient, HandshakeOther, SampledOther
<1>10. QED
  BY <1>4, <1>6, <1>7, <1>8, <1>9 DEF Next, Stopped

LEMMA Invariance == Spec => []IInv
BY InitInv, NextInv, PTL DEF Spec

(***************************************************************************)
(* Exactly once, in order: whatever the delays, the waits of either side   *)
(* and the order of the threads, the i-th entry of a class the chip        *)
(* accepts is the i-th one the test bench submitted.                       *)
(***************************************************************************)
THEOREM DeliveredInOrder == Spec => []AcceptedInOrder
<1>1. IInv => AcceptedInOrder
  BY DEF IInv
<1>2. QED BY <1>1, Invariance, PTL

(***************************************************************************)
(* No answer ever stands behind a regular entry other than an ILAT write.  *)
(***************************************************************************)
THEOREM AnswersGoFirst == Spec => []AnswersAhead
<1>1. IInv => AnswersAhead
  BY DEF IInv, AnswersAhead
<1>2. QED BY <1>1, Invariance, PTL

(***************************************************************************)
(* The i-th answer the chip takes answers its i-th read, with the data of  *)
(* the last write the chip had sent before that read.                      *)
(***************************************************************************)
THEOREM ReadsGetTheirData == Spec => []AnswersMatchReads
<1>1. IInv => AnswersMatchReads
  <2> SUFFICES ASSUME IInv, NEW i \in 1..Len(got["wb"])
               PROVE  /\ i <= Len(asked)
                      /\ got["wb"][i].no = i /\ got["wb"][i].ref = asked[i]
    BY DEF AnswersMatchReads
  <2>1. got["wb"][i].cls = "wb" /\ Answers(got["wb"][i])
    BY DEF IInv, AllAnswer
  <2>2. got["wb"][i].no = i
    BY DEF IInv, AcceptedInOrder, Class
  <2>3. Len(asked) \in Nat BY DEF IInv, TypeOK
  <2>4. QED BY <2>1, <2>2, <2>3 DEF Answers
<1>2. QED BY <1>1, Invariance, PTL

(***************************************************************************)
(* The address log holds the chip's writes once each, in order, and before *)
(* sign-off it has all of them.                                            *)
(***************************************************************************)
LEMMA LogStep ==
  ASSUME IInv, WritesLoggedOnce, [Next]_vars
  PROVE  WritesLoggedOnce'
<1> USE DEF queueVars, driveVars, sampleVars, dutVars, clientVars
<1>1. CASE UNCHANGED vars
  BY <1>1 DEF vars, WritesLoggedOnce
<1>2. CASE ~aborted /\ SampleWrite
  <2>1. Fresh /\ dutBus.write
    BY <1>2 DEF SampleWrite, SampleStep, Fresh, NoRequest
  <2>2. dutBus.no = hostMem + 1
    BY <1>2, <2>1 DEF IInv, Sampled
  <2>3. addrLog \in Seq(Nat) /\ dutBus.no \in Nat /\ hostMem \in Nat
    BY DEF IInv, TypeOK, Request
  <2>4. hostMem' = dutBus.no /\ signOffStarted' = signOffStarted
    BY <1>2 DEF SampleWrite, SampleStep
  <2>5. CASE signOffStarted
    BY <1>2, <2>4, <2>5 DEF SampleWrite, WritesLoggedOnce
  <2>6. CASE ~signOffStarted
    <3>1. Len(addrLog) = hostMem
      BY <1>2, <2>6 DEF WritesLoggedOnce
    <3>2. addrLog' = Append(addrLog, dutBus.no)
      BY <1>2, <2>6 DEF SampleWrite
    <3>3. /\ Len(addrLog') = Len(addrLog) + 1
          /\ \A i \in 1..Len(addrLog) : addrLog'[i] = addrLog[i]
          /\ addrLog'[Len(addrLog) + 1] = dutBus.no
      BY <2>3, <3>2, AppendProperties
    <3>4. \A i \in 1..Len(addrLog') : addrLog'[i] = i
      <4>1. ASSUME NEW i \in 1..Len(addrLog') PROVE addrLog'[i] = i
        <5>1. CASE i \in 1..Len(addrLog) BY <3>3, <5>1 DEF WritesLoggedOnce
        <5>2. CASE i = Len(addrLog) + 1 BY <2>2, <3>1, <3>3, <5>2
        <5>3. QED BY <2>3, <3>1, <3>3, <5>1, <5>2
      <4>2. QED BY <4>1
    <3>5. QED BY <2>2, <2>4, <3>1, <3>3, <3>4 DEF WritesLoggedOnce
  <2>7. QED BY <2>5, <2>6
<1>3. ASSUME addrLog' = addrLog, aborted' \/ signOffStarted' \/ hostMem' = hostMem,
             signOffStarted => signOffStarted', aborted => aborted'
      PROVE  WritesLoggedOnce'
  BY <1>3 DEF WritesLoggedOnce
<1>4. CASE ~aborted /\ Drive
  BY <1>3, <1>4
  DEF Drive, SpiWaitError, NoMoreStimulus, StrayStimulus, PopStimulus, CountDown,
      HoldStimulus, ChipStuck, DriveStep
<1>5. CASE ~aborted /\ (BackPressure \/ NoAccess \/ SpiReadError \/ OutOfRange \/ SampleRead)
  BY <1>3, <1>5 DEF BackPressure, NoAccess, SpiReadError, OutOfRange, SampleRead, SampleStep
<1>6. CASE ~aborted /\ (RisingEdge \/ AddStimulus \/ DispathSignOff)
  BY <1>3, <1>6 DEF RisingEdge, AddStimulus, DispathSignOff
<1>7. QED
  BY <1>1, <1>2, <1>4, <1>5, <1>6 DEF Next, Stopped, Sample

THEOREM ChipWritesLogged == Spec => []WritesLoggedOnce
<1>1. Init => WritesLoggedOnce
  BY DEF Init, WritesLoggedOnce
<1>2. IInv /\ WritesLoggedOnce /\ [Next]_vars => WritesLoggedOnce'
  BY LogStep
<1>3. QED BY <1>1, <1>2, Invariance, PTL DEF Spec
-----------------------------------------------------------------------------
(***************************************************************************)
(* The port implements the channel.                                        *)
(***************************************************************************)
accepted == [c \in Class |-> Len(got[c])]

LEMMA InitChannel == Init => Channel!Init
BY HostPortAssumption DEF Init, Channel!Init, Channel!Class, Class

LEMMA Committed ==
  ASSUME IInv, ~aborted, "drive" \in todo, AtTop, stimulusArray # <<>>,
         com' = [com EXCEPT ![Head(stimulusArray).cls] = @ + 1],
         UNCHANGED <<sub, got, regKind>>
  PROVE  \E c \in Class : Channel!Commit(c)
<1> DEFINE h == Head(stimulusArray)
           c == h.cls
<1>1. /\ stimulusArray \in Seq(Entry) /\ Len(stimulusArray) \in Nat \ {0}
      /\ 1 \in 1..Len(stimulusArray) /\ h = stimulusArray[1]
      /\ com \in [Class -> Nat] /\ sub \in [Class -> Nat]
      /\ Numbered(stimulusArray, com, sub) /\ Ahead(stimulusArray)
  BY DEF IInv, TypeOK
<1>2. c \in Class
  BY <1>1, EntryFields
<1>3. h.no = com[c] + 1 /\ com[c] < sub[c]
  BY <1>1, NumberedHead
<1>4. com = accepted
  <2>1. Settled BY AtTopSettled DEF IInv
  <2>2. QED BY <1>1, <2>1 DEF Settled, accepted
<1>5. ASSUME c = "reg"
      PROVE  com["wb"] = sub["wb"] \/ regKind[com["reg"] + 1] = "ilat"
  <2>1. regKind[com["reg"] + 1] = h.kind
    BY <1>1, <1>3, <1>5 DEF IInv, Kinds
  <2>2. CASE com["wb"] # sub["wb"]
    <3>1. com["wb"] \in Nat /\ sub["wb"] \in Nat /\ com["wb"] <= sub["wb"]
      BY <1>1 DEF Class, Numbered
    <3>2. sub["wb"] \in (com["wb"] + 1)..sub["wb"]
      BY <2>2, <3>1
    <3>3. PICK i \in 1..Len(stimulusArray) : stimulusArray[i].cls = "wb"
      BY <1>1, <3>2 DEF Numbered, Class
    <3>4. 1 < i
      BY <1>1, <1>5, <3>3
    <3>5. LetsPass(h)
      BY <1>1, <3>3, <3>4 DEF Ahead
    <3>6. h.kind = "ilat"
      BY <1>5, <3>5 DEF LetsPass
    <3>7. QED BY <2>1, <3>6
  <2>3. QED BY <2>2
<1>6. com' = [com EXCEPT ![c] = @ + 1] /\ accepted' = accepted
  BY DEF accepted
<1> HIDE DEF c, h
<1>7. Channel!Commit(c)
  BY <1>3, <1>4, <1>5, <1>6 DEF Channel!Commit, accepted
<1>8. QED BY <1>2, <1>7

LEMMA NextChannel == IInv /\ [Next]_vars => [Channel!Next]_(Channel!vars)
<1> SUFFICES ASSUME IInv, [Next]_vars PROVE [Channel!Next]_(Channel!vars)
  OBVIOUS
<1> USE DEF queueVars, driveVars, sampleVars, dutVars, clientVars
<1>1. ASSUME UNCHANGED <<sub, com, got, regKind>>
      PROVE  [Channel!Next]_(Channel!vars)
  BY <1>1 DEF Channel!vars
<1>2. CASE UNCHANGED vars
  BY <1>1, <1>2 DEF vars
<1>3. CASE ~aborted /\ (PopStimulus \/ StrayStimulus)
  <2>1. /\ "drive" \in todo /\ AtTop /\ stimulusArray # <<>>
        /\ com' = [com EXCEPT ![Head(stimulusArray).cls] = @ + 1]
        /\ UNCHANGED <<sub, got, regKind>>
    BY <1>3 DEF PopStimulus, StrayStimulus, DriveStep
  <2>2. \E c \in Class : Channel!Commit(c)
    BY <1>3, <2>1, Committed
  <2>3. QED BY <2>2 DEF Channel!Next, Channel!Class, Class
<1>4. CASE ~aborted /\ Drive
  BY <1>1, <1>3, <1>4
  DEF Drive, SpiWaitError, NoMoreStimulus, CountDown, HoldStimulus, ChipStuck, DriveStep
<1>5. CASE ~aborted /\ Sample
  <2>1. CASE SampleRead
    <3>1. sub' = [sub EXCEPT !["wb"] = @ + 1] /\ UNCHANGED <<com, got, regKind>>
      BY <2>1 DEF SampleRead, SampleStep
    <3>2. Channel!Answer BY <3>1 DEF Channel!Answer
    <3>3. QED BY <3>2 DEF Channel!Next
  <2>2. CASE BackPressure \/ NoAccess \/ SpiReadError \/ OutOfRange \/ SampleWrite
    BY <1>1, <2>2 DEF BackPressure, NoAccess, SpiReadError, OutOfRange, SampleWrite, SampleStep
  <2>3. QED BY <1>5, <2>1, <2>2 DEF Sample
<1>6. CASE ~aborted /\ RisingEdge
  <2>1. UNCHANGED <<sub, com, regKind>>
    BY <1>6 DEF RisingEdge
  <2>2. CASE ~Accepted
    BY <1>1, <1>6, <2>1, <2>2 DEF RisingEdge, SlaveInterface
  <2>3. CASE Accepted
    <3> DEFINE c == bus.cls
    <3>1. c \in Class /\ got \in [Class -> Seq(Entry)] /\ bus \in Entry
      <4>1. bus \in Entry /\ got \in [Class -> Seq(Entry)] BY DEF IInv, TypeOK
      <4>2. QED BY <4>1 DEF Entry
    <3>2. pc = "hold" /\ bus = sEntry /\ UnderWay
      BY <1>6, <2>3 DEF IInv, TypeOK, Handshake, Accepted, RisingEdge
    <3>3. Len(got[c]) \in Nat /\ com[c] = Len(got[c]) + 1
      BY <3>1, <3>2 DEF UnderWay
    <3>4. got' = [got EXCEPT ![c] = Append(got[c], bus)]
      BY <1>6, <2>3 DEF RisingEdge, SlaveInterface
    <3>5. accepted' = [accepted EXCEPT ![c] = @ + 1]
      <4>1. Len(Append(got[c], bus)) = Len(got[c]) + 1
        BY <3>1, AppendProperties
      <4> HIDE DEF c
      <4>2. \A d \in Class : Len(got'[d]) = IF d = c THEN Len(got[d]) + 1 ELSE Len(got[d])
        BY <3>1, <3>4, <4>1
      <4>3. QED BY <3>1, <4>2 DEF accepted
    <3>6. accepted[c] < com[c]
      BY <3>1, <3>3 DEF accepted
    <3> HIDE DEF c
    <3>7. c \in Class BY <3>1
    <3>8. \E d \in Class : Channel!Accept(d)
      BY <2>1, <3>5, <3>6, <3>7 DEF Channel!Accept, accepted
    <3>9. QED BY <3>8 DEF Channel!Next, Channel!Class, Class
  <2>4. QED BY <2>2, <2>3
<1>7. CASE ~aborted /\ AddStimulus
  <2>1. PICK k \in ClientKind : regKind' = Append(regKind, k)
    BY <1>7 DEF AddStimulus
  <2>2. UNCHANGED <<com, got>> /\ sub' = [sub EXCEPT !["reg"] = @ + 1]
    BY <1>7 DEF AddStimulus
  <2>3. regKind \in Seq(Kind) /\ k \in Kind /\ Len(regKind) = sub["reg"]
    BY DEF IInv, TypeOK, ClientKind, Kind, Kinds
  <2>4. /\ regKind' \in Seq(Kind) /\ Len(regKind') = Len(regKind) + 1
        /\ SubSeq(regKind', 1, Len(regKind)) = regKind
    <3>1. regKind' = regKind \o <<k>> /\ <<k>> \in Seq(Kind) /\ Len(<<k>>) = 1
      BY <2>1, <2>3, AppendIsConcat
    <3>2. QED BY <2>3, <3>1, KindsPrefix
  <2>5. Channel!Submit
    <3>1. Len(regKind) \in Nat BY <2>3
    <3>2. Len(regKind') > Len(regKind) BY <2>4, <3>1
    <3>3. sub' = [sub EXCEPT !["reg"] = Len(regKind')]
      BY <2>2, <2>3, <2>4
    <3>4. QED BY <2>2, <2>4, <3>2, <3>3 DEF Channel!Submit
  <2>6. QED BY <2>5 DEF Channel!Next
<1>8. CASE ~aborted /\ DispathSignOff
  <2> DEFINE n == Len(signoffArray)
             k == [i \in 1..n |-> "read"]
  <2>1. n \in Nat BY DEF IInv, TypeOK
  <2>2. k \in Seq(Kind) /\ Len(k) = n BY <2>1 DEF Kind
  <2>3. /\ regKind' = regKind \o k /\ UNCHANGED <<com, got>>
        /\ sub' = [sub EXCEPT !["reg"] = @ + n]
    BY <1>8 DEF DispathSignOff
  <2>4. regKind \in Seq(Kind) /\ Len(regKind) = sub["reg"] /\ Len(regKind) \in Nat
    BY DEF IInv, TypeOK, Kinds
  <2> HIDE DEF k, n
  <2>5. /\ regKind' \in Seq(Kind) /\ Len(regKind') = Len(regKind) + n
        /\ SubSeq(regKind', 1, Len(regKind)) = regKind
    BY <2>2, <2>3, <2>4, KindsPrefix
  <2>6. CASE n = 0
    <3>1. regKind' = regKind
      BY <2>4, <2>5, <2>6, SubSeqFull
    <3>2. sub' = sub
      BY <2>3, <2>4, <2>6 DEF IInv, TypeOK
    <3>3. QED BY <1>1, <2>3, <3>1, <3>2
  <2>7. CASE n > 0
    <3>1. Len(regKind') > Len(regKind) BY <2>1, <2>4, <2>5, <2>7
    <3>2. sub' = [sub EXCEPT !["reg"] = Len(regKind')]
      BY <2>3, <2>4, <2>5
    <3>3. Channel!Submit
      BY <2>3, <2>5, <3>1, <3>2 DEF Channel!Submit
    <3>4. QED BY <3>3 DEF Channel!Next
  <2>8. QED BY <2>1, <2>6, <2>7
<1>9. QED
  BY <1>2, <1>4, <1>5, <1>6, <1>7, <1>8 DEF Next, Stopped

(***************************************************************************)
(* The port implements the queue-less channel: nothing is lost, repeated   *)
(* or reordered within a class, one transaction is under way at a time,    *)
(* and only an ILAT write goes before a waiting answer.                    *)
(***************************************************************************)
THEOREM Refinement == Spec => ImplementsChannel
BY InitChannel, NextChannel, Invariance, PTL
DEF Spec, ImplementsChannel, Channel!Spec
-----------------------------------------------------------------------------
(***************************************************************************)
(* The sign-off.  The reads that the sign-off adds are the only regular    *)
(* entries that carry the number of a write, ref.  Each stays, with its    *)
(* ticket, in the queue, in the driver's hand or among what was accepted,  *)
(* from the sign-off to the end of the test.                               *)
(***************************************************************************)
Holds(q, e) == \E i \in 1..Len(q) : q[i] = e

Out(e) == Holds(got["reg"], e) \/ e = sEntry \/ Holds(stimulusArray, e)

Returning == {e \in Entry : e.ref # 0 /\ e.cls = "reg" /\ Out(e)}

\* What the driver holds has been accepted, or its ticket is yet to come.
InHand ==
  /\ sEntry.cls = "reg" /\ sEntry.no \in 1..Len(got["reg"]) =>
       got["reg"][sEntry.no] = sEntry
  /\ pc = "idle" => sEntry.kind = "stray"
  /\ \A i \in 1..Len(got["reg"]) : got["reg"][i].cls = "reg"

\* Until the sign-off, one read is kept for each write that was driven.
KeptReads ==
  ~signOffStarted =>
    /\ Returning = {}
    /\ \A i \in 1..Len(signoffArray) : signoffArray[i].ref \in 1..com["reg"]
    /\ \A i, j \in 1..Len(signoffArray) :
         signoffArray[i].ref = signoffArray[j].ref => i = j
    /\ \A n \in 1..com["reg"] :
         regKind[n] = "write" <=> \E i \in 1..Len(signoffArray) : signoffArray[i].ref = n

\* Then these reads are out, each behind its write.
SentReads ==
  /\ \A e \in Returning : e.kind = "read" /\ e.ref < e.no
  /\ \A e, f \in Returning : e.ref = f.ref => e = f
  /\ signOffStarted =>
       /\ signPoint <= com["reg"]
       /\ \A n \in 1..signPoint :
            regKind[n] = "write" <=> \E e \in Returning : e.ref = n

BackInv == InHand /\ KeptReads /\ SentReads

\* The same entries are out.
LEMMA SameReturning ==
  ASSUME \A e \in Entry : e.ref # 0 /\ e.cls = "reg" => (Out(e)' <=> Out(e))
  PROVE  Returning' = Returning
BY DEF Returning

\* The numbers the invariant is about.
LEMMA Tickets ==
  ASSUME IInv
  PROVE  /\ com["reg"] \in Nat /\ sub["reg"] \in Nat /\ com["reg"] <= sub["reg"]
         /\ Len(got["reg"]) \in Nat /\ got["reg"] \in Seq(Entry)
         /\ regKind \in Seq(Kind) /\ Len(regKind) = sub["reg"]
         /\ stimulusArray \in Seq(Entry) /\ signoffArray \in Seq(Entry)
         /\ sEntry \in Entry /\ signPoint \in Nat
BY DEF IInv, TypeOK, Class, Numbered, Kinds

\* A step that moves no read from one place to another but as it was.
LEMMA KeepReads ==
  ASSUME IInv, BackInv, Returning' = Returning, com'["reg"] = com["reg"],
         signoffArray' = signoffArray, signOffStarted' = signOffStarted,
         signPoint' = signPoint, \A n \in 1..com["reg"] : regKind'[n] = regKind[n]
  PROVE  KeptReads' /\ SentReads'
<1>1. KeptReads'
  BY Tickets DEF BackInv, KeptReads
<1>2. SentReads'
  <2>1. signOffStarted => \A n \in 1..signPoint : n \in 1..com["reg"]
    BY Tickets DEF BackInv, SentReads
  <2> QED BY <2>1, Tickets DEF BackInv, SentReads
<1> QED BY <1>1, <1>2

\* The last entry has been accepted when the driver is at the top.
LEMMA HandTaken ==
  ASSUME IInv, BackInv, ~aborted, "drive" \in todo, AtTop, sEntry \in Returning
  PROVE  Holds(got["reg"], sEntry)
<1>1. sEntry.kind = "read" /\ sEntry.ref < sEntry.no /\ sEntry.cls = "reg"
  BY DEF BackInv, SentReads, Returning
<1>2. pc = "hold"
  BY <1>1 DEF AtTop, BackInv, InHand
<1>3. Settled /\ sEntry.no = com["reg"]
  BY <1>1, <1>2, AtTopSettled DEF IInv, Handshake
<1>4. sEntry.no = Len(got["reg"]) /\ sEntry.no \in Nat /\ sEntry.ref \in Nat
  BY <1>3, Tickets DEF Settled, Class, Entry
<1>5. sEntry.no \in 1..Len(got["reg"])
  BY <1>1, <1>4
<1> QED BY <1>1, <1>5 DEF BackInv, InHand, Holds

\* An empty queue: the driver lets go of an entry that was accepted.
LEMMA BackNoMore ==
  ASSUME IInv, BackInv, ~aborted, NoMoreStimulus
  PROVE  BackInv'
<1>1. /\ "drive" \in todo /\ AtTop /\ sEntry' = NoEntry /\ pc' = "idle"
      /\ UNCHANGED <<stimulusArray, signoffArray, com, got, signOffStarted, signPoint, regKind>>
  BY DEF NoMoreStimulus, DriveStep, queueVars, dutVars, clientVars
<1>2. InHand'
  BY <1>1 DEF InHand, NoEntry, BackInv
<1>3. Returning' = Returning
  <2> SUFFICES ASSUME NEW e \in Entry, e.ref # 0, e.cls = "reg"
               PROVE  Out(e)' <=> Out(e)
    BY SameReturning
  <2>1. e # NoEntry
    BY DEF NoEntry
  <2>2. e = sEntry => Holds(got["reg"], e)
    BY <1>1, HandTaken DEF Returning, Out
  <2> QED BY <1>1, <2>1, <2>2 DEF Out, Holds
<1> QED BY <1>1, <1>2, <1>3, KeepReads DEF BackInv

\* Taking the head: it goes from the queue to the driver's hand.
LEMMA BackTake ==
  ASSUME IInv, BackInv, ~aborted, "drive" \in todo, AtTop, stimulusArray # <<>>,
         stimulusArray' = Tail(stimulusArray), sEntry' = Head(stimulusArray),
         com' = [com EXCEPT ![Head(stimulusArray).cls] = @ + 1],
         UNCHANGED <<got, signOffStarted, signPoint, regKind>>,
         pc' = "idle" => Head(stimulusArray).kind = "stray",
         signoffArray' = IF ReadBack(Head(stimulusArray))
                         THEN Append(signoffArray, SignOffRead(Head(stimulusArray)))
                         ELSE signoffArray
  PROVE  BackInv'
<1> DEFINE h == Head(stimulusArray)
<1>1. /\ h \in Entry /\ h = stimulusArray[1] /\ Len(stimulusArray) \in Nat \ {0}
      /\ Len(stimulusArray') = Len(stimulusArray) - 1
      /\ \A i \in 1..Len(stimulusArray') : stimulusArray'[i] = stimulusArray[i + 1]
  BY Tickets, HeadTailProperties
<1>2. h.cls \in Class /\ h.no \in Nat /\ h.no = com[h.cls] + 1
  BY <1>1, NumberedHead DEF IInv, TypeOK, Entry
<1>3. Settled
  BY AtTopSettled DEF IInv
<1> HIDE DEF h
<1>4. InHand'
  <2>1. sEntry' = h /\ got' = got /\ (pc' = "idle" => h.kind = "stray")
    BY DEF h
  <2>2. h.cls = "reg" => h.no > Len(got["reg"])
    BY <1>2, <1>3, Tickets DEF Settled, Class
  <2>3. ~(h.cls = "reg" /\ h.no \in 1..Len(got["reg"]))
    BY <2>2, Tickets
  <2> QED BY <2>1, <2>3 DEF InHand, BackInv
<1>5. Returning' = Returning
  <2> SUFFICES ASSUME NEW e \in Entry, e.ref # 0, e.cls = "reg"
               PROVE  Out(e)' <=> Out(e)
    BY SameReturning
  <2>1. e = sEntry => Holds(got["reg"], e)
    BY HandTaken DEF Returning, Out
  <2>2. Holds(stimulusArray, e) => e = h \/ Holds(stimulusArray', e)
    <3> SUFFICES ASSUME NEW i \in 1..Len(stimulusArray), stimulusArray[i] = e, i # 1
                 PROVE  Holds(stimulusArray', e)
      BY <1>1 DEF Holds
    <3>1. i - 1 \in 1..Len(stimulusArray') /\ stimulusArray'[i - 1] = stimulusArray[(i - 1) + 1]
      BY <1>1
    <3>2. (i - 1) + 1 = i
      BY <1>1
    <3> QED BY <3>1, <3>2 DEF Holds
  <2>3. Holds(stimulusArray', e) => Holds(stimulusArray, e)
    <3> SUFFICES ASSUME NEW i \in 1..Len(stimulusArray'), stimulusArray'[i] = e
                 PROVE  Holds(stimulusArray, e)
      BY DEF Holds
    <3>1. i + 1 \in 1..Len(stimulusArray) /\ stimulusArray[i + 1] = e
      BY <1>1
    <3> QED BY <3>1 DEF Holds
  <2>4. Holds(stimulusArray, h)
    BY <1>1 DEF Holds
  <2>5. sEntry' = h /\ got' = got
    BY DEF h
  <2>6. Out(e)' <=> Holds(got["reg"], e) \/ e = h \/ Holds(stimulusArray', e)
    BY <2>5 DEF Out, Holds
  <2> QED BY <2>1, <2>2, <2>3, <2>4, <2>6 DEF Out
<1>6. CASE h.cls # "reg"
  <2>1. com'["reg"] = com["reg"]
    BY <1>2, <1>6 DEF h, IInv, TypeOK, Class
  <2>2. signoffArray' = signoffArray
    BY <1>6 DEF ReadBack, h
  <2> QED BY <1>4, <1>5, <2>1, <2>2, KeepReads DEF BackInv
<1>7. CASE h.cls = "reg"
  <2>1. com'["reg"] = com["reg"] + 1
    BY <1>2, <1>7, SMTT(30) DEF h, IInv, TypeOK, Class
  <2>2. regKind[com["reg"] + 1] = h.kind
    <3>1. 1 \in 1..Len(stimulusArray)
      BY <1>1
    <3> QED BY <1>1, <1>2, <1>7, <3>1 DEF IInv, Kinds
  <2>3. SentReads'
    BY <1>5, <2>1, Tickets DEF BackInv, SentReads
  <2>4. KeptReads'
    <3> SUFFICES ASSUME ~signOffStarted PROVE KeptReads'
      BY DEF KeptReads
    <3>1. /\ Returning' = {} /\ regKind' = regKind
          /\ \A i \in 1..Len(signoffArray) : signoffArray[i].ref \in 1..com["reg"]
          /\ \A i, j \in 1..Len(signoffArray) :
               signoffArray[i].ref = signoffArray[j].ref => i = j
          /\ \A n \in 1..com["reg"] :
               regKind[n] = "write" <=> \E i \in 1..Len(signoffArray) : signoffArray[i].ref = n
      BY <1>5 DEF BackInv, KeptReads
    <3>2. CASE h.kind # "write"
      <4>1. signoffArray' = signoffArray
        BY <3>2 DEF ReadBack, h
      <4>2. \A i \in 1..Len(signoffArray) : signoffArray[i].ref # com["reg"] + 1
        BY <3>1, Tickets
      <4>3. \A n \in 1..(com["reg"] + 1) : n \in 1..com["reg"] \/ n = com["reg"] + 1
        BY Tickets
      <4>4. \A n \in 1..(com["reg"] + 1) :
              regKind[n] = "write" <=> \E i \in 1..Len(signoffArray) : signoffArray[i].ref = n
        BY <2>2, <3>1, <3>2, <4>2, <4>3
      <4>5. \A i \in 1..Len(signoffArray) : signoffArray[i].ref \in 1..(com["reg"] + 1)
        BY <3>1, Tickets
      <4> QED BY <2>1, <3>1, <4>1, <4>4, <4>5 DEF KeptReads
    <3>3. CASE h.kind = "write"
      <4> DEFINE r == SignOffRead(h)
                 m == Len(signoffArray)
      <4>1. r \in Entry /\ r.ref = com["reg"] + 1
        BY <1>1, <1>2, <1>7 DEF SignOffRead, Entry, Kind
      <4>2. signoffArray' = Append(signoffArray, r)
        BY <1>7, <3>3 DEF ReadBack, h
      <4> HIDE DEF r
      <4>3. /\ Len(signoffArray') = m + 1 /\ m \in Nat
            /\ \A i \in 1..m : signoffArray'[i] = signoffArray[i]
            /\ signoffArray'[m + 1] = r
        BY <4>1, <4>2, Tickets, AppendProperties
      <4>4. \A i \in 1..(m + 1) : i \in 1..m \/ i = m + 1
        BY <4>3
      <4>5. \A i \in 1..Len(signoffArray') : signoffArray'[i].ref \in 1..(com["reg"] + 1)
        <5> SUFFICES ASSUME NEW i \in 1..(m + 1)
                     PROVE  signoffArray'[i].ref \in 1..(com["reg"] + 1)
          BY <4>3
        <5>1. CASE i \in 1..m
          BY <3>1, <4>3, <5>1, Tickets
        <5>2. CASE i = m + 1
          BY <4>1, <4>3, <5>2, Tickets
        <5> QED BY <4>4, <5>1, <5>2
      <4>6. \A i \in 1..m : signoffArray'[i].ref # com["reg"] + 1
        BY <3>1, <4>3, Tickets
      <4>7. \A i, j \in 1..Len(signoffArray') :
              signoffArray'[i].ref = signoffArray'[j].ref => i = j
        <5> SUFFICES ASSUME NEW i \in 1..(m + 1), NEW j \in 1..(m + 1),
                            signoffArray'[i].ref = signoffArray'[j].ref
                     PROVE  i = j
          BY <4>3
        <5>1. CASE i \in 1..m /\ j \in 1..m
          BY <3>1, <4>3, <5>1
        <5>2. CASE i = m + 1 \/ j = m + 1
          BY <4>1, <4>3, <4>4, <4>6, <5>2
        <5> QED BY <4>4, <5>1, <5>2
      <4>8. \A n \in 1..(com["reg"] + 1) :
              regKind[n] = "write" <=> \E i \in 1..Len(signoffArray') : signoffArray'[i].ref = n
        <5> SUFFICES ASSUME NEW n \in 1..(com["reg"] + 1)
                     PROVE  regKind[n] = "write" <=>
                              \E i \in 1..(m + 1) : signoffArray'[i].ref = n
          BY <4>3
        <5>1. CASE n = com["reg"] + 1
          <6>1. m + 1 \in 1..(m + 1) /\ signoffArray'[m + 1].ref = n
            BY <4>1, <4>3, <5>1
          <6> QED BY <2>2, <3>3, <5>1, <6>1
        <5>2. CASE n \in 1..com["reg"]
          <6>1. (\E i \in 1..(m + 1) : signoffArray'[i].ref = n)
                  <=> \E i \in 1..m : signoffArray[i].ref = n
            <7>1. signoffArray'[m + 1].ref # n
              BY <4>1, <4>3, <5>2, Tickets
            <7>2. 1..m \subseteq 1..(m + 1)
              BY <4>3
            <7> QED BY <4>3, <4>4, <7>1, <7>2
          <6> QED BY <3>1, <5>2, <6>1
        <5>3. n = com["reg"] + 1 \/ n \in 1..com["reg"]
          BY Tickets
        <5> QED BY <5>1, <5>2, <5>3
      <4> HIDE DEF m
      <4> QED BY <2>1, <3>1, <4>5, <4>7, <4>8 DEF KeptReads
    <3> QED BY <3>2, <3>3
  <2> QED BY <1>4, <2>3, <2>4 DEF BackInv
<1> QED BY <1>6, <1>7

\* The other paths of drive_stimulus move nothing.
LEMMA BackDrive ==
  ASSUME IInv, BackInv, ~aborted, Drive
  PROVE  BackInv'
<1>1. CASE NoMoreStimulus
  BY <1>1, BackNoMore
<1>2. CASE StrayStimulus
  <2>1. ~ReadBack(Head(stimulusArray))
    BY <1>2 DEF StrayStimulus, ReadBack
  <2> QED
    BY <1>2, <2>1, BackTake DEF StrayStimulus, DriveStep, dutVars, clientVars
<1>3. CASE PopStimulus
  <2>1. pc' # "idle"
    BY <1>3 DEF PopStimulus, Present, Withhold
  <2> QED
    BY <1>3, <2>1, BackTake DEF PopStimulus, DriveStep, dutVars, clientVars
<1>4. CASE SpiWaitError \/ CountDown \/ HoldStimulus \/ ChipStuck
  <2>1. UNCHANGED <<stimulusArray, signoffArray, sEntry, com, got, signOffStarted,
                    signPoint, regKind>>
    BY <1>4 DEF SpiWaitError, CountDown, HoldStimulus, ChipStuck, DriveStep,
                queueVars, driveVars, dutVars, clientVars
  <2>2. pc' = "idle" => pc = "idle"
    BY <1>4 DEF SpiWaitError, CountDown, HoldStimulus, ChipStuck, Present, Withhold, driveVars
  <2>3. Returning' = Returning
    BY <2>1 DEF Returning, Out, Holds
  <2>4. InHand'
    BY <2>1, <2>2 DEF InHand, BackInv
  <2> QED BY <2>1, <2>3, <2>4, KeepReads DEF BackInv
<1> QED BY <1>1, <1>2, <1>3, <1>4 DEF Drive

\* An answer that is inserted is none of these reads, and moves none out.
LEMMA BackSample ==
  ASSUME IInv, BackInv, ~aborted, Sample
  PROVE  BackInv'
<1>1. UNCHANGED <<signoffArray, sEntry, pc, com, got, signOffStarted, signPoint, regKind>>
  BY DEF Sample, BackPressure, NoAccess, SpiReadError, OutOfRange, SampleRead, SampleWrite,
         SampleStep, driveVars, dutVars, clientVars
<1>2. Returning' = Returning
  <2>1. CASE stimulusArray' = stimulusArray
    BY <1>1, <2>1 DEF Returning, Out, Holds
  <2>2. CASE SampleRead
    <3>1. PICK d \in Delays : stimulusArray' = AddWriteBackStimulus(stimulusArray,
            [cls |-> "wb", no |-> dutBus.no, kind |-> "write", delay |-> d, ref |-> hostMem])
      BY <2>2 DEF SampleRead
    <3> DEFINE w == [cls |-> "wb", no |-> dutBus.no, kind |-> "write", delay |-> d, ref |-> hostMem]
               p == InsertPoint(stimulusArray)
    <3>2. w \in Entry /\ w.cls = "wb"
      BY HostPortAssumption DEF IInv, TypeOK, Request, Entry, Class, Kind
    <3> HIDE DEF w
    <3>3. p \in 1..(Len(stimulusArray) + 1)
      BY Tickets, InsertPointProperties
    <3>4. stimulusArray' = InsertAt(stimulusArray, p, w)
      BY <3>1 DEF AddWriteBackStimulus, w
    <3> HIDE DEF p
    <3>5. /\ Len(stimulusArray') = Len(stimulusArray) + 1 /\ Len(stimulusArray) \in Nat
          /\ \A i \in 1..(Len(stimulusArray) + 1) : stimulusArray'[i] =
               IF i < p THEN stimulusArray[i] ELSE IF i = p THEN w ELSE stimulusArray[i - 1]
      <4>1. /\ Len(InsertAt(stimulusArray, p, w)) = Len(stimulusArray) + 1
            /\ \A i \in 1..(Len(stimulusArray) + 1) : InsertAt(stimulusArray, p, w)[i] =
                 IF i < p THEN stimulusArray[i] ELSE IF i = p THEN w ELSE stimulusArray[i - 1]
        BY <3>2, <3>3, Tickets, InsertAtProperties
      <4>2. Len(stimulusArray) \in Nat
        BY Tickets, LenProperties
      <4> QED BY ONLY <3>4, <4>1, <4>2
    <3> SUFFICES ASSUME NEW e \in Entry, e.ref # 0, e.cls = "reg"
                 PROVE  Out(e)' <=> Out(e)
      BY SameReturning
    <3>6. e # w
      BY <3>2
    <3>7. Holds(stimulusArray', e) => Holds(stimulusArray, e)
      <4> SUFFICES ASSUME NEW i \in 1..Len(stimulusArray'), stimulusArray'[i] = e
                   PROVE  Holds(stimulusArray, e)
        BY DEF Holds
      <4>1. CASE i < p
        <5>1. i \in 1..Len(stimulusArray) /\ stimulusArray[i] = e
          BY <3>3, <3>5, <4>1
        <5> QED BY <5>1 DEF Holds
      <4>2. CASE i > p
        <5>1. i - 1 \in 1..Len(stimulusArray) /\ stimulusArray[i - 1] = e
          BY <3>3, <3>5, <4>2
        <5> QED BY <5>1 DEF Holds
      <4>3. i # p
        BY <3>3, <3>5, <3>6
      <4> QED BY <3>3, <3>5, <4>1, <4>2, <4>3
    <3>8. Holds(stimulusArray, e) => Holds(stimulusArray', e)
      <4> SUFFICES ASSUME NEW i \in 1..Len(stimulusArray), stimulusArray[i] = e
                   PROVE  Holds(stimulusArray', e)
        BY DEF Holds
      <4>1. CASE i < p
        <5>1. i \in 1..Len(stimulusArray') /\ stimulusArray'[i] = e
          BY <3>3, <3>5, <4>1
        <5> QED BY <5>1 DEF Holds
      <4>2. CASE i >= p
        <5>1. i + 1 \in 1..(Len(stimulusArray) + 1) /\ ~(i + 1 < p) /\ i + 1 # p /\ (i + 1) - 1 = i
          BY <3>3, <3>5, <4>2
        <5>2. stimulusArray'[i + 1] = stimulusArray[(i + 1) - 1]
          BY <3>5, <5>1
        <5> QED BY <3>5, <5>1, <5>2 DEF Holds
      <4> QED BY <3>3, <3>5, <4>1, <4>2
    <3>9. Out(e)' <=> Holds(got["reg"], e) \/ e = sEntry \/ Holds(stimulusArray', e)
      BY <1>1 DEF Out, Holds
    <3> QED BY <3>7, <3>8, <3>9 DEF Out
  <2> QED
    BY <2>1, <2>2 DEF Sample, BackPressure, NoAccess, SpiReadError, OutOfRange, SampleWrite
<1>3. InHand'
  BY <1>1 DEF InHand, BackInv
<1> QED BY <1>1, <1>2, <1>3, KeepReads DEF BackInv

\* Accepting: the entry in hand is the next of its class.
LEMMA BackRisingEdge ==
  ASSUME IInv, BackInv, ~aborted, RisingEdge
  PROVE  BackInv'
<1>1. /\ UNCHANGED <<stimulusArray, signoffArray, sEntry, pc, com, signOffStarted, signPoint,
                     regKind, bus>>
      /\ "drive" \notin todo
  BY DEF RisingEdge, queueVars, driveVars, clientVars
<1>2. CASE Accepted /\ sEntry.cls = "reg"
  <2>1. /\ pc = "hold" /\ bus = sEntry /\ Ready(sEntry) /\ sEntry.no = com["reg"] /\ UnderWay
    BY <1>1, <1>2 DEF Accepted, IInv, Handshake, TypeOK
  <2>2. got'["reg"] = Append(got["reg"], sEntry)
    BY <1>2, <2>1 DEF RisingEdge, SlaveInterface, IInv, TypeOK, Class
  <2>3. /\ Len(got'["reg"]) = Len(got["reg"]) + 1
        /\ \A i \in 1..Len(got["reg"]) : got'["reg"][i] = got["reg"][i]
        /\ got'["reg"][Len(got["reg"]) + 1] = sEntry
    BY <2>2, Tickets, AppendProperties
  <2>4. sEntry.no = Len(got["reg"]) + 1
    BY <1>2, <2>1, Tickets DEF UnderWay, Class
  <2>5. \A i \in 1..(Len(got["reg"]) + 1) : i \in 1..Len(got["reg"]) \/ i = Len(got["reg"]) + 1
    BY Tickets
  <2>6. InHand'
    <3>1. got'["reg"][sEntry.no] = sEntry
      BY <2>3, <2>4
    <3>2. \A i \in 1..Len(got'["reg"]) : got'["reg"][i].cls = "reg"
      BY <1>2, <2>3, <2>5 DEF BackInv, InHand
    <3> QED BY <1>1, <3>1, <3>2 DEF InHand, BackInv
  <2>7. Returning' = Returning
    <3> SUFFICES ASSUME NEW e \in Entry
                 PROVE  Out(e)' <=> Out(e)
      BY SameReturning
    <3>1. Holds(got'["reg"], e) => Holds(got["reg"], e) \/ e = sEntry
      BY <2>3, <2>5 DEF Holds
    <3>2. Holds(got["reg"], e) => Holds(got'["reg"], e)
      <4>1. 1..Len(got["reg"]) \subseteq 1..(Len(got["reg"]) + 1)
        BY Tickets
      <4> QED BY <2>3, <4>1 DEF Holds
    <3>3. Out(e)' <=> Holds(got'["reg"], e) \/ e = sEntry \/ Holds(stimulusArray, e)
      BY <1>1 DEF Out, Holds
    <3> QED BY <3>1, <3>2, <3>3 DEF Out
  <2> QED BY <1>1, <2>6, <2>7, KeepReads DEF BackInv
<1>3. CASE ~(Accepted /\ sEntry.cls = "reg")
  <2>1. Accepted => bus = sEntry
    BY <1>1 DEF Accepted, IInv, Handshake, TypeOK
  <2>2. got'["reg"] = got["reg"]
    BY <1>3, <2>1 DEF RisingEdge, SlaveInterface, IInv, TypeOK, Class
  <2>3. InHand'
    BY <1>1, <2>2 DEF InHand, BackInv
  <2>4. Returning' = Returning
    BY <1>1, <2>2 DEF Returning, Out, Holds
  <2> QED BY <1>1, <2>3, <2>4, KeepReads DEF BackInv
<1> QED BY <1>2, <1>3

\* What a client adds reads nothing back.
LEMMA BackAddStimulus ==
  ASSUME IInv, BackInv, AddStimulus
  PROVE  BackInv'
<1>1. /\ UNCHANGED <<signoffArray, sEntry, pc, com, got, signOffStarted, signPoint>>
  BY DEF AddStimulus, driveVars, dutVars
<1>2. PICK k \in ClientKind, d \in Delays :
        /\ regKind' = Append(regKind, k)
        /\ stimulusArray' = Append(stimulusArray,
             [cls |-> "reg", no |-> sub["reg"] + 1, kind |-> k, delay |-> d, ref |-> 0])
  BY DEF AddStimulus
<1> DEFINE a == [cls |-> "reg", no |-> sub["reg"] + 1, kind |-> k, delay |-> d, ref |-> 0]
<1>3. a \in Entry /\ a.ref = 0 /\ k \in Kind
  BY HostPortAssumption, Tickets DEF Entry, Class, ClientKind, Kind
<1>4. stimulusArray' = Append(stimulusArray, a)
  BY <1>2
<1> HIDE DEF a
<1>5. /\ Len(stimulusArray') = Len(stimulusArray) + 1 /\ Len(stimulusArray) \in Nat
      /\ \A i \in 1..Len(stimulusArray) : stimulusArray'[i] = stimulusArray[i]
      /\ stimulusArray'[Len(stimulusArray) + 1] = a
  BY <1>3, <1>4, Tickets, AppendProperties
<1>6. \A i \in 1..(Len(stimulusArray) + 1) :
        i \in 1..Len(stimulusArray) \/ i = Len(stimulusArray) + 1
  BY <1>5
<1>7. Returning' = Returning
  <2> SUFFICES ASSUME NEW e \in Entry, e.ref # 0, e.cls = "reg"
               PROVE  Out(e)' <=> Out(e)
    BY SameReturning
  <2>1. Holds(stimulusArray', e) => Holds(stimulusArray, e)
    BY <1>3, <1>5, <1>6 DEF Holds
  <2>2. Holds(stimulusArray, e) => Holds(stimulusArray', e)
    <3>1. 1..Len(stimulusArray) \subseteq 1..(Len(stimulusArray) + 1)
      BY <1>5
    <3> QED BY <1>5, <3>1 DEF Holds
  <2>3. Out(e)' <=> Holds(got["reg"], e) \/ e = sEntry \/ Holds(stimulusArray', e)
    BY <1>1 DEF Out, Holds
  <2> QED BY <2>1, <2>2, <2>3 DEF Out
<1>8. \A n \in 1..com["reg"] : regKind'[n] = regKind[n]
  <2>1. \A n \in 1..com["reg"] : n \in 1..Len(regKind)
    BY Tickets
  <2> QED BY <1>2, <1>3, <2>1, Tickets, AppendProperties
<1>9. InHand'
  BY <1>1 DEF InHand, BackInv
<1> QED BY <1>1, <1>7, <1>8, <1>9, KeepReads DEF BackInv

\* The sign-off puts the reads that were kept at the end of the queue.
LEMMA BackDispath ==
  ASSUME IInv, BackInv, DispathSignOff
  PROVE  BackInv'
<1> DEFINE m == Len(signoffArray)
           r == [i \in 1..m |-> [signoffArray[i] EXCEPT !.no = sub["reg"] + i]]
           x == [i \in 1..m |-> "read"]
<1>1. /\ UNCHANGED <<signoffArray, sEntry, pc, com, got>>
      /\ ~signOffStarted /\ signOffStarted' /\ signPoint' = com["reg"]
      /\ stimulusArray' = stimulusArray \o r /\ regKind' = regKind \o x
  BY DEF DispathSignOff, driveVars, dutVars
<1>2. m \in Nat /\ \A i \in 1..m : signoffArray[i] \in Entry
  BY Tickets, ElementOfSeq
<1>3. \A i \in 1..m :
        /\ signoffArray[i].cls = "reg" /\ signoffArray[i].kind = "read"
        /\ signoffArray[i].ref \in 1..com["reg"]
  BY <1>1 DEF IInv, Kinds, BackInv, KeptReads
<1>4. \A i \in 1..m :
        /\ r[i] \in Entry /\ r[i].cls = "reg" /\ r[i].kind = "read"
        /\ r[i].no = sub["reg"] + i /\ r[i].ref = signoffArray[i].ref
  <2> SUFFICES ASSUME NEW i \in 1..m
               PROVE  /\ r[i] \in Entry /\ r[i].cls = "reg" /\ r[i].kind = "read"
                      /\ r[i].no = sub["reg"] + i /\ r[i].ref = signoffArray[i].ref
    OBVIOUS
  <2>1. r[i] = [signoffArray[i] EXCEPT !.no = sub["reg"] + i] /\ sub["reg"] + i \in Nat
    BY <1>2, Tickets
  <2> HIDE DEF r, m
  <2> QED BY <1>2, <1>3, <2>1 DEF Entry
<1>5. r \in Seq(Entry) /\ Len(r) = m
  BY <1>2, <1>4
<1> HIDE DEF r
<1>6. /\ Len(stimulusArray') = Len(stimulusArray) + m /\ Len(stimulusArray) \in Nat
      /\ \A i \in 1..(Len(stimulusArray) + m) : stimulusArray'[i] =
           IF i <= Len(stimulusArray) THEN stimulusArray[i] ELSE r[i - Len(stimulusArray)]
  BY <1>1, <1>5, Tickets, ConcatProperties
<1>7. Returning = {}
  BY <1>1 DEF BackInv, KeptReads
<1>8. \A i \in 1..m : r[i] \in Returning'
  <2> SUFFICES ASSUME NEW i \in 1..m PROVE Holds(stimulusArray', r[i]) /\ r[i].ref # 0
    BY <1>4 DEF Returning, Out, Holds
  <2>1. /\ Len(stimulusArray) + i \in 1..Len(stimulusArray')
        /\ ~(Len(stimulusArray) + i <= Len(stimulusArray))
        /\ (Len(stimulusArray) + i) - Len(stimulusArray) = i
    BY <1>2, <1>6
  <2>2. stimulusArray'[Len(stimulusArray) + i] = r[(Len(stimulusArray) + i) - Len(stimulusArray)]
    BY <1>6, <2>1
  <2>3. r[i].ref # 0
    <3>1. signoffArray[i].ref \in 1..com["reg"] /\ r[i].ref = signoffArray[i].ref
      BY <1>3, <1>4
    <3>2. 0 \notin 1..com["reg"]
      BY Tickets
    <3> QED BY <3>1, <3>2
  <2> QED BY <2>1, <2>2, <2>3 DEF Holds
<1>9. \A e \in Returning' : \E i \in 1..m : e = r[i]
  <2> SUFFICES ASSUME NEW e \in Returning' PROVE \E i \in 1..m : e = r[i]
    OBVIOUS
  <2>1. /\ e \in Entry /\ e.ref # 0 /\ e.cls = "reg"
        /\ Holds(got["reg"], e) \/ e = sEntry \/ Holds(stimulusArray', e)
    BY <1>1 DEF Returning, Out, Holds
  <2>2. ~Out(e)
    BY <1>7, <2>1 DEF Returning
  <2>3. PICK j \in 1..Len(stimulusArray') : stimulusArray'[j] = e
    BY <2>1, <2>2 DEF Out, Holds
  <2>4. ~(j <= Len(stimulusArray))
    BY <1>2, <1>6, <2>2, <2>3 DEF Out, Holds
  <2>5. j - Len(stimulusArray) \in 1..m /\ r[j - Len(stimulusArray)] = e
    BY <1>2, <1>6, <2>3, <2>4
  <2> QED BY <2>5
<1>10. \A n \in 1..com["reg"] : regKind'[n] = regKind[n]
  <2>1. x \in Seq(Kind) /\ Len(x) = m
    BY <1>2 DEF Kind
  <2> HIDE DEF x
  <2>2. \A n \in 1..com["reg"] : n \in 1..(Len(regKind) + m) /\ n <= Len(regKind)
    BY <1>2, Tickets
  <2> QED BY <1>1, <2>1, <2>2, Tickets, ConcatProperties
<1>11. InHand'
  BY <1>1 DEF InHand, BackInv
<1>12. KeptReads'
  BY <1>1 DEF KeptReads
<1>13. SentReads'
  <2>1. \A e \in Returning' : e.kind = "read" /\ e.ref < e.no
    <3> SUFFICES ASSUME NEW e \in Returning' PROVE e.kind = "read" /\ e.ref < e.no
      OBVIOUS
    <3>1. PICK i \in 1..m : e = r[i]
      BY <1>9
    <3>2. e.kind = "read" /\ e.no = sub["reg"] + i /\ e.ref \in 1..com["reg"]
      BY <1>3, <1>4, <3>1
    <3> QED BY <1>2, <3>2, Tickets
  <2>2. \A e, f \in Returning' : e.ref = f.ref => e = f
    <3> SUFFICES ASSUME NEW e \in Returning', NEW f \in Returning', e.ref = f.ref PROVE e = f
      OBVIOUS
    <3>1. PICK i \in 1..m : e = r[i]
      BY <1>9
    <3>2. PICK j \in 1..m : f = r[j]
      BY <1>9
    <3>3. signoffArray[i].ref = signoffArray[j].ref
      BY <1>4, <3>1, <3>2
    <3>4. i = j
      BY <1>1, <3>3 DEF BackInv, KeptReads
    <3> QED BY <3>1, <3>2, <3>4
  <2>3. \A n \in 1..com["reg"] :
          regKind'[n] = "write" <=> \E e \in Returning' : e.ref = n
    <3> SUFFICES ASSUME NEW n \in 1..com["reg"]
                 PROVE  regKind'[n] = "write" <=> \E e \in Returning' : e.ref = n
      OBVIOUS
    <3>1. regKind'[n] = "write" <=> \E i \in 1..m : signoffArray[i].ref = n
      BY <1>1, <1>10 DEF BackInv, KeptReads
    <3> QED BY <1>4, <1>8, <1>9, <3>1
  <2>4. signPoint' = com["reg"] /\ com' = com /\ com["reg"] <= com["reg"]
    BY <1>1, Tickets
  <2> QED BY <2>1, <2>2, <2>3, <2>4 DEF SentReads
<1> QED BY <1>11, <1>12, <1>13 DEF BackInv

\* In the files and at the start there is no such read.
LEMMA BackInit == Init => BackInv
<1> SUFFICES ASSUME Init PROVE BackInv
  OBVIOUS
<1>1. /\ got["reg"] = <<>> /\ Len(got["reg"]) = 0 /\ sEntry = NoEntry /\ com["reg"] = 0
      /\ signoffArray = <<>> /\ Len(signoffArray) = 0 /\ ~signOffStarted
  BY DEF Init, Class
<1>2. \A i \in 1..Len(stimulusArray) : stimulusArray[i].ref = 0
  <2>1. regKind \in Seq(Kind) /\ Len(regKind) \in Nat
    BY HostPortAssumption DEF Init
  <2> QED BY <2>1 DEF Init
<1>3. Returning = {}
  BY <1>1, <1>2 DEF Returning, Out, Holds, NoEntry
<1> QED BY <1>1, <1>3 DEF BackInv, InHand, KeptReads, SentReads, NoEntry

\* Every step keeps the invariant.
LEMMA BackNext ==
  ASSUME IInv, BackInv, [Next]_vars
  PROVE  BackInv'
<1>1. CASE UNCHANGED vars
  <2>1. UNCHANGED <<stimulusArray, signoffArray, sEntry, pc, com, got, signOffStarted,
                    signPoint, regKind>>
    BY <1>1 DEF vars, queueVars, driveVars, dutVars, clientVars
  <2>2. Returning' = Returning
    BY <2>1 DEF Returning, Out, Holds
  <2>3. InHand'
    BY <2>1 DEF InHand, BackInv
  <2> QED BY <2>1, <2>2, <2>3, KeepReads DEF BackInv
<1> QED
  BY <1>1, BackDrive, BackSample, BackRisingEdge, BackAddStimulus, BackDispath
  DEF Next, Stopped

(***************************************************************************)
(* Each write that was driven before the sign-off, to memory that can be   *)
(* read, is read back exactly once when the port has drained, and no       *)
(* read-back goes out ahead of its write: nothing that happens to the      *)
(* queue in between loses, doubles or overtakes one.                       *)
(***************************************************************************)
THEOREM WritesReadBack == Spec => []SignOffReadsBack
<1>1. IInv /\ BackInv => SignOffReadsBack
  <2> SUFFICES ASSUME IInv, BackInv PROVE SignOffReadsBack
    OBVIOUS
  <2>1. \A i \in 1..Len(got["reg"]) :
          /\ got["reg"][i] \in Entry /\ got["reg"][i].ref \in Nat
          /\ got["reg"][i].no = i /\ got["reg"][i].cls = "reg"
    <3>1. \A i \in 1..Len(got["reg"]) : got["reg"][i] \in Entry
      BY Tickets, ElementOfSeq
    <3> QED BY <3>1 DEF IInv, AcceptedInOrder, Class, BackInv, InHand, Entry
  <2>2. \A i \in 1..Len(got["reg"]) :
          got["reg"][i].ref # 0 => got["reg"][i] \in Returning
    BY <2>1 DEF Returning, Out, Holds
  <2>3. \A i \in 1..Len(got["reg"]) : got["reg"][i].ref < i
    <3> SUFFICES ASSUME NEW i \in 1..Len(got["reg"]) PROVE got["reg"][i].ref < i
      OBVIOUS
    <3>1. CASE got["reg"][i].ref = 0
      BY <3>1, Tickets
    <3>2. CASE got["reg"][i].ref # 0
      BY <2>1, <2>2, <3>2 DEF BackInv, SentReads
    <3> QED BY <3>1, <3>2
  <2>4. ASSUME signOffStarted, pc = "idle", stimulusArray = <<>>, NEW n \in 1..signPoint
        PROVE  Cardinality(ReadBacks(n)) = IF regKind[n] = "write" THEN 1 ELSE 0
    <3>1. n # 0
      BY Tickets
    <3>2. \A e \in Returning : \E i \in 1..Len(got["reg"]) : got["reg"][i] = e
      <4> SUFFICES ASSUME NEW e \in Returning PROVE Holds(got["reg"], e)
        BY DEF Holds
      <4>1. ~Holds(stimulusArray, e)
        BY <2>4 DEF Holds
      <4>2. e # sEntry
        BY <2>4 DEF BackInv, InHand, SentReads
      <4> QED BY <4>1, <4>2 DEF Returning, Out
    <3>3. \A i \in ReadBacks(n) : got["reg"][i] \in Returning /\ got["reg"][i].ref = n
      BY <2>2, <3>1 DEF ReadBacks
    <3>4. \A i, j \in ReadBacks(n) : i = j
      <4> SUFFICES ASSUME NEW i \in ReadBacks(n), NEW j \in ReadBacks(n) PROVE i = j
        OBVIOUS
      <4>1. got["reg"][i] = got["reg"][j]
        BY <3>3 DEF BackInv, SentReads
      <4>2. got["reg"][i].no = i /\ got["reg"][j].no = j
        BY <2>1 DEF ReadBacks
      <4> QED BY <4>1, <4>2
    <3>5. CASE regKind[n] = "write"
      <4>1. PICK e \in Returning : e.ref = n
        BY <2>4, <3>5 DEF BackInv, SentReads
      <4>2. e.kind = "read"
        BY DEF BackInv, SentReads
      <4>3. PICK i \in 1..Len(got["reg"]) : got["reg"][i] = e
        BY <3>2
      <4>4. ReadBacks(n) = {i}
        BY <3>4, <4>1, <4>2, <4>3 DEF ReadBacks
      <4> QED BY <3>5, <4>4, FS_Singleton
    <3>6. CASE regKind[n] # "write"
      <4>1. ~\E e \in Returning : e.ref = n
        BY <2>4, <3>6 DEF BackInv, SentReads
      <4>2. ReadBacks(n) = {}
        BY <3>3, <4>1
      <4> QED BY <3>6, <4>2, FS_EmptySet
    <3> QED BY <3>5, <3>6
  <2> QED BY <2>3, <2>4 DEF SignOffReadsBack
<1>2. Init => BackInv
  BY BackInit
<1>3. IInv /\ BackInv /\ [Next]_vars => BackInv'
  BY BackNext
<1> QED BY <1>1, <1>2, <1>3, Invariance, PTL DEF Spec
=============================================================================

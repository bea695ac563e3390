------------------------ MODULE TransactionMapProofs ------------------------
(***************************************************************************)
(* Theorems about TransactionMap, for any number of cores, any hosts,      *)
(* slices and options: a multicast stays in the memory of its host, and    *)
(* without multicast the verdict on the test is right.                     *)
(***************************************************************************)
EXTENDS TransactionMap, SequenceTheorems, FiniteSetTheorems, TLAPS

(***************************************************************************)
(* A core is in the group of a host only when the slice of the group, in   *)
(* its own memory, has been given to the host; a group that has a core has *)
(* its slice for good.                                                     *)
(***************************************************************************)
Groups ==
  \A c \in Core : LET h == fCoreMultiCastHostId[c] IN
    h # None =>
      /\ h \in Host /\ fHostsMulticastSlice[h] # 0
      /\ Address("chip", c, fHostsMulticastSlice[h]) \in fHostsRangeList[h]

GroupInv ==
  /\ at \in Nat
  /\ DOMAIN fHostsRangeList = Host /\ DOMAIN fHostsMulticastSlice = Host
  /\ DOMAIN fCoreMultiCastHostId = Core
  /\ Groups

LEMMA Lengths == Len(SliceSeq) \in Nat \ {0} /\ Len(HostSeq) \in Nat \ {0} /\ NCORES \in Nat \ {0}
BY TransactionMapAssumption, LenProperties, EmptySeq

\* The loop over the slices runs within the sequence, and no slice is 0.
LEMMA SliceAt ==
  ASSUME NEW i \in Nat
  PROVE  /\ (i % Len(SliceSeq)) + 1 \in DOMAIN SliceSeq
         /\ SliceSeq[(i % Len(SliceSeq)) + 1] \in Nat \ {0}
<1>1. (i % Len(SliceSeq)) + 1 \in 1..Len(SliceSeq)
  BY Lengths
<1>2. QED BY <1>1, LenProperties, TransactionMapAssumption

LEMMA SliceIsOne ==
  ASSUME at \in Nat PROVE Slice # 0
BY SliceAt DEF Slice

LEMMA GroupInit == Init => GroupInv
BY DEF Init, GroupInv, Groups

\* Giving a host more leaves the groups alone.
LEMMA MoreForHosts ==
  ASSUME GroupInv, NoMulticast, at' \in Nat, DOMAIN fHostsRangeList' = Host,
         \A h \in Host : fHostsRangeList[h] \subseteq fHostsRangeList'[h]
  PROVE  GroupInv'
BY DEF GroupInv, Groups, NoMulticast

LEMMA SlicesCounted == ASSUME GroupInv, SliceStep PROVE at' \in Nat
<1>1. at \in Nat /\ at' = (at + 1) % (NCORES * Len(SliceSeq))
  BY DEF GroupInv, SliceStep
<1>2. NCORES * Len(SliceSeq) \in Nat \ {0}
  BY Lengths
<1>3. QED BY <1>1, <1>2

LEMMA HostsCounted ==
  ASSUME GroupInv PROVE (at + 1) % Len(HostSeq) \in Nat
BY Lengths DEF GroupInv

LEMMA GivenToHost ==
  ASSUME GroupInv, NEW g \in Host, NEW r, GiveToHost(g, r)
  PROVE  /\ DOMAIN fHostsRangeList' = Host /\ r \in fHostsRangeList'[g]
         /\ \A h \in Host : fHostsRangeList[h] \subseteq fHostsRangeList'[h]
BY DEF GroupInv, GiveToHost

LEMMA JoinInv ==
  ASSUME GroupInv, HostMaster PROVE GroupInv'
<1>1. at' \in Nat
  BY SlicesCounted DEF HostMaster, OffChip, External
<1>2. PICK h \in HostsToDraw :
        /\ GiveToHost(h, Address("chip", SliceCore, Slice))
        /\ NoMulticast \/ (MayJoin(h) /\ JoinMulticast(h))
  BY DEF HostMaster
<1>3. h \in Host
  BY DEF HostsToDraw
<1>4. /\ DOMAIN fHostsRangeList' = Host
      /\ Address("chip", SliceCore, Slice) \in fHostsRangeList'[h]
      /\ \A e \in Host : fHostsRangeList[e] \subseteq fHostsRangeList'[e]
  BY <1>2, <1>3, GivenToHost
<1>5. CASE NoMulticast
  BY <1>1, <1>4, <1>5, MoreForHosts
<1>6. CASE MayJoin(h) /\ JoinMulticast(h)
  <2>1. /\ DOMAIN fHostsMulticastSlice' = Host /\ DOMAIN fCoreMultiCastHostId' = Core
        /\ fHostsMulticastSlice'[h] = Slice
        /\ \A e \in Host \ {h} : fHostsMulticastSlice'[e] = fHostsMulticastSlice[e]
        /\ \A c \in Core : fCoreMultiCastHostId'[c] =
             IF c = SliceCore THEN h ELSE fCoreMultiCastHostId[c]
    BY <1>3, <1>6 DEF JoinMulticast, GroupInv
  <2>2. fHostsMulticastSlice[h] \in {0, Slice} /\ Slice # 0
    BY <1>6, SliceIsOne DEF MayJoin, GroupInv
  <2>3. Groups'
    <3> SUFFICES ASSUME NEW c \in Core, fCoreMultiCastHostId'[c] # None
                 PROVE  LET e == fCoreMultiCastHostId'[c] IN
                          /\ e \in Host /\ fHostsMulticastSlice'[e] # 0
                          /\ Address("chip", c, fHostsMulticastSlice'[e])
                               \in fHostsRangeList'[e]
      BY DEF Groups
    <3>1. CASE c = SliceCore
      BY <1>3, <1>4, <2>1, <2>2, <3>1
    <3>2. CASE c # SliceCore
      <4> DEFINE e == fCoreMultiCastHostId[c]
      <4>1. /\ e = fCoreMultiCastHostId'[c] /\ e # None
        BY <2>1, <3>2
      <4>2. /\ e \in Host /\ fHostsMulticastSlice[e] # 0
            /\ Address("chip", c, fHostsMulticastSlice[e]) \in fHostsRangeList[e]
        BY <4>1 DEF GroupInv, Groups
      <4>3. fHostsMulticastSlice'[e] = fHostsMulticastSlice[e]
        BY <2>1, <2>2, <4>2
      <4>4. QED BY <1>4, <4>1, <4>2, <4>3
    <3>3. QED BY <3>1, <3>2
  <2>4. QED BY <1>1, <1>4, <2>1, <2>3 DEF GroupInv
<1>7. QED BY <1>2, <1>5, <1>6

LEMMA GroupStep == GroupInv /\ [Next]_vars => GroupInv'
<1> SUFFICES ASSUME GroupInv, [Next]_vars PROVE GroupInv'
  OBVIOUS
<1>1. CASE Internal \/ AnyCore \/ HostSlave
  <2>1. SliceStep /\ NoMulticast /\ UNCHANGED fHostsRangeList
    BY <1>1 DEF Internal, AnyCore, HostSlave, OffChip, External, GiveToCore
  <2>2. at' \in Nat
    BY <2>1, SlicesCounted
  <2>3. QED BY <2>1, <2>2, MoreForHosts DEF GroupInv
<1>2. CASE HostMaster
  BY <1>2, JoinInv
<1>3. CASE ExtendedSpace
  <2>1. at' \in Nat /\ NoMulticast
    BY <1>3, HostsCounted DEF ExtendedSpace, ExtendedStep, NoMulticast
  <2>2. CASE UNCHANGED fHostsRangeList
    BY <2>1, <2>2, MoreForHosts DEF GroupInv
  <2>3. ASSUME NEW e \in Host, NEW r, GiveToHost(e, r) PROVE GroupInv'
    BY <2>1, <2>3, GivenToHost, MoreForHosts
  <2>4. QED BY <1>3, <2>2, <2>3 DEF ExtendedSpace, GiveToCore
<1>4. CASE NoExtended
  BY <1>4, MoreForHosts DEF NoExtended, ExtendedStep, NoMulticast, GroupInv
<1>5. CASE \E h \in Host : \E r \in fHostsRangeList[h] :
             BurstWrite(r) \/ BurstRead(r) \/ BurstMulticast(r)
  <2>1. UNCHANGED <<at, generated>>
    BY <1>5 DEF BurstWrite, BurstRead, BurstMulticast, Burst
  <2>2. QED BY <2>1, MoreForHosts DEF generated, NoMulticast, GroupInv
<1>6. CASE NextHost
  <2>1. at' \in Nat /\ UNCHANGED generated
    BY SMTT(30), <1>6, HostsCounted DEF NextHost
  <2>2. QED BY <2>1, MoreForHosts DEF generated, NoMulticast, GroupInv
<1>7. CASE Run
  <2>1. UNCHANGED <<at, generated>>
    BY <1>7 DEF Run, SignOff, RunCores, RunHost
  <2>2. QED BY <2>1, MoreForHosts DEF generated, NoMulticast, GroupInv
<1>8. CASE UNCHANGED vars
  BY <1>8, MoreForHosts DEF vars, generated, NoMulticast, GroupInv
<1>9. QED BY <1>1, <1>2, <1>3, <1>4, <1>5, <1>6, <1>7, <1>8 DEF Next

(***************************************************************************)
(* A multicast lands only in memory that was dealt out to the host that    *)
(* sends it, whatever mgen draws.                                          *)
(***************************************************************************)
THEOREM MulticastInOwnMemory == Spec => []MulticastStaysHome
<1>1. GroupInv => MulticastStaysHome
  BY DEF GroupInv, Groups, MulticastStaysHome
<1>2. QED BY <1>1, GroupInit, GroupStep, PTL DEF Spec
-----------------------------------------------------------------------------
(***************************************************************************)
(* The verdict.  Without multicast each location is dealt to one owner, no *)
(* two of them are at one stripped address, and only the owner writes it.  *)
(* So the data that comes back there says what was last written.           *)
(***************************************************************************)

Location == [area : {"chip"} \cup Host, core : Nat, off : Nat \ {0}]

Transaction ==
  [kind : {"write"}, dst : Location, val : Host \X Nat]
    \cup [kind : {"read"}, dst : Location, src : Location]

Phases == {"cores", "extended", "bursts", "run", "done"}

Slices == NCORES * Len(SliceSeq)

TypesOK ==
  /\ phase \in Phases /\ at \in Nat
  /\ phase = "cores" => at < Slices
  /\ phase \in {"extended", "bursts"} => at < Len(HostSeq)
  /\ fCoresRangeList \in [Core -> SUBSET Location]
  /\ fHostsRangeList \in [Host -> SUBSET Location]
  /\ file \in [Host -> Seq(Transaction)] /\ signoff \in [Host -> Seq(Location)]
  /\ IsFiniteSet(CoresRange) /\ IsFiniteSet(DOMAIN written)

\* The stripped addresses that mgen has been at.
OfSlice(i) == <<i \div Len(SliceSeq), SliceSeq[(i % Len(SliceSeq)) + 1]>>

Passed(k) ==
  \/ \E i \in 0 .. Slices - 1 : k = OfSlice(i) /\ (phase = "cores" => i < at)
  \/ /\ phase # "cores"
     /\ \E i \in DOMAIN HostSeq :
          k = Strip(Extended(HostSeq[i])) /\ (phase = "extended" => i <= at)

AllPassed ==
  phase \in {"cores", "extended"} =>
    /\ \A r \in CoresRange : Passed(Strip(r))
    /\ \A h \in Host : \A r \in fHostsRangeList[h] : Passed(Strip(r))

\* One owner for a stripped address; what a host owns is not in its own space.
DealtOnce ==
  /\ \A r, s \in CoresRange : Strip(r) = Strip(s) => r = s
  /\ \A h, g \in Host : \A r \in fHostsRangeList[h] : \A s \in fHostsRangeList[g] :
       Strip(r) = Strip(s) => h = g /\ r = s
  /\ \A h \in Host : \A r \in fHostsRangeList[h] :
       r.area # h /\ \A s \in CoresRange : Strip(r) # Strip(s)

\* While mgen deals, nothing is generated; until it ends, nothing has run.
NotStarted ==
  /\ phase \in {"cores", "extended"} =>
       fExpData = <<>> /\ fExpReadAddr = {} /\ \A h \in Host : file[h] = <<>>
  /\ phase \in {"cores", "extended", "bursts"} =>
       /\ chip = <<>> /\ hostMem = <<>> /\ written = <<>> /\ ~coresDone
       /\ \A h \in Host : signoff[h] = <<>>

\* A host drives its own slices, and reads them to its own space.
OwnFiles ==
  \A h \in Host : \A i \in DOMAIN file[h] : LET t == file[h][i] IN
    /\ t.dst \in fHostsRangeList[h] /\ t.kind \in {"write", "read"}
    /\ t.kind = "read" => t.src = In(h, t.dst)

\* What the file of the host will write to a location.
Writes(h, i, r) == file[h][i].kind = "write" /\ file[h][i].dst = r
NoWrite(h, r) == \A i \in DOMAIN file[h] : ~Writes(h, i, r)
LastWrite(h, r, v) ==
  \E i \in DOMAIN file[h] :
    /\ Writes(h, i, r) /\ file[h][i].val = v
    /\ \A j \in DOMAIN file[h] : i < j => ~Writes(h, j, r)

\* The expected data is that of the last write, to come or done.
ExpectsLast ==
  \A h \in Host : \A r \in fHostsRangeList[h] :
    \/ r \notin DOMAIN fExpData /\ r \notin DOMAIN written /\ NoWrite(h, r)
    \/ /\ r \in DOMAIN fExpData
       /\ \/ LastWrite(h, r, fExpData[r])
          \/ NoWrite(h, r) /\ r \in DOMAIN written /\ written[r] = fExpData[r]

\* It is expected at the location and where it comes back.
ExpectsBoth ==
  /\ \A b \in DOMAIN fExpData :
       \E h \in Host : \E r \in fHostsRangeList[h] : b \in {r, In(h, r)}
  /\ \A h \in Host : \A r \in fHostsRangeList[h] :
       /\ r \in DOMAIN fExpData <=> In(h, r) \in DOMAIN fExpData
       /\ r \in DOMAIN fExpData => fExpData[In(h, r)] = fExpData[r]

\* What is to be read has been, or is still in the file.
ReadsCome ==
  \A b \in fExpReadAddr : \E h \in Host : \E r \in fHostsRangeList[h] :
    /\ b = In(h, r)
    /\ \/ b \in DOMAIN hostMem
       \/ \E i \in DOMAIN file[h] : file[h][i].kind = "read" /\ file[h][i].dst = r

\* What was written is signed off by its owner, or the cores wrote it.
WrittenByOwner ==
  /\ \A h \in Host : Range(signoff[h]) \subseteq fHostsRangeList[h]
  /\ \A a \in DOMAIN written :
       \/ coresDone /\ a \in CoresRange
       \/ \E h \in Host : a \in Range(signoff[h])
  /\ coresDone => \A a \in CoresRange :
       /\ a \in DOMAIN written /\ written[a] = OfCore(a) /\ Content(a) = OfCore(a)
       /\ a.area # "chip" => a \in DOMAIN hostMem

\* What the hosts have is what they hold, or what they read.
HostsHave ==
  phase # "done" => \A b \in DOMAIN hostMem :
    \/ b \in CoresRange /\ b.area # "chip"
    \/ \E h \in Host : \E r \in fHostsRangeList[h] :
         b = In(h, r) \/ (b = r /\ r.area # "chip")

\* At the end every host that has data of a written location has its content.
AllBack ==
  phase = "done" =>
    /\ coresDone /\ \A h \in Host : file[h] = <<>>
    /\ \A b \in DOMAIN hostMem : b \in Location /\ b.area \in Host
    /\ \A a \in DOMAIN written :
         /\ \E g \in Host : In(g, a) \in DOMAIN hostMem
         /\ \A b \in DOMAIN hostMem : Strip(b) = Strip(a) => hostMem[b] = Content(a)

TestInv == /\ OwnFiles /\ ExpectsLast /\ ExpectsBoth /\ ReadsCome
           /\ WrittenByOwner /\ HostsHave /\ AllBack

VerdictInv == TypesOK /\ AllPassed /\ DealtOnce /\ NotStarted /\ TestInv
-----------------------------------------------------------------------------
(* What holds without multicast.                                           *)

\* A function over no index is the empty sequence.
LEMMA NoIndex ==
  ASSUME NEW f, f = [i \in 1..0 |-> f[i]] PROVE f = <<>>
<1>1. f \in Seq({f[i] : i \in 1..0}) /\ Len(f) = 0
  OBVIOUS
<1>2. QED BY <1>1, EmptySeq

\* The groups are empty, and no slice is multicast.
LEMMA NoGroups ==
  ASSUME GroupInv, ~Multicasts
  PROVE  /\ \A h \in Host : fHostsMulticastSlice[h] = 0 /\ Listeners(h) = <<>>
         /\ \A c \in Core : fCoreMultiCastHostId[c] = None
<1>1. \A h \in Host : fHostsMulticastSlice[h] = 0
  BY DEF Multicasts, GroupInv, Range
<1>2. \A c \in Core : fCoreMultiCastHostId[c] = None
  BY <1>1 DEF GroupInv, Groups
<1>3. ASSUME NEW h \in Host PROVE Listeners(h) = <<>>
  <2> DEFINE group == {c \in Core : fCoreMultiCastHostId[c] = h}
             s == [i \in 1 .. Cardinality(group) |->
                     CHOOSE c \in group : Cardinality({d \in group : d < c}) = i - 1]
  <2>1. group = {}
    BY <1>2, TransactionMapAssumption DEF Host
  <2>2. Cardinality(group) = 0
    BY <2>1, FS_EmptySet
  <2>3. DOMAIN Slaves(h) = 1..0
    BY <2>2 DEF Slaves
  <2>4. QED BY <2>3, NoIndex DEF Listeners
<1>4. QED BY <1>1, <1>2, <1>3

\* A multicast address stays.
LEMMA QuietBefore ==
  ASSUME GroupInv, [Next]_vars, ~Multicasts'
  PROVE  /\ ~Multicasts /\ UNCHANGED fHostsMulticastSlice
         /\ \A h \in Host : ~(MayJoin(h) /\ JoinMulticast(h))
<1>1. ASSUME NEW h \in Host, JoinMulticast(h) PROVE FALSE
  <2>1. h \in DOMAIN fHostsMulticastSlice' /\ fHostsMulticastSlice'[h] = Slice
    BY <1>1 DEF JoinMulticast, GroupInv
  <2>2. Slice # 0
    BY SliceIsOne DEF GroupInv
  <2>3. QED BY <2>1, <2>2 DEF Multicasts, Range
<1>2. UNCHANGED fHostsMulticastSlice
  <2>1. CASE Internal \/ AnyCore \/ HostSlave
    BY <2>1 DEF Internal, AnyCore, HostSlave, NoMulticast
  <2>2. CASE HostMaster
    BY <1>1, <2>2 DEF HostMaster, NoMulticast, HostsToDraw
  <2>3. CASE ExtendedSpace \/ NoExtended
    BY <2>3 DEF ExtendedSpace, NoExtended, ExtendedStep
  <2>4. CASE \E h \in Host : \E r \in fHostsRangeList[h] :
               BurstWrite(r) \/ BurstRead(r) \/ BurstMulticast(r)
    BY <2>4 DEF BurstWrite, BurstRead, BurstMulticast, Burst, generated
  <2>5. CASE NextHost
    BY <2>5 DEF NextHost, generated
  <2>6. CASE Run
    BY <2>6 DEF Run, SignOff, RunCores, RunHost, generated
  <2>7. CASE UNCHANGED vars
    BY <2>7 DEF vars, generated
  <2>8. QED BY <2>1, <2>2, <2>3, <2>4, <2>5, <2>6, <2>7 DEF Next
<1>3. ~Multicasts
  BY <1>2 DEF Multicasts
<1>4. QED BY <1>1, <1>2, <1>3

LEMMA CoresRangeIs ==
  ASSUME TypesOK, NEW a PROVE a \in CoresRange <=> \E c \in Core : a \in fCoresRangeList[c]
BY DEF TypesOK, CoresRange, Range

-----------------------------------------------------------------------------
(* The deals.                                                              *)

LEMMA Divided ==
  ASSUME NEW L \in Nat \ {0}, NEW i \in Nat, NEW j \in Nat,
         i \div L = j \div L, i % L = j % L
  PROVE  i = j
OBVIOUS

LEMMA OfSliceOnce ==
  ASSUME NEW i \in Nat, NEW j \in Nat, OfSlice(i) = OfSlice(j) PROVE i = j
<1>1. i \div Len(SliceSeq) = j \div Len(SliceSeq)
      /\ SliceSeq[(i % Len(SliceSeq)) + 1] = SliceSeq[(j % Len(SliceSeq)) + 1]
  BY DEF OfSlice
<1>2. (i % Len(SliceSeq)) + 1 = (j % Len(SliceSeq)) + 1
  BY <1>1, SliceAt, TransactionMapAssumption DEF IsInjective
<1>3. i % Len(SliceSeq) = j % Len(SliceSeq)
  BY <1>2, Lengths
<1>4. QED BY <1>1, <1>3, Lengths, Divided

LEMMA HostAt ==
  ASSUME NEW i \in DOMAIN HostSeq
  PROVE  /\ HostSeq[i] \in Host /\ i \in 1 .. Len(HostSeq)
         /\ HostSeq[i] \in {"north", "south", "west", "east"}
         /\ HostNumber[HostSeq[i]] \in Nat
<1>1. HostSeq[i] \in DOMAIN HostNumber /\ i \in 1 .. Len(HostSeq)
  BY TransactionMapAssumption, LenProperties
<1>2. DOMAIN HostNumber = {"north", "south", "west", "east"}
  BY DEF HostNumber
<1>3. HostNumber[HostSeq[i]] \in Nat
  BY <1>1, <1>2 DEF HostNumber
<1>4. QED BY <1>1, <1>2, <1>3 DEF Host, Range

LEMMA ExtendedOnce ==
  ASSUME NEW i \in DOMAIN HostSeq, NEW j \in DOMAIN HostSeq,
         Strip(Extended(HostSeq[i])) = Strip(Extended(HostSeq[j]))
  PROVE  i = j
<1>1. 9 * HostNumber[HostSeq[i]] = 9 * HostNumber[HostSeq[j]]
  BY DEF Strip, Extended, Address
<1>2. HostNumber[HostSeq[i]] = HostNumber[HostSeq[j]]
  BY <1>1, HostAt
<1>3. HostSeq[i] = HostSeq[j]
  BY <1>2, HostAt DEF HostNumber
<1>4. QED BY <1>3, TransactionMapAssumption DEF IsInjective

\* The only place where it matters that the cores' memory ends below.
LEMMA ExtendedIsNoSlice ==
  ASSUME ExtendedSlice \notin Range(SliceSeq), NEW i \in Nat, NEW h
  PROVE  OfSlice(i) # Strip(Extended(h))
<1> DEFINE s == SliceSeq[(i % Len(SliceSeq)) + 1]
<1>1. s \in Range(SliceSeq)
  BY SliceAt DEF Range
<1>2. s # ExtendedSlice
  BY <1>1
<1>3. QED BY <1>2 DEF OfSlice, Strip, Extended, Address

\* The loop over the slices passes one slice, which it has not passed before.
LEMMA SlicePassed ==
  ASSUME TypesOK, SliceStep
  PROVE  /\ at' \in Nat /\ phase' \in {"cores", "extended"}
         /\ phase' = "cores" => at' < Slices
         /\ phase' = "extended" => at' < Len(HostSeq)
         /\ ~Passed(OfSlice(at))
         /\ \A k : Passed(k) \/ k = OfSlice(at) => Passed(k)'
<1>1. /\ at \in 0 .. Slices - 1 /\ phase = "cores" /\ Slices \in Nat \ {0}
      /\ at' = (at + 1) % Slices /\ phase' = IF at' = 0 THEN "extended" ELSE "cores"
  BY Lengths DEF TypesOK, SliceStep, Slices
<1>2. at' \in 0 .. Slices - 1 /\ (at' # 0 => at' = at + 1) /\ (at' = 0 => at + 1 = Slices)
  BY <1>1
<1>3. ~Passed(OfSlice(at))
  BY <1>1, OfSliceOnce DEF Passed
<1>4. ASSUME NEW k, Passed(k) \/ k = OfSlice(at) PROVE Passed(k)'
  <2>1. PICK i \in 0 .. Slices - 1 : k = OfSlice(i) /\ i <= at
    BY <1>1, <1>4 DEF Passed
  <2>2. phase' = "cores" => i < at'
    BY <1>1, <1>2, <2>1
  <2>3. QED BY <2>1, <2>2 DEF Passed, OfSlice
<1>5. QED BY <1>1, <1>2, <1>3, <1>4, Lengths

\* The loop over the hosts passes one host, which it has not passed before.
LEMMA HostPassed ==
  ASSUME TypesOK, MemoryEndsBelow, ExtendedSpace
  PROVE  /\ at + 1 \in DOMAIN HostSeq /\ HostSeq[at + 1] \in Host
         /\ at' \in Nat /\ phase' \in {"extended", "bursts"} /\ at' < Len(HostSeq)
         /\ ~Passed(Strip(Extended(HostSeq[at + 1])))
         /\ \A k : Passed(k) \/ k = Strip(Extended(HostSeq[at + 1])) => Passed(k)'
<1>1. /\ at \in 0 .. Len(HostSeq) - 1 /\ phase = "extended"
      /\ at' = (at + 1) % Len(HostSeq) /\ phase' = IF at' = 0 THEN "bursts" ELSE phase
  BY Lengths DEF TypesOK, ExtendedSpace, ExtendedStep
<1>2. /\ at' \in 0 .. Len(HostSeq) - 1 /\ (at' # 0 => at' = at + 1)
  BY <1>1, Lengths
<1>3. at + 1 \in DOMAIN HostSeq /\ at + 1 \in Nat
  BY <1>1, Lengths, TransactionMapAssumption, LenProperties
<1>4. ~Passed(Strip(Extended(HostSeq[at + 1])))
  <2>1. ASSUME NEW i \in 0 .. Slices - 1
        PROVE  Strip(Extended(HostSeq[at + 1])) # OfSlice(i)
    BY ExtendedIsNoSlice DEF MemoryEndsBelow, ExtendedSpace
  <2>2. ASSUME NEW i \in DOMAIN HostSeq,
               Strip(Extended(HostSeq[at + 1])) = Strip(Extended(HostSeq[i])), i <= at
        PROVE  FALSE
    BY <1>1, <1>3, <2>2, ExtendedOnce
  <2>3. QED BY <1>1, <2>1, <2>2 DEF Passed
<1>5. ASSUME NEW k, Passed(k) \/ k = Strip(Extended(HostSeq[at + 1])) PROVE Passed(k)'
  <2>1. CASE \E i \in 0 .. Slices - 1 : k = OfSlice(i)
    BY <1>1, <2>1 DEF Passed, OfSlice
  <2>2. CASE ~\E i \in 0 .. Slices - 1 : k = OfSlice(i)
    <3>1. PICK i \in DOMAIN HostSeq : k = Strip(Extended(HostSeq[i])) /\ i <= at + 1
      BY <1>1, <1>3, <1>5, <2>2, HostAt DEF Passed
    <3>2. i \in Nat /\ (phase' = "extended" => i <= at')
      BY <1>1, <1>2, <3>1, HostAt
    <3>3. phase' # "cores"
      BY <1>1
    <3>4. QED BY <3>1, <3>2, <3>3 DEF Passed, Strip, Extended, Address
  <2>3. QED BY <2>1, <2>2
<1>6. QED BY <1>1, <1>2, <1>3, <1>4, <1>5, HostAt

\* A new deal at an address that was not passed is the only one there.
LEMMA NewDeal ==
  ASSUME TypesOK, AllPassed, DealtOnce, phase \in {"cores", "extended"},
         NEW r \in Location, ~Passed(Strip(r)),
         \A k : Passed(k) \/ k = Strip(r) => Passed(k)',
         \/ \E c \in Core : GiveToCore(c, r)
         \/ \E h \in Host : GiveToHost(h, r) /\ r.area # h
  PROVE  /\ fCoresRangeList' \in [Core -> SUBSET Location]
         /\ fHostsRangeList' \in [Host -> SUBSET Location]
         /\ IsFiniteSet(CoresRange') /\ AllPassed' /\ DealtOnce'
<1>1. CASE \E c \in Core : GiveToCore(c, r)
  <2>1. PICK c \in Core : GiveToCore(c, r)
    BY <1>1
  <2>2. /\ fCoresRangeList' \in [Core -> SUBSET Location] /\ UNCHANGED fHostsRangeList
        /\ \A d \in Core : fCoresRangeList'[d] =
             IF d = c THEN fCoresRangeList[d] \cup {r} ELSE fCoresRangeList[d]
    BY <2>1 DEF TypesOK, GiveToCore
  <2>3. CoresRange' = CoresRange \cup {r}
    BY <2>2 DEF CoresRange, Range, TypesOK
  <2>4. IsFiniteSet(CoresRange')
    BY <2>3, FS_AddElement DEF TypesOK
  <2>5. \A s \in CoresRange' : Passed(Strip(s)) \/ s = r
    BY <2>3 DEF AllPassed
  <2>6. AllPassed'
    BY <2>2, <2>5 DEF AllPassed, Strip
  <2>7. DealtOnce'
    BY <2>2, <2>3 DEF AllPassed, DealtOnce, Strip
  <2>8. QED BY <2>2, <2>4, <2>6, <2>7 DEF TypesOK
<1>2. CASE \E h \in Host : GiveToHost(h, r) /\ r.area # h
  <2>1. PICK h \in Host : GiveToHost(h, r) /\ r.area # h
    BY <1>2
  <2>2. /\ fHostsRangeList' \in [Host -> SUBSET Location] /\ UNCHANGED fCoresRangeList
        /\ \A g \in Host : fHostsRangeList'[g] =
             IF g = h THEN fHostsRangeList[g] \cup {r} ELSE fHostsRangeList[g]
    BY <2>1 DEF TypesOK, GiveToHost
  <2>3. CoresRange' = CoresRange
    BY <2>2 DEF CoresRange
  <2>4. \A g \in Host : \A s \in fHostsRangeList'[g] : Passed(Strip(s)) \/ s = r
    BY <2>2 DEF AllPassed
  <2>5. AllPassed'
    BY <2>3, <2>4 DEF AllPassed, Strip
  <2>6. \A g \in Host : \A s \in fHostsRangeList'[g] :
          (g = h /\ s = r) \/ s \in fHostsRangeList[g]
    BY <2>2
  <2>7. DealtOnce'
    BY <2>1, <2>3, <2>6 DEF AllPassed, DealtOnce, Strip
  <2>8. QED BY <2>2, <2>3, <2>5, <2>7 DEF TypesOK
<1>3. QED BY <1>1, <1>2

\* Where nothing has been generated, there is nothing to compare.
Nothing ==
  /\ fExpData = <<>> /\ fExpReadAddr = {} /\ hostMem = <<>> /\ written = <<>>
  /\ ~coresDone /\ phase # "done"
  /\ \A h \in Host : file[h] = <<>> /\ signoff[h] = <<>>

LEMMA NothingYet == Nothing => TestInv
<1> SUFFICES ASSUME Nothing PROVE TestInv
  OBVIOUS
<1>1. DOMAIN <<>> = {} /\ Range(<<>>) = {}
  BY DEF Range
<1>2. OwnFiles /\ ExpectsLast
  BY <1>1 DEF Nothing, OwnFiles, ExpectsLast, NoWrite
<1>3. ExpectsBoth /\ ReadsCome
  BY <1>1 DEF Nothing, ExpectsBoth, ReadsCome
<1>4. WrittenByOwner /\ HostsHave /\ AllBack
  BY <1>1 DEF Nothing, WrittenByOwner, HostsHave, AllBack
<1>5. QED BY <1>2, <1>3, <1>4 DEF TestInv

LEMMA VerdictInit == Init => VerdictInv
<1> SUFFICES ASSUME Init PROVE VerdictInv
  OBVIOUS
<1>1. CoresRange = {} /\ DOMAIN written = {}
  BY DEF Init, CoresRange, Range
<1>2. 0 < Slices
  BY Lengths DEF Slices
<1>3. TypesOK
  BY <1>1, <1>2, FS_EmptySet DEF Init, TypesOK, Phases
<1>4. AllPassed /\ DealtOnce /\ NotStarted
  BY <1>1 DEF Init, AllPassed, DealtOnce, NotStarted
<1>5. TestInv
  BY NothingYet DEF Init, Nothing
<1>6. QED BY <1>3, <1>4, <1>5 DEF VerdictInv

\* A step of the dealing.
LEMMA Dealing ==
  ASSUME VerdictInv, phase \in {"cores", "extended"}, UNCHANGED <<expected, tested>>,
         phase' \in {"cores", "extended", "bursts"}, at' \in Nat,
         phase' = "cores" => at' < Slices,
         phase' \in {"extended", "bursts"} => at' < Len(HostSeq),
         fCoresRangeList' \in [Core -> SUBSET Location],
         fHostsRangeList' \in [Host -> SUBSET Location],
         IsFiniteSet(CoresRange'), AllPassed', DealtOnce'
  PROVE  VerdictInv'
<1>1. TypesOK'
  BY DEF TypesOK, VerdictInv, Phases, expected, tested
<1>2. NotStarted'
  BY DEF NotStarted, VerdictInv, expected, tested
<1>3. TestInv'
  <2>1. /\ fExpData = <<>> /\ fExpReadAddr = {} /\ hostMem = <<>> /\ written = <<>>
        /\ ~coresDone /\ \A h \in Host : file[h] = <<>> /\ signoff[h] = <<>>
    BY DEF NotStarted, VerdictInv
  <2>2. Nothing'
    BY <2>1 DEF expected, tested, Nothing
  <2>3. (Nothing => TestInv)'
    BY NothingYet, PTL
  <2>4. QED BY <2>2, <2>3
<1>4. QED BY <1>1, <1>2, <1>3 DEF VerdictInv

LEMMA SliceDealt ==
  ASSUME TypesOK, SliceStep
  PROVE  /\ SliceCore \in Core /\ Core \subseteq Nat
         /\ \A area \in {"chip"} \cup Host :
              LET r == Address(area, SliceCore, Slice) IN
              r \in Location /\ Strip(r) = OfSlice(at) /\ r.area = area
<1>1. at \in Nat /\ at < NCORES * Len(SliceSeq)
  BY DEF TypesOK, SliceStep, Slices
<1>2. SliceCore \in Core /\ Core \subseteq Nat
  BY <1>1, Lengths DEF SliceCore, Core
<1>3. Slice \in Nat \ {0}
  BY <1>1, SliceAt DEF Slice
<1>4. QED BY <1>2, <1>3 DEF Address, Location, Strip, OfSlice, SliceCore, Slice

LEMMA SlicesStep ==
  ASSUME VerdictInv, Internal \/ AnyCore \/ HostSlave \/ HostMaster
  PROVE  VerdictInv'
<1>1. SliceStep
  BY DEF Internal, AnyCore, HostSlave, HostMaster, OffChip, External
<1>2. TypesOK /\ AllPassed /\ DealtOnce /\ phase = "cores" /\ UNCHANGED <<expected, tested>>
  BY <1>1 DEF VerdictInv, SliceStep
<1>3. PICK area \in {"chip"} \cup Host :
        \/ \E c \in Core : GiveToCore(c, Address(area, SliceCore, Slice))
        \/ \E h \in Host : GiveToHost(h, Address(area, SliceCore, Slice)) /\ area # h
  <2>1. SliceCore \in Core
    BY <1>1, <1>2, SliceDealt
  <2>2. \A h \in Host : h # "chip"
    BY TransactionMapAssumption DEF Host, Range, HostNumber
  <2>3. CASE Internal \/ AnyCore
    BY <2>1, <2>3 DEF Internal, AnyCore
  <2>4. CASE HostSlave
    BY <2>1, <2>4 DEF HostSlave, HostsToDraw
  <2>5. CASE HostMaster
    BY <2>2, <2>5 DEF HostMaster, HostsToDraw
  <2>6. QED BY <2>3, <2>4, <2>5
<1>4. PICK r : r = Address(area, SliceCore, Slice)
  OBVIOUS
<1>5. r \in Location /\ Strip(r) = OfSlice(at) /\ r.area = area
  BY <1>1, <1>2, <1>4, SliceDealt
<1>6. PICK k : k = OfSlice(at)
  OBVIOUS
<1>7. /\ at' \in Nat /\ phase' \in {"cores", "extended"}
      /\ phase' = "cores" => at' < Slices
      /\ phase' = "extended" => at' < Len(HostSeq)
      /\ ~Passed(k) /\ \A l : Passed(l) \/ l = k => Passed(l)'
  BY <1>1, <1>2, <1>6, SlicePassed
<1>8. /\ fCoresRangeList' \in [Core -> SUBSET Location]
      /\ fHostsRangeList' \in [Host -> SUBSET Location]
      /\ IsFiniteSet(CoresRange') /\ AllPassed' /\ DealtOnce'
  BY <1>2, <1>3, <1>4, <1>5, <1>6, <1>7, NewDeal
<1>9. QED BY <1>2, <1>7, <1>8, Dealing

LEMMA ExtendedStepInv ==
  ASSUME VerdictInv, MemoryEndsBelow, ExtendedSpace \/ NoExtended
  PROVE  VerdictInv'
<1>1. TypesOK /\ AllPassed /\ DealtOnce /\ phase = "extended" /\ UNCHANGED <<expected, tested>>
  BY DEF VerdictInv, ExtendedSpace, NoExtended, ExtendedStep
<1>2. CASE NoExtended
  <2>1. /\ phase' = "bursts" /\ UNCHANGED <<at, fCoresRangeList, fHostsRangeList>>
    BY <1>2 DEF NoExtended
  <2>2. /\ AllPassed' /\ DealtOnce' /\ CoresRange' = CoresRange
    BY <1>1, <2>1 DEF AllPassed, DealtOnce, CoresRange
  <2>3. /\ at' \in Nat /\ at' < Len(HostSeq) /\ IsFiniteSet(CoresRange')
        /\ fCoresRangeList' \in [Core -> SUBSET Location]
        /\ fHostsRangeList' \in [Host -> SUBSET Location]
    BY <1>1, <2>1, <2>2 DEF TypesOK
  <2>4. QED BY <1>1, <2>1, <2>2, <2>3, Dealing
<1>3. CASE ExtendedSpace
  <2>1. PICK h : h = HostSeq[at + 1]
    OBVIOUS
  <2>2. PICK r : r = Extended(h)
    OBVIOUS
  <2>3. /\ at + 1 \in DOMAIN HostSeq /\ h \in Host
        /\ at' \in Nat /\ phase' \in {"extended", "bursts"} /\ at' < Len(HostSeq)
        /\ ~Passed(Strip(r)) /\ \A k : Passed(k) \/ k = Strip(r) => Passed(k)'
    BY <1>1, <1>3, <2>1, <2>2, HostPassed
  <2>4. r \in Location /\ r.area = h
    <3>1. HostNumber[h] \in Nat
      BY <2>1, <2>3, HostAt
    <3>2. ExtendedSlice \in Nat \ {0}
      BY TransactionMapAssumption
    <3>3. QED BY <2>2, <2>3, <3>1, <3>2 DEF Extended, Address, Location
  <2>5. \/ \E c \in Core : GiveToCore(c, r)
        \/ \E g \in Host : GiveToHost(g, r) /\ r.area # g
    BY <1>3, <2>1, <2>2, <2>4 DEF ExtendedSpace
  <2>6. /\ fCoresRangeList' \in [Core -> SUBSET Location]
        /\ fHostsRangeList' \in [Host -> SUBSET Location]
        /\ IsFiniteSet(CoresRange') /\ AllPassed' /\ DealtOnce'
    BY <1>1, <2>3, <2>4, <2>5, NewDeal
  <2>7. QED BY <1>1, <2>3, <2>6, Dealing
<1>4. QED BY <1>2, <1>3
-----------------------------------------------------------------------------
(* The bursts.                                                             *)

LEMMA InIs ==
  ASSUME NEW a \in Location, NEW h \in Host
  PROVE  /\ In(h, a) \in Location /\ In(h, a).area = h /\ Strip(In(h, a)) = Strip(a)
         /\ In(h, a).core = a.core /\ In(h, a).off = a.off
BY DEF In, Location, Strip

LEMMA SamePlace ==
  ASSUME NEW a \in Location, NEW b \in Location, Strip(a) = Strip(b), a.area = b.area
  PROVE  a = b
BY DEF Location, Strip

LEMMA NoHostIsChip == "chip" \notin Host
BY TransactionMapAssumption DEF Host, Range, HostNumber

\* Two locations of hosts at one place are one, with one owner.
LEMMA OneOwner ==
  ASSUME TypesOK, DealtOnce, NEW h \in Host, NEW r \in fHostsRangeList[h]
  PROVE  /\ r \in Location /\ In(h, r) \in Location /\ Strip(In(h, r)) = Strip(r)
         /\ In(h, r).area = h /\ r # In(h, r)
         /\ \A g \in Host : \A s \in fHostsRangeList[g] :
              (g = h /\ s = r)
                \/ (Strip(s) # Strip(r) /\ s # r /\ s # In(h, r) /\ In(g, s) # r
                      /\ In(g, s) # In(h, r))
         /\ \A a \in CoresRange : Strip(a) # Strip(r) /\ a # r /\ a # In(h, r)
<1>1. r \in Location
  BY DEF TypesOK
<1>2. /\ In(h, r) \in Location /\ Strip(In(h, r)) = Strip(r) /\ In(h, r).area = h
  BY <1>1, InIs
<1>3. r # In(h, r)
  BY <1>2 DEF DealtOnce
<1>4. ASSUME NEW g \in Host, NEW s \in fHostsRangeList[g], ~(g = h /\ s = r)
      PROVE  Strip(s) # Strip(r) /\ s # r /\ s # In(h, r) /\ In(g, s) # r /\ In(g, s) # In(h, r)
  <2>1. s \in Location /\ Strip(s) # Strip(r)
    BY <1>4 DEF TypesOK, DealtOnce
  <2>2. Strip(In(g, s)) = Strip(s)
    BY <2>1, InIs
  <2>3. QED BY <1>2, <2>1, <2>2
<1>5. \A a \in CoresRange : Strip(a) # Strip(r) /\ a # r /\ a # In(h, r)
  BY <1>2 DEF DealtOnce
<1>6. QED BY <1>1, <1>2, <1>3, <1>4, <1>5

LEMMA DealsStay ==
  ASSUME UNCHANGED <<fCoresRangeList, fHostsRangeList>>, phase' \notin {"cores", "extended"}
  PROVE  /\ CoresRange' = CoresRange /\ (DealtOnce => DealtOnce') /\ AllPassed'
         /\ \A a : OfCore(a)' = OfCore(a)
BY DEF CoresRange, DealtOnce, AllPassed, OfCore

\* The host whose turn it is drives its transaction last.
LEMMA Driven ==
  ASSUME TypesOK, GroupInv, ~Multicasts, phase = "bursts", NEW t \in Transaction, Drive(t)
  PROVE  /\ Master \in Host /\ file' \in [Host -> Seq(Transaction)]
         /\ \A h \in Host \ {Master} : file'[h] = file[h]
         /\ LET n == Len(file[Master]) IN
              /\ n \in Nat /\ DOMAIN file[Master] = 1 .. n
              /\ DOMAIN file'[Master] = 1 .. n + 1
              /\ file'[Master][n + 1] = t
              /\ \A i \in 1 .. n : file'[Master][i] = file[Master][i]
<1>1. Master \in Host
  <2>1. at + 1 \in DOMAIN HostSeq
    BY Lengths, LenProperties, TransactionMapAssumption DEF TypesOK
  <2>2. QED BY <2>1, HostAt DEF Master
<1>2. file'[Master] = Append(file[Master], t)
      /\ \A h \in Host \ {Master} : file'[h] = file[h]
  BY <1>1, NoGroups DEF Drive, TypesOK
<1>3. file[Master] \in Seq(Transaction)
  BY <1>1 DEF TypesOK
<1>4. file' \in [Host -> Seq(Transaction)]
  BY <1>1, <1>2, <1>3, AppendProperties DEF Drive, TypesOK
<1>5. QED BY <1>1, <1>2, <1>3, <1>4, AppendProperties, LenProperties

LEMMA NewDataIs ==
  ASSUME TypesOK, phase = "bursts" PROVE NewData \in Host \X Nat
<1>1. at + 1 \in DOMAIN HostSeq
  BY Lengths, LenProperties, TransactionMapAssumption DEF TypesOK
<1>2. Master \in Host
  BY <1>1, HostAt DEF Master
<1>3. file[Master] \in Seq(Transaction)
  BY <1>2 DEF TypesOK
<1> DEFINE S == {i \in DOMAIN file[Master] : file[Master][i].kind # "listen"}
<1>4. Len(file[Master]) \in Nat /\ DOMAIN file[Master] = 1 .. Len(file[Master])
  BY <1>3, LenProperties
<1>5. IsFiniteSet(1 .. Len(file[Master]))
  BY <1>4, FS_Interval
<1>6. IsFiniteSet(S)
  BY <1>4, <1>5, FS_Subset
<1>7. Cardinality(S) \in Nat
  BY <1>6, FS_CardinalityType
<1>8. QED BY <1>2, <1>7 DEF NewData, Bursts

\* What a burst leaves, and what it comes down to.
LEMMA BurstKeeps ==
  ASSUME VerdictInv, GroupInv, ~Multicasts, NEW r, Burst(r), NEW t \in Transaction, Drive(t),
         UNCHANGED signoff
  PROVE  /\ TypesOK' /\ AllPassed' /\ DealtOnce' /\ NotStarted'
         /\ WrittenByOwner' /\ HostsHave' /\ AllBack'
         /\ phase = "bursts" /\ Master \in Host /\ r \in fHostsRangeList[Master]
         /\ UNCHANGED <<fHostsRangeList, hostMem, written>>
<1>1. /\ phase = "bursts" /\ r \in fHostsRangeList[Master]
      /\ UNCHANGED <<phase, at, fCoresRangeList, fHostsRangeList>>
      /\ UNCHANGED <<chip, hostMem, written, coresDone>>
  BY DEF Burst, generated, tested
<1>2. Master \in Host /\ file' \in [Host -> Seq(Transaction)]
  BY <1>1, Driven DEF VerdictInv
<1>3. /\ CoresRange' = CoresRange /\ DealtOnce' /\ AllPassed' /\ \A a : OfCore(a)' = OfCore(a)
  BY <1>1, DealsStay DEF VerdictInv
<1>4. TypesOK'
  BY <1>1, <1>2, <1>3 DEF VerdictInv, TypesOK
<1>5. NotStarted'
  BY <1>1 DEF VerdictInv, NotStarted
<1>6. WrittenByOwner' /\ HostsHave' /\ AllBack'
  <2>1. \A b : Content(b)' = Content(b)
    BY <1>1 DEF Content
  <2>2. ~coresDone /\ ~coresDone'
    BY <1>1 DEF VerdictInv, NotStarted
  <2>3. WrittenByOwner'
    BY <1>1, <2>2 DEF VerdictInv, TestInv, WrittenByOwner
  <2>4. HostsHave' /\ AllBack'
    BY <1>1, <1>3 DEF VerdictInv, TestInv, HostsHave, AllBack
  <2>5. QED BY <2>3, <2>4
<1>7. QED BY <1>1, <1>2, <1>3, <1>4, <1>5, <1>6

LEMMA WriteStep ==
  ASSUME VerdictInv, GroupInv, ~Multicasts, NEW r, BurstWrite(r)
  PROVE  VerdictInv'
<1>1. PICK v : v = NewData
  OBVIOUS
<1>2. PICK h : h = Master
  OBVIOUS
<1>3. PICK t : t = Write(r, v)
  OBVIOUS
<1>4. phase = "bursts" /\ r \in fHostsRangeList[Master]
  BY DEF BurstWrite, Burst
<1>5. v \in Host \X Nat
  BY <1>1, <1>4, NewDataIs DEF VerdictInv
<1>6. h \in Host
  <2>1. at + 1 \in DOMAIN HostSeq
    BY <1>4, Lengths, LenProperties, TransactionMapAssumption DEF VerdictInv, TypesOK
  <2>2. QED BY <1>2, <2>1, HostAt DEF Master
<1>7. t \in Transaction /\ t.kind = "write" /\ t.dst = r /\ t.val = v
  <2>1. r \in Location
    BY <1>2, <1>4, <1>6 DEF VerdictInv, TypesOK
  <2>2. QED BY <1>3, <1>5, <2>1 DEF Write, Transaction
<1>8. Burst(r) /\ Drive(t) /\ UNCHANGED <<signoff, fExpReadAddr>>
      /\ fExpData' = Put(Put(fExpData, r, v), In(h, r), v)
  BY <1>1, <1>2, <1>3 DEF BurstWrite
<1>9. /\ TypesOK' /\ AllPassed' /\ DealtOnce' /\ NotStarted'
      /\ WrittenByOwner' /\ HostsHave' /\ AllBack'
      /\ r \in fHostsRangeList[h] /\ UNCHANGED <<fHostsRangeList, hostMem, written>>
  BY <1>2, <1>7, <1>8, BurstKeeps
<1>10. PICK n : n = Len(file[h])
  OBVIOUS
<1>11. /\ \A g \in Host \ {h} : file'[g] = file[g]
       /\ n \in Nat /\ DOMAIN file[h] = 1 .. n /\ DOMAIN file'[h] = 1 .. n + 1
       /\ file'[h][n + 1] = t /\ \A i \in 1 .. n : file'[h][i] = file[h][i]
  BY <1>2, <1>4, <1>7, <1>8, <1>10, Driven DEF VerdictInv
<1>12. /\ DOMAIN fExpData' = DOMAIN fExpData \cup {r, In(h, r)}
       /\ fExpData'[r] = v /\ fExpData'[In(h, r)] = v
       /\ \A b \in DOMAIN fExpData' \ {r, In(h, r)} : fExpData'[b] = fExpData[b]
  BY <1>8 DEF Put
<1>13. OwnFiles'
  BY <1>6, <1>7, <1>9, <1>11 DEF VerdictInv, TestInv, OwnFiles
<1>14. \A g \in Host : \A s \in fHostsRangeList[g] :
         (g = h /\ s = r)
           \/ (s # r /\ s # In(h, r) /\ In(g, s) # r /\ In(g, s) # In(h, r))
  BY <1>6, <1>9, OneOwner DEF VerdictInv
<1>15. ExpectsLast'
  <2> SUFFICES ASSUME NEW g \in Host, NEW s \in fHostsRangeList[g]
               PROVE  \/ s \notin DOMAIN fExpData' /\ s \notin DOMAIN written' /\ NoWrite(g, s)'
                      \/ /\ s \in DOMAIN fExpData'
                         /\ \/ LastWrite(g, s, fExpData[s])'
                            \/ /\ NoWrite(g, s)'
                               /\ s \in DOMAIN written' /\ written'[s] = fExpData'[s]
    BY <1>9 DEF ExpectsLast
  <2>1. CASE g = h /\ s = r
    <3>1. LastWrite(h, r, v)'
      BY <1>7, <1>11 DEF LastWrite, Writes
    <3>2. QED BY <2>1, <3>1, <1>12 DEF LastWrite, Writes
  <2>2. CASE ~(g = h /\ s = r)
    <3>1. s # r /\ s # In(h, r)
      BY <1>14, <2>2
    <3>2. /\ s \in DOMAIN fExpData' <=> s \in DOMAIN fExpData
          /\ s \in DOMAIN fExpData => fExpData'[s] = fExpData[s]
      BY <1>12, <3>1
    <3>3. NoWrite(g, s) => NoWrite(g, s)'
      BY <1>7, <1>11, <3>1 DEF NoWrite, Writes
    <3>4. \A w : LastWrite(g, s, w) => LastWrite(g, s, w)'
      BY <1>7, <1>11, <3>1 DEF LastWrite, Writes
    <3>5. LastWrite(g, s, fExpData[s]) /\ s \in DOMAIN fExpData => LastWrite(g, s, fExpData[s])'
      BY <3>2, <3>4 DEF LastWrite, Writes
    <3>6. QED BY <1>9, <3>2, <3>3, <3>5 DEF VerdictInv, TestInv, ExpectsLast
  <2>3. QED BY <2>1, <2>2
<1>16. ExpectsBoth'
  <2>1. ASSUME NEW b \in DOMAIN fExpData'
        PROVE  \E g \in Host : \E s \in fHostsRangeList'[g] : b \in {s, In(g, s)}
    BY <1>6, <1>9, <1>12 DEF VerdictInv, TestInv, ExpectsBoth
  <2>2. ASSUME NEW g \in Host, NEW s \in fHostsRangeList'[g]
        PROVE  /\ s \in DOMAIN fExpData' <=> In(g, s) \in DOMAIN fExpData'
               /\ s \in DOMAIN fExpData' => fExpData'[In(g, s)] = fExpData'[s]
    BY <1>9, <1>12, <1>14 DEF VerdictInv, TestInv, ExpectsBoth
  <2>3. QED BY <2>1, <2>2 DEF ExpectsBoth, In
<1>17. ReadsCome'
  <2> SUFFICES ASSUME NEW b \in fExpReadAddr
               PROVE  \E g \in Host : \E s \in fHostsRangeList[g] :
                        /\ b = In(g, s)
                        /\ \/ b \in DOMAIN hostMem
                           \/ \E i \in DOMAIN file'[g] :
                                file'[g][i].kind = "read" /\ file'[g][i].dst = s
    BY <1>8, <1>9 DEF ReadsCome, In
  <2>1. PICK g \in Host : \E s \in fHostsRangeList[g] :
                        /\ b = In(g, s)
                        /\ \/ b \in DOMAIN hostMem
                           \/ \E i \in DOMAIN file[g] :
                                file[g][i].kind = "read" /\ file[g][i].dst = s
    BY DEF VerdictInv, TestInv, ReadsCome
  <2>2. \A i \in DOMAIN file[g] : i \in DOMAIN file'[g] /\ file'[g][i] = file[g][i]
    BY <1>11
  <2>3. QED BY <2>1, <2>2
<1>18. QED BY <1>9, <1>13, <1>15, <1>16, <1>17 DEF VerdictInv, TestInv

LEMMA ReadStep ==
  ASSUME VerdictInv, GroupInv, ~Multicasts, NEW r, BurstRead(r)
  PROVE  VerdictInv'
<1>1. PICK h : h = Master
  OBVIOUS
<1>2. PICK t : t = Read(r, In(h, r))
  OBVIOUS
<1>3. phase = "bursts" /\ r \in fHostsRangeList[Master]
  BY DEF BurstRead, Burst
<1>4. h \in Host
  <2>1. at + 1 \in DOMAIN HostSeq
    BY <1>3, Lengths, LenProperties, TransactionMapAssumption DEF VerdictInv, TypesOK
  <2>2. QED BY <1>1, <2>1, HostAt DEF Master
<1>5. r \in fHostsRangeList[h] /\ r \in Location /\ In(h, r) \in Location
  BY <1>1, <1>3, <1>4, OneOwner DEF VerdictInv
<1>6. t \in Transaction /\ t.kind = "read" /\ t.dst = r /\ t.src = In(h, r)
  BY <1>2, <1>5 DEF Read, Transaction
<1>7. Burst(r) /\ Drive(t) /\ UNCHANGED signoff /\ fExpReadAddr' = fExpReadAddr \cup {In(h, r)}
      /\ fExpData' = IF r \in DOMAIN fExpData THEN Put(fExpData, In(h, r), fExpData[r])
                     ELSE fExpData
  BY <1>1, <1>2 DEF BurstRead
<1>8. /\ TypesOK' /\ AllPassed' /\ DealtOnce' /\ NotStarted'
      /\ WrittenByOwner' /\ HostsHave' /\ AllBack'
      /\ UNCHANGED <<fHostsRangeList, hostMem, written>>
  BY <1>6, <1>7, BurstKeeps
<1>9. PICK n : n = Len(file[h])
  OBVIOUS
<1>10. /\ \A g \in Host \ {h} : file'[g] = file[g]
       /\ n \in Nat /\ DOMAIN file[h] = 1 .. n /\ DOMAIN file'[h] = 1 .. n + 1
       /\ file'[h][n + 1] = t /\ \A i \in 1 .. n : file'[h][i] = file[h][i]
  BY <1>1, <1>3, <1>6, <1>7, <1>9, Driven DEF VerdictInv
\* The location is expected there already, if it is expected at all.
<1>11. /\ DOMAIN fExpData' = DOMAIN fExpData
       /\ \A b \in DOMAIN fExpData : fExpData'[b] = fExpData[b]
  <2>1. r \in DOMAIN fExpData =>
          In(h, r) \in DOMAIN fExpData /\ fExpData[In(h, r)] = fExpData[r]
    BY <1>4, <1>5 DEF VerdictInv, TestInv, ExpectsBoth
  <2>2. QED BY <1>7, <2>1 DEF Put
<1>12. OwnFiles'
  <2>1. ASSUME NEW g \in Host, NEW i \in DOMAIN file'[g]
        PROVE  /\ file'[g][i].dst \in fHostsRangeList[g]
               /\ file'[g][i].kind \in {"write", "read"}
               /\ file'[g][i].kind = "read" => file'[g][i].src = In(g, file'[g][i].dst)
    <3>1. CASE g = h /\ i = n + 1
      BY <1>5, <1>6, <1>10, <3>1
    <3>2. CASE ~(g = h /\ i = n + 1)
      <4>1. i \in DOMAIN file[g] /\ file'[g][i] = file[g][i]
        <5>1. CASE g = h
          BY <1>10, <3>2, <5>1
        <5>2. CASE g # h
          BY <1>10, <5>2
        <5>3. QED BY <5>1, <5>2
      <4>2. QED BY <4>1 DEF VerdictInv, TestInv, OwnFiles
    <3>3. QED BY <3>1, <3>2
  <2>2. QED BY <1>8, <2>1 DEF OwnFiles, In
<1>13. ExpectsLast'
  <2> SUFFICES ASSUME NEW g \in Host, NEW s \in fHostsRangeList[g]
               PROVE  \/ s \notin DOMAIN fExpData' /\ s \notin DOMAIN written' /\ NoWrite(g, s)'
                      \/ /\ s \in DOMAIN fExpData'
                         /\ \/ LastWrite(g, s, fExpData[s])'
                            \/ /\ NoWrite(g, s)'
                               /\ s \in DOMAIN written' /\ written'[s] = fExpData'[s]
    BY <1>8 DEF ExpectsLast
  <2>1. NoWrite(g, s) => NoWrite(g, s)'
    BY <1>6, <1>10 DEF NoWrite, Writes
  <2>2. \A w : LastWrite(g, s, w) => LastWrite(g, s, w)'
    BY <1>6, <1>10 DEF LastWrite, Writes
  <2>3. LastWrite(g, s, fExpData[s]) /\ s \in DOMAIN fExpData => LastWrite(g, s, fExpData[s])'
    BY <1>11, <2>2 DEF LastWrite, Writes
  <2>4. QED BY <1>8, <1>11, <2>1, <2>3 DEF VerdictInv, TestInv, ExpectsLast
<1>14. ExpectsBoth'
  BY <1>8, <1>11 DEF VerdictInv, TestInv, ExpectsBoth, In
<1>15. ReadsCome'
  <2> SUFFICES ASSUME NEW b \in fExpReadAddr'
               PROVE  \E g \in Host : \E s \in fHostsRangeList[g] :
                        /\ b = In(g, s)
                        /\ \/ b \in DOMAIN hostMem
                           \/ \E i \in DOMAIN file'[g] :
                                file'[g][i].kind = "read" /\ file'[g][i].dst = s
    BY <1>8 DEF ReadsCome, In
  <2>1. CASE b = In(h, r)
    <3>1. n + 1 \in DOMAIN file'[h]
      BY <1>10
    <3>2. QED BY <1>4, <1>5, <1>6, <1>10, <2>1, <3>1
  <2>2. CASE b \in fExpReadAddr
    <3>1. PICK g \in Host : \E s \in fHostsRangeList[g] :
                        /\ b = In(g, s)
                        /\ \/ b \in DOMAIN hostMem
                           \/ \E i \in DOMAIN file[g] :
                                file[g][i].kind = "read" /\ file[g][i].dst = s
      BY <2>2 DEF VerdictInv, TestInv, ReadsCome
    <3>2. \A i \in DOMAIN file[g] : i \in DOMAIN file'[g] /\ file'[g][i] = file[g][i]
      BY <1>10
    <3>3. QED BY <3>1, <3>2
  <2>3. QED BY <1>7, <2>1, <2>2
<1>16. QED BY <1>8, <1>12, <1>13, <1>14, <1>15 DEF VerdictInv, TestInv

\* Nothing is at the multicast address: it is 0.
LEMMA NoBurstMulticast ==
  ASSUME VerdictInv, GroupInv, ~Multicasts, NEW r, BurstMulticast(r)
  PROVE  FALSE
<1>1. at + 1 \in DOMAIN HostSeq
  BY Lengths, LenProperties, TransactionMapAssumption
  DEF VerdictInv, TypesOK, BurstMulticast, Burst
<1>2. Master \in Host
  BY <1>1, HostAt DEF Master
<1>3. r \in Location /\ r.off = 0
  BY <1>2, NoGroups DEF VerdictInv, TypesOK, BurstMulticast, Burst, IsMulticast
<1>4. QED BY <1>3 DEF Location

\* A step that changes at most whose turn it is, or begins the run.
LEMMA TurnStep ==
  ASSUME VerdictInv, phase = "bursts", phase' \in {"bursts", "run"},
         at' \in Nat, at' < Len(HostSeq),
         UNCHANGED <<fCoresRangeList, fHostsRangeList, expected, tested>>
  PROVE  VerdictInv'
<1>1. /\ UNCHANGED <<file, signoff, fExpData, fExpReadAddr, chip, hostMem, written, coresDone>>
  BY DEF expected, tested
<1>2. /\ CoresRange' = CoresRange /\ DealtOnce' /\ AllPassed' /\ \A a : OfCore(a)' = OfCore(a)
  BY DealsStay DEF VerdictInv
<1>3. TypesOK'
  BY <1>1, <1>2 DEF VerdictInv, TypesOK, Phases
<1>4. NotStarted'
  BY <1>1 DEF VerdictInv, NotStarted
<1>5. \A b : Content(b)' = Content(b)
  BY <1>1 DEF Content
<1>6. OwnFiles' /\ ExpectsLast'
  BY <1>1 DEF VerdictInv, TestInv, OwnFiles, ExpectsLast, NoWrite, LastWrite, Writes, In
<1>7. ExpectsBoth' /\ ReadsCome'
  BY <1>1 DEF VerdictInv, TestInv, ExpectsBoth, ReadsCome, In
<1>8. WrittenByOwner'
  BY <1>1, <1>2, <1>5 DEF VerdictInv, TestInv, WrittenByOwner
<1>9. HostsHave' /\ AllBack'
  BY <1>1, <1>2 DEF VerdictInv, TestInv, HostsHave, AllBack, In
<1>10. QED BY <1>2, <1>3, <1>4, <1>6, <1>7, <1>8, <1>9 DEF VerdictInv, TestInv

LEMMA NextHostStep ==
  ASSUME VerdictInv, NextHost PROVE VerdictInv'
<1>1. phase = "bursts" /\ at \in Nat /\ Master \in Host
  <2>1. phase = "bursts" /\ at \in Nat /\ at + 1 \in DOMAIN HostSeq
    BY Lengths, LenProperties, TransactionMapAssumption DEF VerdictInv, TypesOK, NextHost
  <2>2. QED BY <2>1, HostAt DEF Master
<1>2. \A h \in Host : signoff[h] = <<>>
  BY <1>1 DEF VerdictInv, NotStarted
<1>3. file[Master] \o signoff[Master] = file[Master]
  BY <1>1, <1>2, ConcatEmptySeq DEF VerdictInv, TypesOK
<1>4. file' = file /\ signoff' = signoff
  BY <1>1, <1>2, <1>3 DEF VerdictInv, TypesOK, NextHost
<1>5. /\ at' = (at + 1) % Len(HostSeq) /\ phase' = IF at' = 0 THEN "run" ELSE "bursts"
      /\ UNCHANGED <<fCoresRangeList, fHostsRangeList, fExpData, fExpReadAddr, tested>>
  BY DEF NextHost, generated
<1>6. at' \in 0 .. Len(HostSeq) - 1
  BY <1>1, <1>5, Lengths
<1>7. QED BY <1>1, <1>4, <1>5, <1>6, Lengths, TurnStep DEF expected
-----------------------------------------------------------------------------
(* The run.                                                                *)

LEMMA Stored ==
  ASSUME NEW data, Store(data)
  PROVE  /\ DOMAIN hostMem' = DOMAIN hostMem \cup {b \in DOMAIN data : b.area # "chip"}
         /\ \A a : Content(a)' = IF a \in DOMAIN data THEN data[a] ELSE Content(a)
<1> DEFINE C == {b \in DOMAIN data : b.area = "chip"}
           H == {b \in DOMAIN data : b.area # "chip"}
<1>1. /\ {b \in DOMAIN data : (b.area = "chip") = TRUE} = C
      /\ {b \in DOMAIN data : (b.area = "chip") = FALSE} = H
  OBVIOUS
<1>2. /\ chip' = PutAll(chip, [a \in C |-> data[a]])
      /\ hostMem' = PutAll(hostMem, [a \in H |-> data[a]])
  BY <1>1 DEF Store
<1>3. /\ DOMAIN chip' = DOMAIN chip \cup C
      /\ \A a \in DOMAIN chip' : chip'[a] = IF a \in C THEN data[a] ELSE chip[a]
  BY <1>2 DEF PutAll
<1>4. /\ DOMAIN hostMem' = DOMAIN hostMem \cup H
      /\ \A a \in DOMAIN hostMem' : hostMem'[a] = IF a \in H THEN data[a] ELSE hostMem[a]
  BY <1>2 DEF PutAll
<1>5. ASSUME NEW a
      PROVE  Content(a)' = IF a \in DOMAIN data THEN data[a] ELSE Content(a)
  BY <1>3, <1>4 DEF Content
<1>6. QED BY <1>4, <1>5

\* A write to one location arrives, or is lost.
LEMMA Arrived ==
  ASSUME NEW r, NEW v, Arrive([a \in {r} |-> v])
  PROVE  /\ DOMAIN written' = DOMAIN written \cup {r} /\ written'[r] = v
         /\ \A a \in DOMAIN written \ {r} : written'[a] = written[a]
         /\ DOMAIN hostMem \subseteq DOMAIN hostMem'
         /\ \A b \in DOMAIN hostMem' : b \in DOMAIN hostMem \/ (b = r /\ r.area # "chip")
         /\ \A a : a # r => Content(a)' = Content(a)
<1>1. /\ DOMAIN written' = DOMAIN written \cup {r} /\ written'[r] = v
      /\ \A a \in DOMAIN written \ {r} : written'[a] = written[a]
  BY DEF Arrive, PutAll
<1>2. CASE Store([a \in {r} |-> v])
  <2> DEFINE data == [a \in {r} |-> v]
  <2>1. Store(data) /\ DOMAIN data = {r}
    BY <1>2
  <2> HIDE DEF data
  <2>2. /\ DOMAIN hostMem' = DOMAIN hostMem \cup {b \in DOMAIN data : b.area # "chip"}
        /\ \A a : Content(a)' = IF a \in DOMAIN data THEN data[a] ELSE Content(a)
    BY <2>1, Stored
  <2>3. QED BY <1>1, <2>1, <2>2
<1>3. CASE UNCHANGED <<chip, hostMem>>
  BY <1>1, <1>3 DEF Content
<1>4. QED BY <1>2, <1>3 DEF Arrive

\* The first transaction leaves the file.
LEMMA RanOne ==
  ASSUME TypesOK, OwnFiles, NEW h \in Host, RunHost(h)
  PROVE  LET t == file[h][1]
             n == Len(file[h])
         IN /\ phase = "run" /\ n \in Nat \ {0} /\ DOMAIN file[h] = 1 .. n
            /\ t.dst \in fHostsRangeList[h]
            /\ file' \in [Host -> Seq(Transaction)]
            /\ \A g \in Host \ {h} : file'[g] = file[g]
            /\ DOMAIN file'[h] = 1 .. n - 1
            /\ \A i \in 1 .. n - 1 : file'[h][i] = file[h][i + 1]
            /\ \/ /\ t.kind = "write" /\ Arrive([a \in {t.dst} |-> t.val])
                  /\ signoff' = [signoff EXCEPT ![h] = Append(@, t.dst)]
               \/ /\ t.kind = "read" /\ signoff' = signoff /\ UNCHANGED <<chip, written>>
                  /\ hostMem' = Put(hostMem, In(h, t.dst), Content(t.dst))
<1> DEFINE t == file[h][1]
           n == Len(file[h])
<1>1. phase = "run" /\ file[h] # <<>> /\ file[h] \in Seq(Transaction)
  BY DEF RunHost, TypesOK
<1>2. n \in Nat \ {0} /\ DOMAIN file[h] = 1 .. n /\ Head(file[h]) = t
  BY <1>1, LenProperties, EmptySeq
<1>3. /\ t.dst \in fHostsRangeList[h] /\ t.kind \in {"write", "read"}
      /\ t.kind = "read" => t.src = In(h, t.dst)
  BY <1>2 DEF OwnFiles
<1>4. file' = [file EXCEPT ![h] = Tail(@)]
  BY DEF RunHost
<1>5. Tail(file[h]) \in Seq(Transaction) /\ DOMAIN Tail(file[h]) = 1 .. n - 1
      /\ \A i \in 1 .. n - 1 : Tail(file[h])[i] = file[h][i + 1]
  BY <1>1, <1>2, HeadTailProperties, LenProperties
<1>6. /\ file' \in [Host -> Seq(Transaction)] /\ file'[h] = Tail(file[h])
      /\ \A g \in Host \ {h} : file'[g] = file[g]
  BY <1>4, <1>5 DEF TypesOK
<1>7. CASE t.kind = "write"
  <2>1. /\ Arrive([a \in {t.dst} |-> t.val])
        /\ signoff' = [signoff EXCEPT ![h] = Append(@, t.dst)]
    BY <1>2, <1>7 DEF RunHost
  <2>2. QED BY <1>1, <1>2, <1>3, <1>5, <1>6, <1>7, <2>1
<1>8. CASE t.kind = "read"
  <2>1. /\ hostMem' = Put(hostMem, In(h, t.dst), Content(t.dst))
        /\ signoff' = signoff /\ UNCHANGED <<chip, written>>
    BY <1>2, <1>3, <1>8 DEF RunHost
  <2>2. QED BY <1>1, <1>2, <1>3, <1>5, <1>6, <1>8, <2>1
<1>9. QED BY <1>3, <1>7, <1>8

LEMMA RunHostStep ==
  ASSUME VerdictInv, NEW h \in Host, RunHost(h)
  PROVE  VerdictInv'
<1> USE DEF VerdictInv, TestInv
<1>1. PICK t : t = file[h][1]
  OBVIOUS
<1>2. PICK n : n = Len(file[h])
  OBVIOUS
<1>3. PICK r : r = t.dst
  OBVIOUS
<1>4. /\ phase = "run" /\ n \in Nat \ {0} /\ DOMAIN file[h] = 1 .. n
      /\ r \in fHostsRangeList[h] /\ file' \in [Host -> Seq(Transaction)]
      /\ \A g \in Host \ {h} : file'[g] = file[g]
      /\ DOMAIN file'[h] = 1 .. n - 1 /\ \A i \in 1 .. n - 1 : file'[h][i] = file[h][i + 1]
  BY <1>1, <1>2, <1>3, RanOne
<1>5. \/ /\ t.kind = "write" /\ Arrive([a \in {r} |-> t.val])
         /\ signoff' = [signoff EXCEPT ![h] = Append(@, r)]
      \/ /\ t.kind = "read" /\ signoff' = signoff /\ UNCHANGED <<chip, written>>
         /\ hostMem' = Put(hostMem, In(h, r), Content(r))
  BY <1>1, <1>3, RanOne
<1>6. UNCHANGED <<phase, at, fCoresRangeList, fHostsRangeList, fExpData, fExpReadAddr, coresDone>>
  BY DEF RunHost, generated
<1>7. /\ r \in Location /\ In(h, r).area = h
      /\ \A g \in Host : \A s \in fHostsRangeList[g] : (g = h /\ s = r) \/ s # r
      /\ \A a \in CoresRange : a # r /\ a # In(h, r)
  BY <1>4, OneOwner
<1>8. /\ CoresRange' = CoresRange /\ DealtOnce' /\ AllPassed' /\ \A a : OfCore(a)' = OfCore(a)
  BY <1>4, <1>6, DealsStay
\* What the step does to the data of the test.
<1>9. /\ DOMAIN written \subseteq DOMAIN written'
      /\ DOMAIN written' \subseteq DOMAIN written \cup {r}
      /\ \A a \in DOMAIN written \ {r} : written'[a] = written[a]
      /\ t.kind = "write" => r \in DOMAIN written' /\ written'[r] = t.val
      /\ t.kind = "read" => written' = written
  <2>1. CASE t.kind = "write"
    <3>1. /\ DOMAIN written' = DOMAIN written \cup {r} /\ written'[r] = t.val
          /\ \A a \in DOMAIN written \ {r} : written'[a] = written[a]
      BY <1>5, <2>1, Arrived
    <3>2. QED BY <2>1, <3>1
  <2>2. CASE t.kind = "read" /\ UNCHANGED written
    BY <2>2
  <2>3. QED BY <1>5, <2>1, <2>2
<1>10. /\ DOMAIN hostMem \subseteq DOMAIN hostMem'
       /\ \A b \in DOMAIN hostMem' :
            b \in DOMAIN hostMem \/ b = In(h, r) \/ (b = r /\ r.area # "chip")
       /\ t.kind = "read" => In(h, r) \in DOMAIN hostMem'
  BY <1>5, Arrived DEF Put
<1>11. \A a \in CoresRange : Content(a)' = Content(a)
  <2>1. CASE t.kind = "write"
    BY <1>5, <1>7, <2>1, Arrived
  <2>2. CASE t.kind = "read"
    <3>1. /\ DOMAIN hostMem' = DOMAIN hostMem \cup {In(h, r)} /\ chip' = chip
          /\ \A b \in DOMAIN hostMem' \ {In(h, r)} : hostMem'[b] = hostMem[b]
      BY <1>5, <2>2 DEF Put
    <3>2. QED BY <1>7, <3>1 DEF Content
  <2>3. QED BY <1>5, <2>1, <2>2
<1>12. /\ signoff' \in [Host -> Seq(Location)]
       /\ \A g \in Host : Range(signoff[g]) \subseteq Range(signoff'[g])
       /\ \A g \in Host : Range(signoff'[g]) \subseteq
            Range(signoff[g]) \cup (IF g = h THEN {r} ELSE {})
       /\ t.kind = "write" => r \in Range(signoff'[h])
  <2>1. CASE t.kind = "write"
    <3>1. /\ signoff'[h] = Append(signoff[h], r) /\ signoff[h] \in Seq(Location)
          /\ \A g \in Host \ {h} : signoff'[g] = signoff[g]
      BY <1>5, <2>1 DEF TypesOK
    <3>2. PICK m : m = Len(signoff[h])
      OBVIOUS
    <3>3. /\ m \in Nat /\ DOMAIN signoff[h] = 1 .. m /\ DOMAIN signoff'[h] = 1 .. m + 1
          /\ signoff'[h] \in Seq(Location)
          /\ signoff'[h][m + 1] = r /\ \A i \in 1 .. m : signoff'[h][i] = signoff[h][i]
      BY <1>7, <3>1, <3>2, AppendProperties, LenProperties
    <3>4. signoff' \in [Host -> Seq(Location)]
      BY <1>5, <2>1, <3>1, <3>3 DEF TypesOK
    <3>5. Range(signoff'[h]) = Range(signoff[h]) \cup {r}
      BY <3>3 DEF Range
    <3>6. QED BY <3>1, <3>4, <3>5
  <2>2. CASE t.kind = "read"
    BY <1>5, <2>2 DEF TypesOK
  <2>3. QED BY <1>5, <2>1, <2>2
<1>13. TypesOK'
  <2>1. IsFiniteSet(DOMAIN written')
    <3>1. IsFiniteSet(DOMAIN written \cup {r})
      BY FS_AddElement DEF TypesOK
    <3>2. QED BY <1>9, <3>1, FS_Subset
  <2>2. QED BY <1>4, <1>6, <1>8, <1>12, <2>1 DEF TypesOK
<1>14. NotStarted'
  BY <1>4, <1>6 DEF NotStarted
<1>15. OwnFiles'
  <2>1. ASSUME NEW g \in Host, NEW i \in DOMAIN file'[g]
        PROVE  \E j \in DOMAIN file[g] : file'[g][i] = file[g][j]
    <3>1. CASE g = h
      <4>1. i \in 1 .. n - 1
        BY <1>4, <2>1, <3>1
      <4>2. i + 1 \in 1 .. n /\ file'[h][i] = file[h][i + 1]
        BY <1>4, <4>1
      <4>3. QED BY <1>4, <3>1, <4>2
    <3>2. CASE g # h
      BY <1>4, <2>1, <3>2
    <3>3. QED BY <3>1, <3>2
  <2>2. ASSUME NEW g \in Host, NEW i \in DOMAIN file'[g]
        PROVE  /\ file'[g][i].dst \in fHostsRangeList[g]
               /\ file'[g][i].kind \in {"write", "read"}
               /\ file'[g][i].kind = "read" => file'[g][i].src = In(g, file'[g][i].dst)
    BY <2>1 DEF OwnFiles
  <2>3. QED BY <1>6, <2>2 DEF OwnFiles, In
<1>16. ExpectsLast'
  <2> SUFFICES ASSUME NEW g \in Host, NEW s \in fHostsRangeList[g]
               PROVE  \/ s \notin DOMAIN fExpData /\ s \notin DOMAIN written' /\ NoWrite(g, s)'
                      \/ /\ s \in DOMAIN fExpData
                         /\ \/ LastWrite(g, s, fExpData[s])'
                            \/ /\ NoWrite(g, s)'
                               /\ s \in DOMAIN written' /\ written'[s] = fExpData[s]
    BY <1>6 DEF ExpectsLast
  <2>1. NoWrite(g, s) => NoWrite(g, s)'
    <3>1. CASE g = h
      <4>1. \A i \in 1 .. n - 1 : i + 1 \in 1 .. n
        BY <1>4
      <4>2. QED BY <1>4, <3>1, <4>1 DEF NoWrite, Writes
    <3>2. CASE g # h
      BY <1>4, <3>2 DEF NoWrite, Writes
    <3>3. QED BY <3>1, <3>2
  \* The last write is still in the file, unless it is the one that goes.
  <2>2. ASSUME NEW w, LastWrite(g, s, w)
        PROVE  LastWrite(g, s, w)' \/
                 (g = h /\ s = r /\ t.kind = "write" /\ t.val = w /\ NoWrite(g, s)')
    <3>1. PICK i \in DOMAIN file[g] :
             /\ Writes(g, i, s) /\ file[g][i].val = w
             /\ \A j \in DOMAIN file[g] : i < j => ~Writes(g, j, s)
      BY <2>2 DEF LastWrite
    <3>2. CASE g # h
      <4>1. file'[g] = file[g]
        BY <1>4, <3>2
      <4>2. QED BY <3>1, <4>1 DEF LastWrite, Writes
    <3>3. CASE g = h /\ i = 1
      <4>1. \A j \in 1 .. n - 1 : j + 1 \in DOMAIN file[h] /\ i < j + 1
        BY <1>4, <3>3
      <4>2. NoWrite(g, s)'
        BY <1>4, <3>1, <3>3, <4>1 DEF NoWrite, Writes
      <4>3. QED BY <1>1, <1>3, <3>1, <3>3, <4>2 DEF Writes
    <3>4. CASE g = h /\ i # 1
      <4>1. i \in Nat /\ i - 1 \in 1 .. n - 1 /\ (i - 1) + 1 = i
        BY <1>4, <3>1, <3>4
      <4>2. file'[h][i - 1] = file[h][i]
        BY <1>4, <4>1
      <4>3. \A j \in 1 .. n - 1 : i - 1 < j => j + 1 \in DOMAIN file[h] /\ i < j + 1
        BY <1>4, <4>1
      <4>4. \A j \in DOMAIN file'[h] : i - 1 < j => ~Writes(h, j, s)'
        BY <1>4, <3>1, <3>4, <4>3 DEF Writes
      <4>5. Writes(h, i - 1, s)' /\ file'[h][i - 1].val = w /\ i - 1 \in DOMAIN file'[h]
        BY <1>4, <3>1, <3>4, <4>1, <4>2 DEF Writes
      <4>6. QED BY <3>4, <4>4, <4>5 DEF LastWrite, Writes
    <3>5. QED BY <3>2, <3>3, <3>4
  <2>3. \/ s \notin DOMAIN fExpData /\ s \notin DOMAIN written /\ NoWrite(g, s)
        \/ /\ s \in DOMAIN fExpData
           /\ \/ LastWrite(g, s, fExpData[s])
              \/ NoWrite(g, s) /\ s \in DOMAIN written /\ written[s] = fExpData[s]
    BY DEF ExpectsLast
  \* Where the file has no write of the location, the step does not write it.
  <2>4. NoWrite(g, s) => /\ s \in DOMAIN written' <=> s \in DOMAIN written
                         /\ s \in DOMAIN written => written'[s] = written[s]
    <3>1. CASE g = h /\ s = r
      <4>1. NoWrite(g, s) => t.kind # "write"
        BY <1>1, <1>3, <1>4, <3>1 DEF NoWrite, Writes
      <4>2. QED BY <1>5, <1>9, <4>1
    <3>2. CASE ~(g = h /\ s = r)
      BY <1>7, <1>9, <3>2
    <3>3. QED BY <3>1, <3>2
  <2>5. PICK w : w = fExpData[s]
    OBVIOUS
  <2>6. LastWrite(g, s, w) => LastWrite(g, s, w)' \/
          (NoWrite(g, s)' /\ s \in DOMAIN written' /\ written'[s] = w)
    BY <1>9, <2>2
  <2>7. LastWrite(g, s, w)' => LastWrite(g, s, fExpData[s])'
    BY <1>6, <2>5 DEF LastWrite, Writes
  <2>8. QED BY <2>1, <2>3, <2>4, <2>5, <2>6, <2>7
<1>17. ExpectsBoth'
  BY <1>6 DEF ExpectsBoth, In
<1>18. ReadsCome'
  <2> SUFFICES ASSUME NEW b \in fExpReadAddr
               PROVE  \E g \in Host : \E s \in fHostsRangeList[g] :
                        /\ b = In(g, s)
                        /\ \/ b \in DOMAIN hostMem'
                           \/ \E i \in DOMAIN file'[g] :
                                file'[g][i].kind = "read" /\ file'[g][i].dst = s
    BY <1>6 DEF ReadsCome, In
  <2>1. PICK g \in Host : \E s \in fHostsRangeList[g] :
               /\ b = In(g, s)
               /\ \/ b \in DOMAIN hostMem
                  \/ \E i \in DOMAIN file[g] :
                       file[g][i].kind = "read" /\ file[g][i].dst = s
    BY DEF ReadsCome
  <2>2. PICK s \in fHostsRangeList[g] :
               /\ b = In(g, s)
               /\ \/ b \in DOMAIN hostMem
                  \/ \E i \in DOMAIN file[g] :
                       file[g][i].kind = "read" /\ file[g][i].dst = s
    BY <2>1
  <2>3. CASE b \in DOMAIN hostMem
    BY <1>10, <2>2, <2>3
  <2>4. ASSUME NEW i \in DOMAIN file[g], file[g][i].kind = "read", file[g][i].dst = s
        PROVE  \/ b \in DOMAIN hostMem'
               \/ \E j \in DOMAIN file'[g] :
                    file'[g][j].kind = "read" /\ file'[g][j].dst = s
    <3>1. CASE g # h
      BY <1>4, <2>4, <3>1
    <3>2. CASE g = h /\ i = 1
      BY <1>1, <1>3, <1>10, <2>2, <2>4, <3>2
    <3>3. CASE g = h /\ i # 1
      <4>1. i \in Nat /\ i - 1 \in 1 .. n - 1 /\ (i - 1) + 1 = i
        BY <1>4, <2>4, <3>3
      <4>2. file'[h][i - 1] = file[h][i]
        BY <1>4, <4>1
      <4>3. QED BY <1>4, <2>4, <3>3, <4>1, <4>2
    <3>4. QED BY <3>1, <3>2, <3>3
  <2>5. QED BY <2>2, <2>3, <2>4
<1>19. WrittenByOwner'
  <2>1. \A g \in Host : Range(signoff'[g]) \subseteq fHostsRangeList[g]
    BY <1>4, <1>12 DEF WrittenByOwner
  <2>2. \A a \in DOMAIN written' :
          (coresDone /\ a \in CoresRange) \/ \E g \in Host : a \in Range(signoff'[g])
    BY <1>5, <1>9, <1>12 DEF WrittenByOwner
  <2>3. coresDone => \A a \in CoresRange :
          /\ a \in DOMAIN written' /\ written'[a] = OfCore(a)
          /\ Content(a)' = OfCore(a)
          /\ a.area # "chip" => a \in DOMAIN hostMem'
    BY <1>7, <1>9, <1>10, <1>11 DEF WrittenByOwner
  <2>4. QED BY <1>6, <1>8, <2>1, <2>2, <2>3 DEF WrittenByOwner
<1>20. HostsHave'
  <2>1. \A b \in DOMAIN hostMem' :
          \/ b \in CoresRange /\ b.area # "chip"
          \/ \E g \in Host : \E s \in fHostsRangeList[g] :
               b = In(g, s) \/ (b = s /\ s.area # "chip")
    BY <1>4, <1>10 DEF HostsHave
  <2>2. QED BY <1>6, <1>8, <2>1 DEF HostsHave, In
<1>21. AllBack'
  BY <1>4, <1>6 DEF AllBack
<1>22. QED BY <1>8, <1>13, <1>14, <1>15, <1>16, <1>17, <1>18, <1>19, <1>20, <1>21

LEMMA RunCoresStep ==
  ASSUME VerdictInv, RunCores PROVE VerdictInv'
<1> USE DEF VerdictInv, TestInv
<1>1. /\ phase = "run" /\ ~coresDone /\ coresDone'
      /\ UNCHANGED <<phase, at, fCoresRangeList, fHostsRangeList, file, signoff>>
      /\ UNCHANGED <<fExpData, fExpReadAddr>>
  BY DEF RunCores, generated, expected
<1>2. PICK data : data = [a \in CoresRange |-> OfCore(a)]
  OBVIOUS
<1>3. /\ DOMAIN data = CoresRange /\ \A a \in CoresRange : data[a] = OfCore(a)
      /\ Store(data) /\ written' = PutAll(written, data)
  BY <1>2 DEF RunCores
<1>4. /\ DOMAIN hostMem' = DOMAIN hostMem \cup {b \in CoresRange : b.area # "chip"}
      /\ \A a \in CoresRange : Content(a)' = OfCore(a)
  BY <1>3, Stored
<1>5. /\ DOMAIN written' = DOMAIN written \cup CoresRange
      /\ \A a \in CoresRange : written'[a] = OfCore(a)
      /\ \A a \in DOMAIN written \ CoresRange : written'[a] = written[a]
  BY <1>3 DEF PutAll
<1>6. /\ CoresRange' = CoresRange /\ DealtOnce' /\ AllPassed' /\ \A a : OfCore(a)' = OfCore(a)
  BY <1>1, DealsStay
<1>7. TypesOK'
  <2>1. IsFiniteSet(DOMAIN written')
    <3>1. IsFiniteSet(DOMAIN written) /\ IsFiniteSet(CoresRange)
      BY DEF TypesOK
    <3>2. IsFiniteSet(DOMAIN written \cup CoresRange)
      BY <3>1, FS_Union
    <3>3. QED BY <1>5, <3>2
  <2>2. QED BY <1>1, <1>6, <2>1 DEF TypesOK
<1>8. NotStarted' /\ AllBack'
  BY <1>1 DEF NotStarted, AllBack
<1>9. OwnFiles' /\ ExpectsBoth'
  BY <1>1 DEF OwnFiles, ExpectsBoth, In
<1>10. ExpectsLast'
  <2> SUFFICES ASSUME NEW g \in Host, NEW s \in fHostsRangeList[g]
               PROVE  \/ s \notin DOMAIN fExpData /\ s \notin DOMAIN written' /\ NoWrite(g, s)'
                      \/ /\ s \in DOMAIN fExpData
                         /\ \/ LastWrite(g, s, fExpData[s])'
                            \/ /\ NoWrite(g, s)'
                               /\ s \in DOMAIN written' /\ written'[s] = fExpData[s]
    BY <1>1 DEF ExpectsLast
  <2>1. s \notin CoresRange
    BY OneOwner
  <2>2. /\ NoWrite(g, s)' <=> NoWrite(g, s)
        /\ LastWrite(g, s, fExpData[s])' <=> LastWrite(g, s, fExpData[s])
    BY <1>1 DEF NoWrite, LastWrite, Writes
  <2>3. QED BY <1>5, <2>1, <2>2 DEF ExpectsLast
<1>11. ReadsCome'
  BY <1>1, <1>4 DEF ReadsCome, In
<1>12. WrittenByOwner'
  BY <1>1, <1>4, <1>5, <1>6 DEF WrittenByOwner
<1>13. HostsHave'
  BY <1>1, <1>4, <1>6 DEF HostsHave, In
<1>14. QED BY <1>6, <1>7, <1>8, <1>9, <1>10, <1>11, <1>12, <1>13

\* What the hosts read at the end.
Returns(h) ==
  Range(signoff[h]) \cup
  UNION {{a \in fCoresRangeList[c] : a.area = "chip"} : c \in {d \in Core : Loader(d) = h}}

LEMMA ReturnsAre ==
  ASSUME TypesOK, DealtOnce, WrittenByOwner, NEW h \in Host, NEW a \in Returns(h)
  PROVE  /\ a \in Location
         /\ \/ a \in Range(signoff[h]) /\ a \in fHostsRangeList[h] /\ a.area # h
            \/ a \in CoresRange /\ a.area = "chip"
<1>1. CASE a \in Range(signoff[h])
  <2>1. a \in fHostsRangeList[h]
    BY <1>1 DEF WrittenByOwner
  <2>2. QED BY <1>1, <2>1 DEF TypesOK, DealtOnce
<1>2. CASE a \notin Range(signoff[h])
  <2>1. PICK c \in Core : a \in fCoresRangeList[c] /\ a.area = "chip"
    BY <1>2 DEF Returns
  <2>2. QED BY <2>1, CoresRangeIs DEF TypesOK
<1>3. QED BY <1>1, <1>2

LEMMA LoadersReturn ==
  ASSUME TypesOK, NEW a \in CoresRange, a.area = "chip"
  PROVE  \E h \in Host : a \in Returns(h)
<1>1. PICK c \in Core : a \in fCoresRangeList[c]
  BY CoresRangeIs
<1>2. (c % Len(HostSeq)) + 1 \in DOMAIN HostSeq
  BY Lengths, LenProperties, TransactionMapAssumption DEF Core
<1>3. Loader(c) \in Host
  BY <1>2, HostAt DEF Loader
<1>4. a \in Returns(Loader(c))
  BY <1>1 DEF Returns
<1>5. QED BY <1>3, <1>4

LEMMA SignedOff ==
  ASSUME SignOff
  PROVE  /\ DOMAIN hostMem \subseteq DOMAIN hostMem'
         /\ \A h \in Host : \A a \in Returns(h) : In(h, a) \in DOMAIN hostMem'
         /\ \A b \in DOMAIN hostMem' :
              \/ \E h \in Host : \E a \in Returns(h) :
                   b = In(h, a) /\ hostMem'[b] = Content(a)
              \/ /\ b \in DOMAIN hostMem /\ hostMem'[b] = hostMem[b]
                 /\ \A h \in Host : \A a \in Returns(h) : b # In(h, a)
<1>1. PICK reads : reads = UNION {{<<In(h, a), a>> : a \in Returns(h)} : h \in Host}
  OBVIOUS
<1>2. hostMem' = [b \in DOMAIN hostMem \cup {r[1] : r \in reads} |->
                    LET from == {r \in reads : r[1] = b} IN
                    IF from = {} THEN hostMem[b] ELSE Content((CHOOSE r \in from : TRUE)[2])]
  BY <1>1 DEF SignOff, Returns
<1>3. \A p : p \in reads <=> \E h \in Host : \E a \in Returns(h) : p = <<In(h, a), a>>
  BY <1>1
<1>4. ASSUME NEW h \in Host, NEW a \in Returns(h) PROVE In(h, a) \in DOMAIN hostMem'
  <2>1. <<In(h, a), a>> \in reads
    BY <1>3
  <2>2. QED BY <1>2, <2>1
<1>5. ASSUME NEW b \in DOMAIN hostMem'
      PROVE  \/ \E h \in Host : \E a \in Returns(h) :
                  b = In(h, a) /\ hostMem'[b] = Content(a)
             \/ /\ b \in DOMAIN hostMem /\ hostMem'[b] = hostMem[b]
                /\ \A h \in Host : \A a \in Returns(h) : b # In(h, a)
  <2>1. PICK from : from = {r \in reads : r[1] = b}
    OBVIOUS
  <2>2. hostMem'[b] = IF from = {} THEN hostMem[b] ELSE Content((CHOOSE r \in from : TRUE)[2])
    BY <1>2, <1>5, <2>1
  <2>3. CASE from = {}
    <3>1. hostMem'[b] = hostMem[b] /\ b \in DOMAIN hostMem
      BY <1>2, <1>5, <2>1, <2>2, <2>3
    <3>2. ASSUME NEW h \in Host, NEW a \in Returns(h), b = In(h, a) PROVE FALSE
      <4>1. <<In(h, a), a>> \in from
        BY <1>3, <2>1, <3>2
      <4>2. QED BY <2>3, <4>1
    <3>3. QED BY <3>1, <3>2
  <2>4. CASE from # {}
    <3>1. PICK p : p = CHOOSE r \in from : TRUE
      OBVIOUS
    <3>2. p \in from
      BY <2>4, <3>1
    <3>3. hostMem'[b] = Content(p[2])
      BY <2>2, <2>4, <3>1
    <3>4. PICK h \in Host : \E a \in Returns(h) : p = <<In(h, a), a>>
      BY <1>3, <2>1, <3>2
    <3>5. QED BY <2>1, <3>2, <3>3, <3>4
  <2>5. QED BY <2>3, <2>4
<1>6. DOMAIN hostMem \subseteq DOMAIN hostMem'
  BY <1>2
<1>7. QED BY <1>4, <1>5, <1>6

LEMMA SignOffStep ==
  ASSUME VerdictInv, SignOff PROVE VerdictInv'
<1> USE DEF VerdictInv, TestInv
<1>1. /\ phase = "run" /\ phase' = "done" /\ coresDone /\ coresDone'
      /\ \A h \in Host : file[h] = <<>> /\ file'[h] = <<>>
      /\ UNCHANGED <<at, fCoresRangeList, fHostsRangeList, file, signoff>>
      /\ UNCHANGED <<fExpData, fExpReadAddr, chip, written>>
  BY DEF SignOff, generated, expected
<1>2. /\ DOMAIN hostMem \subseteq DOMAIN hostMem'
      /\ \A h \in Host : \A a \in Returns(h) : In(h, a) \in DOMAIN hostMem'
      /\ \A b \in DOMAIN hostMem' :
           \/ \E h \in Host : \E a \in Returns(h) :
                b = In(h, a) /\ hostMem'[b] = Content(a)
           \/ /\ b \in DOMAIN hostMem /\ hostMem'[b] = hostMem[b]
              /\ \A h \in Host : \A a \in Returns(h) : b # In(h, a)
  BY SignedOff
<1>3. /\ CoresRange' = CoresRange /\ DealtOnce' /\ AllPassed' /\ \A a : OfCore(a)' = OfCore(a)
  BY <1>1, DealsStay
<1>4. \A h \in Host : \A a \in Returns(h) :
        /\ a \in Location /\ In(h, a) \in Location /\ In(h, a).area = h
        /\ Strip(In(h, a)) = Strip(a)
        /\ \/ a \in Range(signoff[h]) /\ a \in fHostsRangeList[h] /\ a.area # h
           \/ a \in CoresRange /\ a.area = "chip"
  BY ReturnsAre, InIs
\* What was dealt out, by whom it is owned.
<1>5. ASSUME NEW a \in DOMAIN written
      PROVE  /\ a \in Location
             /\ \/ a \in CoresRange
                \/ \E h \in Host : a \in Returns(h) /\ a \in fHostsRangeList[h]
  <2>1. CASE a \in CoresRange
    BY <2>1, CoresRangeIs DEF TypesOK
  <2>2. CASE \E h \in Host : a \in Range(signoff[h])
    <3>1. PICK h \in Host : a \in Range(signoff[h])
      BY <2>2
    <3>2. a \in Returns(h) /\ a \in fHostsRangeList[h]
      BY <3>1 DEF Returns, WrittenByOwner
    <3>3. QED BY <3>2 DEF TypesOK
  <2>3. QED BY <2>1, <2>2 DEF WrittenByOwner
\* Two of them are not at one place.
<1>6. ASSUME NEW a, NEW h \in Host, NEW b \in Returns(h), Strip(a) = Strip(b),
             a \in CoresRange \/ \E g \in Host : a \in fHostsRangeList[g]
      PROVE  a = b
  <2>1. CASE b \in CoresRange
    BY <1>6, <2>1 DEF DealtOnce
  <2>2. CASE b \in fHostsRangeList[h]
    BY <1>6, <2>2 DEF DealtOnce
  <2>3. QED BY <1>4, <2>1, <2>2
\* A dealt location is not where another comes back.
<1>7. ASSUME NEW a \in Location, a \in CoresRange \/ \E g \in Host : a \in fHostsRangeList[g],
             NEW h \in Host, NEW b \in Returns(h), a = In(h, b)
      PROVE  FALSE
  <2>1. Strip(a) = Strip(b) /\ a.area = h
    BY <1>4, <1>7
  <2>2. a = b
    BY <1>6, <1>7, <2>1
  <2>3. CASE a \in CoresRange /\ a.area = "chip"
    BY <2>1, <2>3, NoHostIsChip
  <2>4. QED BY <1>4, <2>1, <2>2, <2>3
<1>8. ASSUME NEW a \in Location, a \in CoresRange \/ \E g \in Host : a \in fHostsRangeList[g]
      PROVE  Content(a)' = Content(a)
  <2>1. a \in DOMAIN hostMem' => a \in DOMAIN hostMem /\ hostMem'[a] = hostMem[a]
    BY <1>2, <1>7, <1>8
  <2>2. QED BY <1>1, <1>2, <2>1 DEF Content
<1>9. \A a \in CoresRange : a \in Location /\ Content(a)' = Content(a)
  BY <1>8, CoresRangeIs DEF TypesOK
<1>10. TypesOK'
  BY <1>1, <1>3 DEF TypesOK, Phases
<1>11. NotStarted' /\ OwnFiles' /\ ExpectsBoth' /\ HostsHave'
  BY <1>1 DEF NotStarted, OwnFiles, ExpectsBoth, HostsHave, In
<1>12. ExpectsLast'
  BY <1>1 DEF ExpectsLast, NoWrite, LastWrite, Writes
<1>13. ReadsCome'
  BY <1>1, <1>2 DEF ReadsCome, In
<1>14. WrittenByOwner'
  BY <1>1, <1>2, <1>3, <1>9 DEF WrittenByOwner
<1>15. ASSUME NEW b \in DOMAIN hostMem' PROVE b \in Location /\ b.area \in Host
  <2>1. CASE b \in DOMAIN hostMem
    <3>1. CASE b \in CoresRange /\ b.area # "chip"
      BY <1>9, <3>1 DEF Location
    <3>2. ASSUME NEW h \in Host, NEW r \in fHostsRangeList[h],
                 b = In(h, r) \/ (b = r /\ r.area # "chip")
          PROVE  b \in Location /\ b.area \in Host
      <4>1. r \in Location /\ In(h, r) \in Location /\ In(h, r).area = h
        BY OneOwner
      <4>2. QED BY <3>2, <4>1 DEF Location
    <3>3. QED BY <1>1, <2>1, <3>1, <3>2 DEF HostsHave
  <2>2. CASE \E h \in Host : \E a \in Returns(h) : b = In(h, a)
    BY <1>4, <2>2
  <2>3. QED BY <1>2, <2>1, <2>2
<1>16. ASSUME NEW a \in DOMAIN written
       PROVE  \E g \in Host : In(g, a) \in DOMAIN hostMem'
  <2>1. CASE a \in CoresRange /\ a.area = "chip"
    BY <1>2, <2>1, LoadersReturn
  <2>2. CASE a \in CoresRange /\ a.area # "chip"
    <3>1. a \in DOMAIN hostMem /\ a \in Location
      BY <1>1, <1>9, <2>2 DEF WrittenByOwner
    <3>2. a.area \in Host
      BY <2>2, <3>1 DEF Location
    <3>3. In(a.area, a) = a
      BY <3>1, <3>2, InIs, SamePlace
    <3>4. QED BY <1>2, <3>1, <3>2, <3>3
  <2>3. CASE \E h \in Host : a \in Returns(h)
    BY <1>2, <2>3
  <2>4. QED BY <1>5, <2>1, <2>2, <2>3
<1>17. ASSUME NEW a \in DOMAIN written, NEW b \in DOMAIN hostMem', Strip(b) = Strip(a)
       PROVE  hostMem'[b] = Content(a)'
  <2>1. /\ a \in Location /\ Content(a)' = Content(a)
        /\ a \in CoresRange \/ \E h \in Host : a \in fHostsRangeList[h]
    BY <1>5, <1>8
  <2>2. CASE \E h \in Host : \E c \in Returns(h) : b = In(h, c) /\ hostMem'[b] = Content(c)
    <3>0. PICK h \in Host : \E c \in Returns(h) : b = In(h, c) /\ hostMem'[b] = Content(c)
      BY <2>2
    <3>1. PICK c \in Returns(h) : b = In(h, c) /\ hostMem'[b] = Content(c)
      BY <3>0
    <3>2. Strip(c) = Strip(a)
      BY <1>4, <1>17, <3>1
    <3>3. a = c
      BY <1>6, <2>1, <3>1, <3>2
    <3>4. QED BY <2>1, <3>1, <3>3
  <2>3. CASE /\ b \in DOMAIN hostMem /\ hostMem'[b] = hostMem[b]
             /\ \A h \in Host : \A c \in Returns(h) : b # In(h, c)
    <3>1. CASE b = a
      <4>1. Content(a) = hostMem[a]
        BY <1>15, <2>3, <3>1, NoHostIsChip DEF Content
      <4>2. QED BY <2>1, <2>3, <3>1, <4>1
    <3>2. CASE b # a
      <4>1. b \notin CoresRange
        BY <1>17, <2>1, <3>2 DEF DealtOnce
      <4>2. PICK h \in Host : \E r \in fHostsRangeList[h] : b = In(h, r) \/ b = r
        BY <1>1, <2>3, <4>1 DEF HostsHave
      <4>3. PICK r \in fHostsRangeList[h] : b = In(h, r) \/ b = r
        BY <4>2
      <4>4. Strip(r) = Strip(a)
        BY <1>17, <4>3, OneOwner
      <4>5. a \notin CoresRange
        BY <4>4, OneOwner
      <4>6. PICK g \in Host : a \in Returns(g) /\ a \in fHostsRangeList[g]
        BY <1>5, <4>5
      <4>7. g = h /\ a = r
        BY <4>4, <4>6 DEF DealtOnce
      <4>8. QED BY <2>3, <3>2, <4>3, <4>6, <4>7
    <3>3. QED BY <3>1, <3>2
  <2>4. QED BY <1>2, <2>2, <2>3
<1>18. AllBack'
  <2>1. \A b \in DOMAIN hostMem' : b \in Location /\ b.area \in Host
    BY <1>15
  <2>2. \A a \in DOMAIN written : \E g \in Host : In(g, a) \in DOMAIN hostMem'
    BY <1>16
  <2>3. \A a \in DOMAIN written : \A b \in DOMAIN hostMem' :
          Strip(b) = Strip(a) => hostMem'[b] = Content(a)'
    BY <1>17
  <2>4. QED BY <1>1, <2>1, <2>2, <2>3 DEF AllBack, In, Strip
<1>19. QED BY <1>3, <1>10, <1>11, <1>12, <1>13, <1>14, <1>18

\* The invariant under a step of any kind.
QuietInv == GroupInv /\ (~Multicasts /\ MemoryEndsBelow => VerdictInv)

\* The options do not change.
LEMMA MemoryStays == [Next]_vars => (MemoryEndsBelow' <=> MemoryEndsBelow)
<1> SUFFICES ASSUME [Next]_vars PROVE UNCHANGED options
  BY DEF MemoryEndsBelow, HasExtended, On
<1>1. CASE Internal \/ AnyCore \/ HostSlave \/ HostMaster
  BY <1>1 DEF Internal, AnyCore, HostSlave, HostMaster, OffChip, External, SliceStep
<1>2. CASE NoExtended \/ ExtendedSpace
  BY <1>2 DEF NoExtended, ExtendedSpace, ExtendedStep
<1>3. CASE \E h \in Host : \E r \in fHostsRangeList[h] :
             BurstWrite(r) \/ BurstRead(r) \/ BurstMulticast(r)
  BY <1>3 DEF BurstWrite, BurstRead, BurstMulticast, Burst, generated
<1>4. CASE NextHost
  BY <1>4 DEF NextHost, generated
<1>5. CASE Run
  BY <1>5 DEF Run, SignOff, RunCores, RunHost, generated
<1>6. CASE UNCHANGED vars
  BY <1>6 DEF vars, generated
<1>7. QED BY <1>1, <1>2, <1>3, <1>4, <1>5, <1>6 DEF Next

LEMMA QuietStep == QuietInv /\ [Next]_vars => QuietInv'
<1> SUFFICES ASSUME QuietInv, [Next]_vars, ~Multicasts', MemoryEndsBelow'
             PROVE  VerdictInv'
  BY GroupStep DEF QuietInv
<1>1. /\ ~Multicasts /\ MemoryEndsBelow /\ VerdictInv /\ GroupInv
      /\ \A h \in Host : ~(MayJoin(h) /\ JoinMulticast(h))
  BY QuietBefore, MemoryStays DEF QuietInv
<1>2. CASE Internal \/ AnyCore \/ HostSlave \/ HostMaster
  BY <1>1, <1>2, SlicesStep
<1>3. CASE NoExtended \/ ExtendedSpace
  BY <1>1, <1>3, ExtendedStepInv
<1>4. CASE \E h \in Host : \E r \in fHostsRangeList[h] :
             BurstWrite(r) \/ BurstRead(r) \/ BurstMulticast(r)
  BY <1>1, <1>4, WriteStep, ReadStep, NoBurstMulticast
<1>5. CASE NextHost
  BY <1>1, <1>5, NextHostStep
<1>6. CASE Run
  BY <1>1, <1>6, RunHostStep, RunCoresStep, SignOffStep DEF Run
<1>7. CASE UNCHANGED vars
  <2>1. UNCHANGED <<phase, at, fCoresRangeList, fHostsRangeList, file, signoff>>
        /\ UNCHANGED <<fExpData, fExpReadAddr, chip, hostMem, written, coresDone>>
    BY <1>7 DEF vars, generated, expected, tested
  <2>2. /\ CoresRange' = CoresRange /\ \A a : OfCore(a)' = OfCore(a)
        /\ \A a : Content(a)' = Content(a) /\ \A k : Passed(k)' <=> Passed(k)
    BY <2>1 DEF CoresRange, OfCore, Content, Passed, OfSlice, Strip, Extended, Address
  <2>3. (TypesOK => TypesOK') /\ (DealtOnce => DealtOnce') /\ (NotStarted => NotStarted')
    BY <2>1, <2>2 DEF TypesOK, DealtOnce, NotStarted, Strip
  <2>4. AllPassed => AllPassed'
    BY <2>1, <2>2 DEF AllPassed, Strip
  <2>5. (OwnFiles => OwnFiles') /\ (ExpectsLast => ExpectsLast')
    BY <2>1 DEF OwnFiles, ExpectsLast, NoWrite, LastWrite, Writes, In
  <2>6. (ExpectsBoth => ExpectsBoth') /\ (ReadsCome => ReadsCome')
    BY <2>1 DEF ExpectsBoth, ReadsCome, In
  <2>7. (WrittenByOwner => WrittenByOwner') /\ (HostsHave => HostsHave')
    BY <2>1, <2>2 DEF WrittenByOwner, HostsHave, In
  <2>8. AllBack => AllBack'
    BY <2>1, <2>2 DEF AllBack, In, Strip
  <2>9. QED BY <1>1, <2>3, <2>4, <2>5, <2>6, <2>7, <2>8 DEF VerdictInv, TestInv
<1>8. QED BY <1>2, <1>3, <1>4, <1>5, <1>6, <1>7 DEF QuietInv, Next

-----------------------------------------------------------------------------
(* The comparison.                                                         *)

LEMMA LastIndex ==
  ASSUME NEW S \in SUBSET (1 .. 4), S # {} PROVE Max(S) \in S
<1>1. \E x \in S : \A y \in S : x >= y
  <2>1. CASE 4 \in S
    BY <2>1
  <2>2. CASE 4 \notin S /\ 3 \in S
    <3>1. \A y \in S : 3 >= y
      BY <2>2
    <3>2. QED BY <2>2, <3>1
  <2>3. CASE 4 \notin S /\ 3 \notin S /\ 2 \in S
    <3>1. \A y \in S : 2 >= y
      BY <2>3
    <3>2. QED BY <2>3, <3>1
  <2>4. CASE 4 \notin S /\ 3 \notin S /\ 2 \notin S
    <3>1. \A y \in S : y = 1
      BY <2>4
    <3>2. PICK x \in S : TRUE
      OBVIOUS
    <3>3. \A y \in S : x >= y
      BY <3>1, <3>2
    <3>4. QED BY <3>3
  <2>5. QED BY <2>1, <2>2, <2>3, <2>4
<1>2. QED BY <1>1 DEF Max

\* A parsed file has for an address without the host what some host has for it.
LEMMA Parsed ==
  ASSUME NEW f, \A b \in DOMAIN f : b \in Location /\ b.area \in Host
  PROVE  /\ DOMAIN Parse(f) = {Strip(b) : b \in DOMAIN f}
         /\ \A k \in DOMAIN Parse(f) :
              \E b \in DOMAIN f : Strip(b) = k /\ Parse(f)[k] = f[b]
<1> DEFINE place(k, i) == Address(ByAddress[i], k[1], k[2])
           last(k) == Max({i \in DOMAIN ByAddress : place(k, i) \in DOMAIN f})
<1>1. Parse(f) = [k \in {Strip(b) : b \in DOMAIN f} |-> f[place(k, last(k))]]
  BY DEF Parse
<1>2. ASSUME NEW k \in {Strip(b) : b \in DOMAIN f}
      PROVE  place(k, last(k)) \in DOMAIN f /\ Strip(place(k, last(k))) = k
  <2>1. PICK b \in DOMAIN f : k = Strip(b)
    BY <1>2
  <2>2. DOMAIN ByAddress = 1 .. 4 /\ \E i \in 1 .. 4 : ByAddress[i] = b.area
    <3>1. b.area \in DOMAIN HostNumber
      BY TransactionMapAssumption DEF Host, Range
    <3>2. QED BY <3>1 DEF HostNumber, ByAddress
  <2>3. PICK i \in 1 .. 4 : ByAddress[i] = b.area
    BY <2>2
  <2>4. k[1] = b.core /\ k[2] = b.off
    BY <2>1 DEF Strip
  <2>5. place(k, i) = b
    BY <2>3, <2>4 DEF Address, Location
  <2> DEFINE S == {j \in DOMAIN ByAddress : place(k, j) \in DOMAIN f}
  <2>6. S \in SUBSET (1 .. 4) /\ S # {}
    BY <2>2, <2>5
  <2>7. last(k) \in S
    BY <2>6, LastIndex
  <2>8. Strip(place(k, last(k))) = <<k[1], k[2]>>
    BY DEF Strip, Address
  <2>9. k = <<k[1], k[2]>>
    BY <2>1 DEF Strip
  <2>10. QED BY <2>7, <2>8, <2>9
<1>3. QED
  <2> HIDE DEF place, last
  <2>1. QED BY <1>1, <1>2

\* At the end the hosts' files have, for what was written, the content of it.
LEMMA BackAtEnd ==
  ASSUME VerdictInv, phase = "done", NEW a \in DOMAIN written
  PROVE  Strip(a) \in DOMAIN fDutMem /\ fDutMem[Strip(a)] = Content(a)
<1>1. \A b \in DOMAIN hostMem : b \in Location /\ b.area \in Host
  BY DEF VerdictInv, TestInv, AllBack
<1>2. PICK g \in Host : In(g, a) \in DOMAIN hostMem
  BY DEF VerdictInv, TestInv, AllBack
<1>3. a \in Location
  <2>1. CASE a \in CoresRange
    BY <2>1, CoresRangeIs DEF VerdictInv, TypesOK
  <2>2. CASE \E h \in Host : a \in fHostsRangeList[h]
    BY <2>2 DEF VerdictInv, TypesOK
  <2>3. QED BY <2>1, <2>2 DEF VerdictInv, TestInv, WrittenByOwner
<1>4. Strip(In(g, a)) = Strip(a)
  BY <1>3, InIs
<1>5. Strip(a) \in DOMAIN fDutMem
  BY <1>1, <1>2, <1>4, Parsed DEF fDutMem
<1>6. PICK b \in DOMAIN hostMem : Strip(b) = Strip(a) /\ fDutMem[Strip(a)] = hostMem[b]
  BY <1>1, <1>5, Parsed DEF fDutMem
<1>7. hostMem[b] = Content(a)
  BY <1>6 DEF VerdictInv, TestInv, AllBack
<1>8. QED BY <1>5, <1>6, <1>7

LEMMA PassesIffThere ==
  ASSUME VerdictInv, phase = "done"
  PROVE  TestPass <=> \A a \in DOMAIN written : Content(a) = written[a]
<1>1. coresDone /\ \A h \in Host : file[h] = <<>>
  BY DEF VerdictInv, TestInv, AllBack
<1>2. \A a \in CoresRange : a \in DOMAIN written /\ written[a] = OfCore(a) /\ Content(a) = OfCore(a)
  BY <1>1 DEF VerdictInv, TestInv, WrittenByOwner
\* The expected data of the hosts is what was written.
<1>3. ASSUME NEW h \in Host, NEW r \in fHostsRangeList[h]
      PROVE  /\ r \in DOMAIN fExpData <=> r \in DOMAIN written
             /\ r \in DOMAIN written => written[r] = fExpData[r]
  <2>1. DOMAIN file[h] = {}
    BY <1>1
  <2>2. \A v : ~LastWrite(h, r, v)
    BY <2>1 DEF LastWrite
  <2>3. QED BY <2>2 DEF VerdictInv, TestInv, ExpectsLast
<1>4. Agree(fCoreMem, fDutMem)
  <2> SUFFICES ASSUME NEW k \in DOMAIN fCoreMem
               PROVE  k \in DOMAIN fDutMem /\ fCoreMem[k] = fDutMem[k]
    BY DEF Agree
  <2>1. k \in {Strip(a) : a \in CoresRange}
        /\ fCoreMem[k] = OfCore(CHOOSE a \in CoresRange : Strip(a) = k)
    BY DEF fCoreMem
  <2>2. PICK a : a = CHOOSE b \in CoresRange : Strip(b) = k
    OBVIOUS
  <2>3. a \in CoresRange /\ Strip(a) = k
    BY <2>1, <2>2
  <2>4. a \in DOMAIN written /\ Content(a) = OfCore(a)
    BY <1>2, <2>3
  <2>5. QED BY <2>1, <2>2, <2>3, <2>4, BackAtEnd
<1>5. {Strip(a) : a \in fExpReadAddr} \subseteq DOMAIN fDutMem
  <2>1. fExpReadAddr \subseteq DOMAIN hostMem
    BY <1>1 DEF VerdictInv, TestInv, ReadsCome
  <2>2. \A b \in DOMAIN hostMem : b \in Location /\ b.area \in Host
    BY DEF VerdictInv, TestInv, AllBack
  <2>3. DOMAIN fDutMem = {Strip(b) : b \in DOMAIN hostMem}
    BY <2>2, Parsed DEF fDutMem
  <2>4. QED BY <2>1, <2>3
<1>6. PICK f : f = [a \in {b \in DOMAIN fExpData : b.area # "chip"} |-> fExpData[a]]
  OBVIOUS
<1>7. /\ DOMAIN f = {b \in DOMAIN fExpData : b.area # "chip"}
      /\ \A b \in DOMAIN f : f[b] = fExpData[b]
      /\ fHostMem = Parse(f)
  BY <1>6 DEF fHostMem
\* What is expected in the space of a host is of a location of some host.
<1>8. ASSUME NEW b \in DOMAIN f
      PROVE  /\ b \in Location /\ b.area \in Host
             /\ \E h \in Host : \E r \in fHostsRangeList[h] :
                  r \in DOMAIN written /\ Strip(b) = Strip(r) /\ f[b] = written[r]
  <2>1. b \in DOMAIN fExpData /\ b.area # "chip" /\ f[b] = fExpData[b]
    BY <1>7
  <2>2. PICK h \in Host : \E r \in fHostsRangeList[h] : b \in {r, In(h, r)}
    BY <2>1 DEF VerdictInv, TestInv, ExpectsBoth
  <2>3. PICK r \in fHostsRangeList[h] : b \in {r, In(h, r)}
    BY <2>2
  <2>4. r \in DOMAIN fExpData /\ fExpData[b] = fExpData[r]
    BY <2>1, <2>3 DEF VerdictInv, TestInv, ExpectsBoth
  <2>5. r \in DOMAIN written /\ fExpData[r] = written[r]
    BY <1>3, <2>4
  <2>6. /\ r \in Location /\ In(h, r) \in Location /\ Strip(In(h, r)) = Strip(r)
    BY OneOwner DEF VerdictInv
  <2>7. b \in Location /\ b.area \in Host /\ Strip(b) = Strip(r)
    BY <2>1, <2>3, <2>6 DEF Location
  <2>8. QED BY <2>1, <2>4, <2>5, <2>7
<1>9. /\ DOMAIN fHostMem = {Strip(b) : b \in DOMAIN f}
      /\ \A k \in DOMAIN fHostMem : \E b \in DOMAIN f : Strip(b) = k /\ fHostMem[k] = f[b]
  <2>1. \A b \in DOMAIN f : b \in Location /\ b.area \in Host
    BY <1>8
  <2>2. /\ DOMAIN Parse(f) = {Strip(b) : b \in DOMAIN f}
        /\ \A k \in DOMAIN Parse(f) : \E b \in DOMAIN f : Strip(b) = k /\ Parse(f)[k] = f[b]
    BY <2>1, Parsed
  <2>3. QED BY <1>7, <2>2
<1>10. ASSUME \A a \in DOMAIN written : Content(a) = written[a]
       PROVE  Agree(fHostMem, fDutMem)
  <2> SUFFICES ASSUME NEW k \in DOMAIN fHostMem
               PROVE  k \in DOMAIN fDutMem /\ fHostMem[k] = fDutMem[k]
    BY DEF Agree
  <2>1. PICK b \in DOMAIN f : Strip(b) = k /\ fHostMem[k] = f[b]
    BY <1>9
  <2>2. PICK r \in DOMAIN written : Strip(b) = Strip(r) /\ f[b] = written[r]
    BY <1>8
  <2>3. QED BY <1>10, <2>1, <2>2, BackAtEnd
<1>11. ASSUME Agree(fHostMem, fDutMem), NEW a \in DOMAIN written
       PROVE  Content(a) = written[a]
  <2>1. CASE a \in CoresRange
    BY <1>2, <2>1
  <2>2. ASSUME NEW h \in Host, a \in fHostsRangeList[h] PROVE Content(a) = written[a]
    <3>1. In(h, a) \in DOMAIN fExpData
      BY <1>3, <2>2 DEF VerdictInv, TestInv, ExpectsBoth
    <3>2. In(h, a).area = h /\ Strip(In(h, a)) = Strip(a)
      BY <2>2, OneOwner DEF VerdictInv
    <3>3. In(h, a) \in DOMAIN f
      BY <1>7, <3>1, <3>2, NoHostIsChip
    <3>4. PICK k : k = Strip(a)
      OBVIOUS
    <3>5. k \in DOMAIN fHostMem
      BY <1>9, <3>2, <3>3, <3>4
    <3>6. PICK b \in DOMAIN f : Strip(b) = k /\ fHostMem[k] = f[b]
      BY <1>9, <3>5
    <3>7. PICK g \in Host : \E r \in fHostsRangeList[g] :
            r \in DOMAIN written /\ Strip(b) = Strip(r) /\ f[b] = written[r]
      BY <1>8
    <3>8. fHostMem[k] = written[a]
      BY <2>2, <3>4, <3>6, <3>7 DEF VerdictInv, DealtOnce
    <3>9. fHostMem[k] = fDutMem[k]
      BY <1>11, <3>5 DEF Agree
    <3>10. QED BY <3>4, <3>8, <3>9, BackAtEnd
  <2>3. QED BY <2>1, <2>2 DEF VerdictInv, TestInv, WrittenByOwner
<1>12. QED BY <1>4, <1>5, <1>10, <1>11 DEF TestPass

LEMMA NoneLost ==
  ASSUME TypesOK
  PROVE  Lost = 0 <=> \A a \in DOMAIN written : Content(a) = written[a]
<1> DEFINE S == {a \in DOMAIN written : Content(a) # written[a]}
<1>1. IsFiniteSet(S)
  BY FS_Subset DEF TypesOK
<1>2. Cardinality(S) = 0 <=> S = {}
  BY <1>1, FS_EmptySet
<1>3. QED BY <1>2 DEF Lost

(***************************************************************************)
(* Without multicast the verdict of comparegen is right, for any number of *)
(* cores and hosts, any slices, options, draws and losses, where the       *)
(* cores' slices are not those of an extended space that may be dealt out  *)
(* (MemoryEndsBelow, a condition of the property): it passes the test if   *)
(* and only if each location has at the end what was last written.         *)
(***************************************************************************)
THEOREM VerdictAlwaysRight == Spec => []VerdictIsRight
<1>1. Init => QuietInv
  BY GroupInit, VerdictInit DEF QuietInv
<1>2. QuietInv => VerdictIsRight
  <2> SUFFICES ASSUME VerdictInv, phase = "done" PROVE TestPass <=> Lost = 0
    BY DEF QuietInv, VerdictIsRight
  <2>1. QED BY PassesIffThere, NoneLost DEF VerdictInv
<1>3. QED BY <1>1, <1>2, QuietStep, PTL DEF Spec
=============================================================================

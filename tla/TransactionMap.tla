--------------------------- MODULE TransactionMap ---------------------------
(***************************************************************************)
(* The transaction generator of a test with several masters (mgen) and the *)
(* verdict on its outputs (comparegen).  mgen deals the slices of the      *)
(* cores' memories, and of the hosts' extended space, out to masters,      *)
(* cores and hosts, and generates the transactions of the hosts together   *)
(* with the data that the hosts must have at the end.  comparegen compares *)
(* this, and what the simulator says of the cores, with what the chip gave *)
(* to the hosts, by addresses from which the chip or host is stripped off. *)
(*                                                                         *)
(* A slice is one location here, and a burst one transaction.              *)
(***************************************************************************)
EXTENDS Naturals, Sequences, SequencesExt, FiniteSetsExt

CONSTANTS
  NCORES,
  HostSeq,      \* the hosts, in the order of their numbers
  SliceSeq,     \* the slices of each core, in the order of their addresses
  ExtendedSlice,\* a slice of the hosts' extended space, all of which start at 0x8000
  OptionSets,   \* the combinations of options mgen is started with
  MaxExternal,  \* bound: slices drawn for another master, or dealt to hosts
  Losses,       \* how many writes the chip may lose
  None

Core == 0 .. NCORES - 1
Host == Range(HostSeq)

HostNumber == [north |-> 0, south |-> 1, west |-> 2, east |-> 3]

ASSUME TransactionMapAssumption ==
  /\ NCORES \in Nat \ {0} /\ MaxExternal \in Nat /\ Losses \in Nat
  /\ HostSeq \in Seq(DOMAIN HostNumber) /\ IsInjective(HostSeq) /\ HostSeq # <<>>
  /\ SliceSeq \in Seq(Nat \ {0}) /\ IsInjective(SliceSeq) /\ SliceSeq # <<>>
  /\ ExtendedSlice \in Nat \ {0}
  /\ None \notin Range(HostSeq)
  /\ OptionSets \subseteq
       SUBSET {"internal_only", "host_off", "chip_ext_off", "host_master_off", "mc_off"}

VARIABLES
  phase,                  \* "cores", "extended", "bursts", "run", "done"
  options,
  at,                     \* how many slices, or hosts, the loop has passed
  external,               \* how many there are of these
  fCoresRangeList, fHostsRangeList,
  fHostsMulticastSlice,   \* (19,0) of fHostsMulticastAddrList
  fCoreMultiCastHostId,
  file,                   \* what each host will drive
  signoff,                \* the reads that will follow what it multicasts
  fExpData, fExpReadAddr,
  \* the chip and the hosts, while the test runs:
  listens,                \* the multicast address of each core
  chip, hostMem,
  written,                \* what was last written to each location, lost or not
  coresDone

generated == <<options, external, fCoresRangeList, fHostsRangeList,
               fHostsMulticastSlice, fCoreMultiCastHostId>>
expected == <<file, signoff, fExpData, fExpReadAddr>>
tested == <<listens, chip, hostMem, written, coresDone>>
vars == <<phase, at, generated, expected, tested>>
-----------------------------------------------------------------------------
(* Addresses: the chip or host, the core within it, and the offset.        *)

Address(area, core, off) == [area |-> area, core |-> core, off |-> off]

\* The address of the host at which the data of a location comes back.
In(h, a) == [a EXCEPT !.area = h]

Put(f, a, v) == [b \in DOMAIN f \cup {a} |-> IF b = a THEN v ELSE f[b]]
PutAll(f, g) == [b \in DOMAIN f \cup DOMAIN g |-> IF b \in DOMAIN g THEN g[b] ELSE f[b]]

Init ==
  /\ phase = "cores" /\ at = 0 /\ external = 0
  /\ options \in OptionSets
  /\ fCoresRangeList = [c \in Core |-> {}] /\ fHostsRangeList = [h \in Host |-> {}]
  /\ fHostsMulticastSlice = [h \in Host |-> 0]
  /\ fCoreMultiCastHostId = [c \in Core |-> None]
  /\ file = [h \in Host |-> <<>>] /\ signoff = [h \in Host |-> <<>>]
  /\ fExpData = <<>> /\ fExpReadAddr = {}
  /\ listens = [c \in Core |-> None] /\ chip = <<>> /\ hostMem = <<>> /\ written = <<>>
  /\ coresDone = FALSE

On(o) == o \in options

\* With one or two cores there is no multicast, whatever the options.
McOff == On("mc_off") \/ NCORES \in {1, 2}
-----------------------------------------------------------------------------
(* GenerateMap: the slices of the cores.                                   *)

GiveToCore(c, r) ==
  /\ fCoresRangeList' = [fCoresRangeList EXCEPT ![c] = @ \cup {r}]
  /\ UNCHANGED fHostsRangeList
GiveToHost(h, r) ==
  /\ fHostsRangeList' = [fHostsRangeList EXCEPT ![h] = @ \cup {r}]
  /\ UNCHANGED fCoresRangeList

SliceCore == at \div Len(SliceSeq)
Slice == SliceSeq[(at % Len(SliceSeq)) + 1]

SliceStep ==
  /\ phase = "cores"
  /\ at' = (at + 1) % (NCORES * Len(SliceSeq))
  /\ phase' = IF at' = 0 THEN "extended" ELSE "cores"
  /\ UNCHANGED <<options, expected, tested>>

NoMulticast == UNCHANGED <<fHostsMulticastSlice, fCoreMultiCastHostId>>

Internal ==
  /\ SliceStep /\ UNCHANGED external
  /\ GiveToCore(SliceCore, Address("chip", SliceCore, Slice)) /\ NoMulticast

External ==
  /\ SliceStep /\ ~On("internal_only")
  /\ external < MaxExternal /\ external' = external + 1

\* Without the accesses of both, the slice drawn for a host is a core's.
AnyCore ==
  /\ External
  /\ \E c \in Core : GiveToCore(c, Address("chip", SliceCore, Slice))
  /\ NoMulticast

\* An assertion stops the program when the number of the host is too large.
HostsToDraw ==
  IF NCORES <= 2 THEN Host \cap {"west"} ELSE {h \in Host : HostNumber[h] < NCORES}

OffChip ==
  /\ External /\ ~On("host_off")
  /\ ~(On("chip_ext_off") /\ On("host_master_off"))

\* The slice of the core is moved to the host.
HostSlave ==
  /\ OffChip /\ ~On("chip_ext_off")
  /\ \E h \in HostsToDraw : GiveToCore(SliceCore, Address(h, SliceCore, Slice))
  /\ NoMulticast

\* Mutant: a core joins whatever the slice of the group is.
MayJoin_Any(h) == fCoreMultiCastHostId[SliceCore] = None

MayJoin(h) ==
  /\ fCoreMultiCastHostId[SliceCore] = None
  /\ fHostsMulticastSlice[h] \in {0, Slice}

JoinMulticast(h) ==
  /\ fHostsMulticastSlice' = [fHostsMulticastSlice EXCEPT ![h] = Slice]
  /\ fCoreMultiCastHostId' = [fCoreMultiCastHostId EXCEPT ![SliceCore] = h]

HostMaster ==
  /\ OffChip /\ ~On("host_master_off")
  /\ \E h \in HostsToDraw :
       /\ GiveToHost(h, Address("chip", SliceCore, Slice))
       /\ \/ NoMulticast
          \/ ~McOff /\ MayJoin(h) /\ JoinMulticast(h)
-----------------------------------------------------------------------------
(* The extended space of the hosts.                                        *)

\* Mutant: the slices start from the one that is already allocated.
Extended_FromZero(h) == Address(h, 9 * HostNumber[h], SliceSeq[1])

Extended(h) == Address(h, 9 * HostNumber[h], ExtendedSlice)

HasExtended ==
  NCORES > 2 /\ \A o \in {"internal_only", "chip_ext_off", "host_off"} : ~On(o)

ExtendedStep ==
  /\ phase = "extended"
  /\ UNCHANGED <<options, fHostsMulticastSlice, fCoreMultiCastHostId, expected, tested>>

NoExtended ==
  /\ ExtendedStep /\ at = 0 /\ phase' = "bursts"
  /\ UNCHANGED <<at, external, fCoresRangeList, fHostsRangeList>>

ExtendedSpace ==
  /\ ExtendedStep /\ HasExtended
  /\ LET h == HostSeq[at + 1] IN
       \/ (\E c \in Core : GiveToCore(c, Extended(h))) /\ UNCHANGED external
       \/ /\ ~On("host_master_off")
          /\ \E g \in Host \ {h} : GiveToHost(g, Extended(h))
          /\ external < MaxExternal /\ external' = external + 1
  /\ at' = (at + 1) % Len(HostSeq)
  /\ phase' = IF at' = 0 THEN "bursts" ELSE phase
-----------------------------------------------------------------------------
(* The bursts of the hosts, one host after the other.                      *)

\* The transactions in the files (PackTransactionToFile).
Write(dst, v) == [kind |-> "write", dst |-> dst, val |-> v]
Read(dst, src) == [kind |-> "read", dst |-> dst, src |-> src]
Multicast(off, v) == [kind |-> "multicast", off |-> off, val |-> v]
Listen(c) == [kind |-> "listen", core |-> c]

\* The cores in the group of a host, in the order of their numbers.
Slaves(h) ==
  LET group == {c \in Core : fCoreMultiCastHostId[c] = h} IN
  [i \in 1 .. Cardinality(group) |->
     CHOOSE c \in group : Cardinality({d \in group : d < c}) = i - 1]
Listeners(h) == [i \in DOMAIN Slaves(h) |-> Listen(Slaves(h)[i])]

Master == HostSeq[at + 1]
Bursts == Cardinality({i \in DOMAIN file[Master] : file[Master][i].kind # "listen"})
NewData == <<Master, Bursts + 1>>

Drive(t) ==
  file' = [file EXCEPT ![Master] = Append(IF @ = <<>> THEN Listeners(Master) ELSE @, t)]

Burst(r) ==
  /\ phase = "bursts" /\ ~On("host_master_off")
  /\ Bursts < Cardinality(fHostsRangeList[Master]) /\ r \in fHostsRangeList[Master]
  /\ UNCHANGED <<phase, at, generated, tested>>

IsMulticast(r) == fHostsMulticastSlice[Master] = r.off

\* In the slice of the group too: a burst that began with a read is regular.
BurstWrite(r) ==
  /\ Burst(r)
  /\ Drive(Write(r, NewData))
  /\ fExpData' = Put(Put(fExpData, r, NewData), In(Master, r), NewData)
  /\ UNCHANGED <<signoff, fExpReadAddr>>

BurstRead(r) ==
  /\ Burst(r)
  /\ Drive(Read(r, In(Master, r)))
  /\ fExpReadAddr' = fExpReadAddr \cup {In(Master, r)}
  /\ fExpData' = IF r \in DOMAIN fExpData THEN Put(fExpData, In(Master, r), fExpData[r])
                 ELSE fExpData
  /\ UNCHANGED signoff

(***************************************************************************)
(* The destination is the multicast address of the host by now, whose core *)
(* is 0, and the address the data comes back to takes its core from there. *)
(***************************************************************************)
McSource(off) == Address(Master, 0, off)

BurstMulticast(r) ==
  /\ Burst(r) /\ IsMulticast(r)
  /\ Drive(Multicast(r.off, NewData))
  /\ LET slaves == Slaves(Master)
         back == {McSource(r.off)} \cup {Address("chip", c, r.off) : c \in Range(slaves)}
     IN /\ signoff' = [signoff EXCEPT ![Master] = @ \o
             [i \in DOMAIN slaves |-> Read(Address("chip", slaves[i], r.off), McSource(r.off))]]
        /\ fExpData' = PutAll(fExpData, [a \in back |-> NewData])
  /\ UNCHANGED fExpReadAddr

\* The reads of what was multicast are put at the end of the file.
NextHost ==
  /\ phase = "bursts"
  /\ On("host_master_off") \/ Bursts = Cardinality(fHostsRangeList[Master])
  /\ file' = [file EXCEPT ![Master] = @ \o signoff[Master]]
  /\ signoff' = [signoff EXCEPT ![Master] = <<>>]
  /\ at' = (at + 1) % Len(HostSeq)
  /\ phase' = IF at' = 0 THEN "run" ELSE "bursts"
  /\ UNCHANGED <<generated, fExpData, fExpReadAddr, tested>>
-----------------------------------------------------------------------------
(* The test runs: the ports and the chip take the files in order, in any   *)
(* order between the hosts; HostPort has the detail.  The data of a write  *)
(* that is not a multicast comes back at the end.                          *)

Content(a) ==
  IF a.area = "chip" THEN IF a \in DOMAIN chip THEN chip[a] ELSE None
  ELSE IF a \in DOMAIN hostMem THEN hostMem[a] ELSE None

Store(data) ==
  LET to(area) == [a \in {b \in DOMAIN data : (b.area = "chip") = area} |-> data[a]] IN
  /\ chip' = PutAll(chip, to(TRUE)) /\ hostMem' = PutAll(hostMem, to(FALSE))

Lost == Cardinality({a \in DOMAIN written : Content(a) # written[a]})

\* A write arrives, or one of the chip's losses.
Arrive(data) ==
  /\ written' = PutAll(written, data)
  /\ \/ Store(data)
     \/ /\ Lost < Losses /\ UNCHANGED <<chip, hostMem>>

RunHost(h) ==
  /\ phase = "run" /\ file[h] # <<>>
  /\ LET t == Head(file[h]) IN
       \/ /\ t.kind = "listen" /\ listens' = [listens EXCEPT ![t.core] = h]
          /\ UNCHANGED <<chip, hostMem, written>>
       \/ /\ t.kind = "write" /\ Arrive([a \in {t.dst} |-> t.val]) /\ UNCHANGED listens
       \/ /\ t.kind = "multicast"
          /\ Arrive([a \in {Address("chip", c, t.off) : c \in {d \in Core : listens[d] = h}}
                       |-> t.val])
          /\ UNCHANGED listens
       \/ /\ t.kind = "read" /\ hostMem' = Put(hostMem, t.src, Content(t.dst))
          /\ UNCHANGED <<listens, chip, written>>
  /\ signoff' = IF Head(file[h]).kind = "write"
                THEN [signoff EXCEPT ![h] = Append(@, Head(file[h]).dst)] ELSE signoff
  /\ file' = [file EXCEPT ![h] = Tail(@)]
  /\ UNCHANGED <<phase, at, generated, fExpData, fExpReadAddr, coresDone>>

\* The programs, each of which writes what it owns.
OfCore(a) == <<"core", CHOOSE c \in Core : a \in fCoresRangeList[c]>>
CoresRange == UNION Range(fCoresRangeList)

RunCores ==
  /\ phase = "run" /\ ~coresDone /\ coresDone' = TRUE
  /\ Store([a \in CoresRange |-> OfCore(a)])
  /\ written' = PutAll(written, [a \in CoresRange |-> OfCore(a)])
  /\ UNCHANGED <<phase, at, generated, expected, listens>>

\* A host that loads a core reads back what it has loaded.
Loader(c) == HostSeq[(c % Len(HostSeq)) + 1]

SignOff ==
  /\ phase = "run" /\ coresDone /\ \A h \in Host : file[h] = <<>>
  /\ LET written_by(h) == Range(signoff[h])
         loaded_by(h) == UNION {{a \in fCoresRangeList[c] : a.area = "chip"} :
                                c \in {d \in Core : Loader(d) = h}}
         reads == UNION {{<<In(h, a), a>> : a \in written_by(h) \cup loaded_by(h)} : h \in Host}
     IN hostMem' = [b \in DOMAIN hostMem \cup {r[1] : r \in reads} |->
                      LET from == {r \in reads : r[1] = b} IN
                      IF from = {} THEN hostMem[b] ELSE Content((CHOOSE r \in from : TRUE)[2])]
  /\ phase' = "done"
  /\ UNCHANGED <<at, generated, expected, listens, chip, written, coresDone>>

Run == SignOff \/ RunCores \/ \E h \in Host : RunHost(h)

Next ==
  \/ Internal \/ AnyCore \/ HostSlave \/ HostMaster
  \/ NoExtended \/ ExtendedSpace
  \/ (\E h \in Host : \E r \in fHostsRangeList[h] :
        BurstWrite(r) \/ BurstRead(r) \/ BurstMulticast(r))
  \/ NextHost
  \/ Run

Spec == Init /\ [][Next]_vars
-----------------------------------------------------------------------------
(* comparegen.                                                             *)

\* Without the chip or the host.
Strip(a) == <<a.core, a.off>>

\* The files are in the order of the addresses, and the last line counts.
ByAddress == <<"north", "west", "east", "south">>

Parse(f) ==
  LET at_area(k, i) == Address(ByAddress[i], k[1], k[2])
      last(k) == Max({i \in DOMAIN ByAddress : at_area(k, i) \in DOMAIN f})
  IN [k \in {Strip(a) : a \in DOMAIN f} |-> f[at_area(k, last(k))]]

fDutMem == Parse(hostMem)
fHostMem == Parse([a \in {b \in DOMAIN fExpData : b.area # "chip"} |-> fExpData[a]])
fCoreMem == [k \in {Strip(a) : a \in CoresRange} |->
               OfCore(CHOOSE a \in CoresRange : Strip(a) = k)]

Agree(f, g) == \A k \in DOMAIN f : k \in DOMAIN g /\ f[k] = g[k]

\* The last comparison, the number of the cores' writes to the hosts, is left
\* out: no write of a core is lost here.
TestPass ==
  /\ Agree(fCoreMem, fDutMem)
  /\ Agree(fHostMem, fDutMem)
  /\ {Strip(a) : a \in fExpReadAddr} \subseteq DOMAIN fDutMem
-----------------------------------------------------------------------------
(* Properties.                                                             *)

Multicasts == \E a \in Range(fHostsMulticastSlice) : a # 0

\* The cores' memory ends where the extended space starts, or earlier, unless
\* that space is not dealt out.  Nothing in mgen sees to it.
MemoryEndsBelow == HasExtended => ExtendedSlice \notin Range(SliceSeq)

(***************************************************************************)
(* Without multicast, and unless -core_mem_end_address makes the slices of *)
(* the cores meet those of the extended space, the verdict is right        *)
(* whatever the order in which the masters run: a test passes if and only  *)
(* if nothing that was written last to a location is missing there at the  *)
(* end.                                                                    *)
(***************************************************************************)
VerdictIsRight ==
  phase = "done" /\ ~Multicasts /\ MemoryEndsBelow => (TestPass <=> Lost = 0)

(***************************************************************************)
(* What a host multicasts lands only in slices dealt out to that host.     *)
(***************************************************************************)
MulticastStaysHome ==
  \A c \in Core : LET h == fCoreMultiCastHostId[c] IN
    h # None => Address("chip", c, fHostsMulticastSlice[h]) \in fHostsRangeList[h]

(***************************************************************************)
(* "same as core" (mgen/main.cpp): the data of a multicast comes back to   *)
(* the host's address of the core it was read from, so that a chip that    *)
(* does all that was asked passes the test with multicast too.             *)
(***************************************************************************)
GoodChipPasses == phase = "done" /\ Lost = 0 => TestPass
=============================================================================

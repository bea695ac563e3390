--------------------------- MODULE ProgramProofs ----------------------------
(***************************************************************************)
(* The memory of a generated test, for every range file, command line and  *)
(* draw: proofs about Program.                                             *)
(***************************************************************************)
EXTENDS Program, DmaEngineProofs

-----------------------------------------------------------------------------
(***************************************************************************)
(* The invariant.                                                          *)
(***************************************************************************)
\* Before the DMA engines share what is left of the memory.
Early == phase \notin {"dma", "print", "done"}

Idle ==
  /\ engine = 0 /\ fDescrList = [e \in 0..1 |-> <<>>]
  /\ fetchList = <<>> /\ lsList = <<>>

Memory ==
  /\ Disjoint(fRangeListForFetch, fRangeListForLS, check_set)
  /\ Unclaimed /\ EngineValued
  /\ AssertionsHold /\ failed # "dma_range"

\* The data sections are claims, too short for a routine, or of the engines.
Filled ==
  \A a \in fLSFillRangeList :
    \/ a \in check_set /\ a[2] = a[1] + LS_MIN_BUFFER_SIZE
    \/ \E e \in 0..1 : /\ e < engine
                      /\ \E n \in Positions(e) : a \in Own(fDescrList[e][n])

Finite ==
  /\ IsFiniteSet(fRangeListForFetch) /\ IsFiniteSet(fRangeListForLS)
  /\ IsFiniteSet(fLSFillRangeList) /\ IsFiniteSet(fLoadNotSafeRangeList)

Engines ==
  /\ EngineInv
  /\ Early \/ ~g.dma => Idle
  /\ phase = "dma" => g.dma /\ engine \in 0..1
  /\ g.dma => fLoadNotSafeRangeList = {}

\* The claims for code, and the address a routine gets in one.
Routines == {m \in check_set : m = Routine(m[1])}
At(claims, a) == \E m \in claims : a = Even(m[1])
Claimed(a) == At(Routines, a)

LowCode ==
  \A r \in fRangeListForFetch \cup Routines : PROGRAM_START <= r[1]

\* A routine of an interrupt is being filled, or is about to be.
ISRActive == phase = "isr_claimed" \/ (phase = "fill" /\ cur.isr)

Sub == [addr : Nat, size : {sSize, ISRSize, 0}, limit : Nat, hw : BOOLEAN,
        len : Nat, i : Nat, count : Nat, branches : Nat, used : Nat,
        done : BOOLEAN, isr : BOOLEAN]

Types ==
  /\ g \in Options /\ cur \in Sub
  /\ subRoutinePendingList \in Seq(Nat)
  /\ subRoutineDoneList \in Seq([addr : Nat, used : 1..MAX_SUB_ROUTINE_SIZE])
  /\ phase \in {"start", "idle", "fill", "isr", "isr_claimed", "dma", "print", "done"}

\* No routine is on a list twice, and each that is has memory of its own.
Distinct ==
  LET P == subRoutinePendingList  D == subRoutineDoneList IN
  /\ \A i \in 1..Len(P) : P[i] # NoTarget => Claimed(P[i])
  /\ \A i, j \in 1..Len(P) : P[i] = P[j] /\ P[i] # NoTarget => i = j
  /\ \A i \in 1..Len(D) : D[i].addr # NoTarget => Claimed(D[i].addr)
  /\ \A i, j \in 1..Len(D) : D[i].addr = D[j].addr /\ D[i].addr # NoTarget => i = j
  /\ \A i \in 1..Len(P), j \in 1..Len(D) : P[i] = D[j].addr => P[i] = NoTarget

Worklist ==
  /\ phase = "fill" /\ ~cur.isr =>
       subRoutinePendingList # <<>> /\ cur.addr = Head(subRoutinePendingList)
  /\ phase \notin {"idle", "fill"} \/ ISRActive => subRoutinePendingList = <<>>
  /\ ISRActive => /\ Claimed(cur.addr) /\ "branch" \in keepOut
                  /\ \A j \in 1..Len(subRoutineDoneList) :
                       subRoutineDoneList[j].addr # cur.addr

\* Where every branch goes is on the worklist, is being filled or is done, but
\* for a first branch that has taken the last of the memory.
Listed(a) ==
  \/ \E i \in 1..Len(subRoutinePendingList) : subRoutinePendingList[i] = a
  \/ \E i \in 1..Len(subRoutineDoneList) : subRoutineDoneList[i].addr = a
  \/ ISRActive /\ cur.addr = a

Lost ==
  /\ subRoutinePendingList = <<>> /\ subRoutineDoneList = <<>> /\ ~ISRActive
  /\ phase \notin {"start", "fill"} /\ fRangeListForFetch = {}
  /\ \A s, t \in jumps : s = t /\ t # NoTarget

Covered ==
  /\ phase = "start" => jumps = {} /\ subRoutineDoneList = <<>>
  /\ (\A t \in jumps : Listed(t)) \/ Lost

Leaks ==
  leaked => \/ phase = "start"
            \/ /\ phase = "fill" /\ "branch" \notin keepOut
               /\ ~g.fp /\ cur.i < cur.limit

\* The bytes a body has so far: plain instructions and branches, whole macros,
\* or what a hardware loop counts.
Room(c, fp) ==
  /\ c.size \in {sSize, ISRSize}
  /\ ~c.hw => c.limit = c.size - 8 /\ c.used = c.i /\ ~c.done
  /\ ~c.hw /\ ~fp => c.i % 4 = 0 /\ c.i <= c.limit + 8
  /\ fp => c.i % MegaBytes = 0 /\ c.i < c.limit + MegaBytes
  /\ c.hw => /\ c.len \in 8..16 /\ c.limit <= 200
             /\ c.used <= HWBegin + c.i + (IF c.count >= c.len THEN 7 ELSE 0)
             /\ c.count <= c.len + 1 /\ (~c.done => c.count <= c.len)
             /\ ~fp => c.i = 4 * c.count

Body ==
  phase = "fill" /\ failed = "no" =>
    Room(cur, g.fp) /\ (cur.hw => "branch" \in keepOut)

Printed ==
  phase = "done" => sections = UnifyLSList(fLSFillRangeList \cup fLoadNotSafeRangeList)

ProgramInv ==
  /\ Memory /\ Filled /\ Finite /\ Engines /\ LowCode /\ Types
  /\ Distinct /\ Worklist /\ Covered /\ Leaks /\ Body /\ Printed
-----------------------------------------------------------------------------
(***************************************************************************)
(* Claims of the program, while the engines are idle.                      *)
(***************************************************************************)
LEMMA IdleEngine ==
  Idle /\ check_set \subseteq Ranges =>
    /\ EngineInv /\ (EngineValued <=> Valued)
    /\ \A e \in 0..1 : Positions(e) = {}
<1> SUFFICES ASSUME Idle, check_set \subseteq Ranges
             PROVE  /\ EngineInv /\ (EngineValued <=> Valued)
                    /\ \A e \in 0..1 : Positions(e) = {}
  OBVIOUS
<1>1. /\ <<>> \in Seq(Slot) /\ <<>> \in Seq(TCB) /\ Len(<<>>) = 0
      /\ ToSet(<<>>) = {}
  BY EmptySeq DEF ToSet
<1>2. \A e \in 0..1 : fDescrList[e] = <<>> /\ Positions(e) = {}
  BY <1>1 DEF Idle, Positions
<1>3. fDescrList \in [0..1 -> Seq(TCB)]
  BY <1>1 DEF Idle
<1>4. Pool(fetchList, lsList) /\ PoolUnclaimed
  BY <1>1 DEF Idle, Pool, Spread, PoolUnclaimed
<1>5. EngineTypes
  BY <1>2, <1>3, <1>4 DEF EngineTypes, Idle
<1>6. AreasFree /\ AreasApart /\ RoutinesApart /\ Chained /\ StaysInside
  BY <1>2 DEF AreasFree, AreasApart, RoutinesApart, Chained, StaysInside
<1>7. EngineValued <=> Valued
  BY <1>2 DEF EngineValued, Valued
<1> QED BY <1>2, <1>4, <1>5, <1>6, <1>7 DEF EngineInv

\* What claims of the program preserve.
Allocated == Memory /\ Filled /\ Finite /\ Idle /\ LowCode

\* It is the invariant of the allocator, with the lists of a program.
LEMMA AllocatedMemory ==
  Allocated <=> IInv /\ failed # "dma_range" /\ Filled /\ Finite /\ Idle /\ LowCode
<1>1. Disjoint(fRangeListForFetch, fRangeListForLS, check_set) => check_set \subseteq Ranges
  BY DEF Disjoint
<1> QED BY <1>1, IdleEngine DEF Allocated, Memory, IInv

\* What stays free of a range starts no lower.
LEMMA StillFinite ==
  ASSUME NEW F, IsFiniteSet(F), F \subseteq Ranges, NEW r \in F, NEW c \in Ranges, Fits(r, c)
  PROVE  /\ IsFiniteSet(Remaining(F, r, c))
         /\ \A low \in Nat : (\A x \in F : low <= x[1]) =>
              \A x \in Remaining(F, r, c) : low <= x[1]
<1>1. IsFiniteSet(Leftover(r, c))
  <2> DEFINE a == <<r[1], c[1] - 1>>
             b == <<c[2] + 1, r[2]>>
  <2>1. Leftover(r, c) \subseteq {a} \cup {b}
    BY DEF Leftover
  <2>2. IsFiniteSet({a} \cup {b})
    BY FS_Singleton, FS_Union
  <2> QED BY <2>1, <2>2, FS_Subset
<1>2. IsFiniteSet(F \ {r})
  BY FS_Subset
<1>3. IsFiniteSet(Remaining(F, r, c))
  BY <1>1, <1>2, FS_Union DEF Remaining
<1>4. \A x \in Leftover(r, c) : x \in Ranges /\ r[1] <= x[1]
  BY LeftoverInside DEF Inside
<1>5. ASSUME NEW low \in Nat, \A x \in F : low <= x[1], NEW x \in Remaining(F, r, c)
      PROVE  low <= x[1]
  <2>1. CASE x \in F
    BY <1>5, <2>1
  <2>2. CASE x \in Leftover(r, c)
    <3>1. r[1] <= x[1] /\ r[1] \in Nat /\ x[1] \in Nat /\ low <= r[1]
      BY <1>4, <1>5, <2>2 DEF Ranges, MemRange
    <3> QED BY <3>1
  <2> QED BY <1>5, <2>1, <2>2 DEF Remaining
<1> QED BY <1>3, <1>5

\* The claim for a routine.
LEMMA CodeClaim ==
  ASSUME Allocated, UNCHANGED dmaVars, NEW f \in Nat, ClaimFetch(Routine(f))
  PROVE  /\ Allocated' /\ failed' = failed
         /\ Routines' = Routines \cup {Routine(f)} /\ check_set' = check_set \cup {Routine(f)}
         /\ \A c \in check_set : ~Meet(c, Routine(f))
         /\ PROGRAM_START <= f
         /\ UNCHANGED <<fLSFillRangeList, fLoadNotSafeRangeList>>
<1> DEFINE claim == Routine(f)
<1>1. IInv /\ failed # "dma_range" /\ Filled /\ Finite /\ Idle /\ LowCode
  BY AllocatedMemory
<1>2. claim \in Ranges /\ claim = Routine(claim[1]) /\ claim[1] = f
  BY SizeAssumption DEF Ranges, MemRange, Routine
<1>3. IInv'
  BY <1>1, FetchInv DEF Routine
<1>4. PICK r \in fRangeListForFetch :
        /\ Fits(r, claim)
        /\ fRangeListForFetch' = Remaining(fRangeListForFetch, r, claim)
        /\ check_set' = check_set \cup {claim}
        /\ failed' = Failing(claim, {})
        /\ UNCHANGED <<fRangeListForLS, fLSFillRangeList, fLoadNotSafeRangeList, fAccessMem>>
  BY DEF ClaimFetch
<1> HIDE DEF claim
<1>5. /\ fRangeListForFetch \subseteq Ranges
      /\ \A c \in check_set : ~Meet(c, claim)
  <2>1. Disjoint(fRangeListForFetch, fRangeListForLS, check_set)
    BY <1>1 DEF IInv
  <2>2. \A c \in check_set : ~Meet(c, claim)
    BY <1>2, <1>4, <2>1, Claiming
  <2> QED BY <2>1, <2>2 DEF Disjoint
<1>6. failed' = failed
  <2>1. Failing(claim, {}) = failed
    BY <1>1, <1>2, <1>5, NoFailure
  <2> QED BY <1>4, <2>1
<1>7. Finite'
  <2>1. IsFiniteSet(Remaining(fRangeListForFetch, r, claim))
    BY <1>1, <1>2, <1>4, <1>5, StillFinite DEF Finite
  <2> QED BY <1>1, <1>4, <2>1 DEF Finite
<1>8. Routines' = Routines \cup {claim}
  BY <1>2, <1>4 DEF Routines
<1>9. PROGRAM_START <= f
  <2>1. r \in Ranges /\ r[1] \in Nat /\ PROGRAM_START <= r[1] /\ r[1] <= claim[1]
    BY <1>1, <1>4, <1>5 DEF LowCode, Fits, Ranges, MemRange
  <2> QED BY <1>2, <2>1, ProgramAssumption
<1>10. LowCode'
  <2>1. \A x \in fRangeListForFetch' : PROGRAM_START <= x[1]
    <3>1. \A x \in fRangeListForFetch : PROGRAM_START <= x[1]
      BY <1>1 DEF LowCode
    <3>2. PROGRAM_START \in Nat
      BY ProgramAssumption
    <3> QED BY <1>1, <1>2, <1>4, <1>5, <3>1, <3>2, StillFinite DEF Finite
  <2>2. \A m \in Routines' : PROGRAM_START <= m[1]
    BY <1>1, <1>2, <1>8, <1>9 DEF LowCode
  <2> QED BY <2>1, <2>2 DEF LowCode
<1>11. Filled' /\ Idle'
  BY <1>1, <1>4 DEF Filled, Idle, dmaVars, Positions
<1>12. Allocated'
  <2>1. (IInv /\ failed # "dma_range" /\ Filled /\ Finite /\ Idle /\ LowCode)'
    BY <1>1, <1>3, <1>6, <1>7, <1>10, <1>11
  <2> QED BY <2>1, AllocatedMemory, PTL
<1> QED BY <1>4, <1>5, <1>6, <1>8, <1>9, <1>12 DEF claim

\* The claim for a load or a store.
LEMMA DataClaim ==
  ASSUME Allocated, UNCHANGED dmaVars, NEW a \in Nat, NEW isLoad \in BOOLEAN,
         ClaimLS(a, isLoad)
  PROVE  /\ Allocated' /\ failed' = failed /\ Routines' = Routines
         /\ fLoadNotSafeRangeList' = fLoadNotSafeRangeList
<1> DEFINE claim == Buffer(a)
           bytes == IF isLoad THEN {<<a, a + 7>>} ELSE {}
<1>1. IInv /\ failed # "dma_range" /\ Filled /\ Finite /\ Idle /\ LowCode
  BY AllocatedMemory
<1>2. /\ claim \in Ranges /\ bytes \in SUBSET Ranges /\ \A d \in bytes : Inside(d, claim)
      /\ claim # Routine(claim[1]) /\ claim[2] = claim[1] + LS_MIN_BUFFER_SIZE
  <2>1. /\ claim \in Ranges /\ bytes \in SUBSET Ranges /\ \A d \in bytes : Inside(d, claim)
    BY BufferRanges
  <2>2. claim[1] = a /\ claim[2] = a + LS_MIN_BUFFER_SIZE
    BY DEF Buffer
  <2>3. Routine(claim[1])[2] = a + MAX_SUB_ROUTINE_SIZE
    BY <2>2 DEF Routine
  <2>4. claim[2] # Routine(claim[1])[2]
    BY <2>2, <2>3, ProgramAssumption, SizeAssumption
  <2> QED BY <2>1, <2>2, <2>4
<1>3. IInv'
  BY <1>1, LSInv
<1>4. PICK r \in fRangeListForLS :
        /\ Fits(r, claim)
        /\ fRangeListForLS' = Remaining(fRangeListForLS, r, claim)
        /\ check_set' = check_set \cup {claim}
        /\ fLSFillRangeList' = fLSFillRangeList \cup {claim}
        /\ failed' = Failing(claim, bytes)
        /\ UNCHANGED <<fRangeListForFetch, fLoadNotSafeRangeList>>
  BY DEF ClaimLS
<1> HIDE DEF claim, bytes
<1>5. /\ fRangeListForLS \subseteq Ranges
      /\ \A c \in check_set : ~Meet(c, claim)
  <2>1. Disjoint(fRangeListForLS, fRangeListForFetch, check_set)
    BY <1>1, DisjointSymmetric DEF IInv
  <2>2. \A c \in check_set : ~Meet(c, claim)
    BY <1>2, <1>4, <2>1, Claiming
  <2> QED BY <2>1, <2>2 DEF Disjoint
<1>6. failed' = failed
  <2>1. Failing(claim, bytes) = failed
    BY <1>1, <1>2, <1>5, NoFailure
  <2> QED BY <1>4, <2>1
<1>7. Finite'
  <2>1. IsFiniteSet(Remaining(fRangeListForLS, r, claim))
    BY <1>1, <1>2, <1>4, <1>5, StillFinite DEF Finite
  <2>2. IsFiniteSet(fLSFillRangeList \cup {claim})
    BY <1>1, FS_AddElement DEF Finite
  <2> QED BY <1>1, <1>4, <2>1, <2>2 DEF Finite
<1>8. Routines' = Routines
  BY <1>2, <1>4 DEF Routines
<1>9. LowCode'
  BY <1>1, <1>4, <1>8 DEF LowCode
<1>10. Idle'
  BY <1>1 DEF Idle, dmaVars
<1>11. Filled'
  <2> SUFFICES ASSUME NEW c \in fLSFillRangeList'
               PROVE  /\ c \in check_set' /\ c[2] = c[1] + LS_MIN_BUFFER_SIZE
    BY DEF Filled
  <2>1. \A e \in 0..1 : Positions(e) = {}
    BY <1>1, IdleEngine DEF IInv, Disjoint
  <2>2. CASE c \in fLSFillRangeList
    BY <1>1, <1>4, <2>1, <2>2 DEF Filled
  <2>3. CASE c = claim
    BY <1>2, <1>4, <2>3
  <2> QED BY <1>4, <2>2, <2>3
<1>12. Allocated'
  <2>1. (IInv /\ failed # "dma_range" /\ Filled /\ Finite /\ Idle /\ LowCode)'
    BY <1>1, <1>3, <1>6, <1>7, <1>9, <1>10, <1>11
  <2> QED BY <2>1, AllocatedMemory, PTL
<1> QED BY <1>4, <1>6, <1>8, <1>12

\* A load that claims nothing.
LEMMA SharedLoad ==
  ASSUME Allocated, UNCHANGED dmaVars, NEW a \in Nat, AddLoadMultiUseRange(a)
  PROVE  Allocated' /\ failed' = failed /\ Routines' = Routines
<1>1. IInv /\ failed # "dma_range" /\ Filled /\ Finite /\ Idle /\ LowCode
  BY AllocatedMemory
<1>2. /\ fLoadNotSafeRangeList' = fLoadNotSafeRangeList \cup {Buffer(a)}
      /\ UNCHANGED <<fRangeListForFetch, fRangeListForLS, check_set,
                     fLSFillRangeList, fAccessMem, failed>>
  BY DEF AddLoadMultiUseRange
<1>3. IInv'
  BY <1>1, ShareInv
<1>4. Finite'
  <2>1. IsFiniteSet(fLoadNotSafeRangeList \cup {Buffer(a)})
    BY <1>1, FS_AddElement DEF Finite
  <2> QED BY <1>1, <1>2, <2>1 DEF Finite
<1>5. Routines' = Routines
  BY <1>2 DEF Routines
<1>6. Filled' /\ Idle' /\ LowCode'
  BY <1>1, <1>2, <1>5 DEF Filled, Idle, LowCode, dmaVars, Positions
<1>7. Allocated'
  <2>1. (IInv /\ failed # "dma_range" /\ Filled /\ Finite /\ Idle /\ LowCode)'
    BY <1>1, <1>2, <1>3, <1>4, <1>6
  <2> QED BY <2>1, AllocatedMemory, PTL
<1> QED BY <1>2, <1>5, <1>7

\* The assertions about instructions.
Stopped == {"loop_body", "loop_count", "no_store"}

\* A failed assertion about an instruction is none of the allocator's.
LEMMA StoppedOtherwise ==
  ASSUME NEW f \in Stopped PROVE f \notin {"no", "claimed_twice", "set_twice", "dma_range"}
BY Zenon DEF Stopped

\* Other steps, one that fails included.
LEMMA NoClaim ==
  ASSUME Allocated, UNCHANGED dmaVars,
         UNCHANGED <<fRangeListForFetch, fRangeListForLS, check_set, fLSFillRangeList,
                     fLoadNotSafeRangeList, fAccessMem>>,
         failed' = failed \/ failed' \in Stopped
  PROVE  Allocated' /\ Routines' = Routines
<1>1. IInv /\ failed # "dma_range" /\ Filled /\ Finite /\ Idle /\ LowCode
  BY AllocatedMemory
<1>2. Routines' = Routines
  BY DEF Routines
<1>3. IInv' /\ failed' # "dma_range"
  <2>1. AssertionsHold' /\ failed' # "dma_range"
    BY <1>1, StoppedOtherwise, Zenon DEF IInv, AssertionsHold
  <2> QED BY <1>1, <2>1 DEF IInv, Unclaimed, Valued
<1>4. Filled' /\ Idle' /\ LowCode' /\ Finite'
  BY <1>1, <1>2 DEF Filled, Idle, LowCode, Finite, dmaVars, Positions
<1>5. Allocated'
  <2>1. (IInv /\ failed # "dma_range" /\ Filled /\ Finite /\ Idle /\ LowCode)'
    BY <1>1, <1>3, <1>4
  <2> QED BY <2>1, AllocatedMemory, PTL
<1> QED BY <1>2, <1>5
-----------------------------------------------------------------------------
(***************************************************************************)
(* The length of a body.                                                   *)
(***************************************************************************)
LEMMA AlignUp ==
  ASSUME NEW n \in Nat PROVE Align8(n) \in Nat /\ n <= Align8(n) /\ Align8(n) <= n + 7
BY DEF Align8

\* What an instruction changes of the subroutine that is filled.
LEMMA PutFields ==
  ASSUME cur \in Sub, NEW n \in Nat
  PROVE  /\ Put(n) \in Sub
         /\ Put(n).i = cur.i + n
         /\ Put(n).count = IF cur.hw THEN cur.count + 1 ELSE 0
         /\ Put(n).used = (IF cur.hw /\ cur.count + 1 = cur.len
                           THEN Align8(cur.used) ELSE cur.used) + n
         /\ Put(n).done = (cur.hw /\ cur.count = cur.len)
         /\ Put(n).addr = cur.addr /\ Put(n).size = cur.size /\ Put(n).limit = cur.limit
         /\ Put(n).hw = cur.hw /\ Put(n).len = cur.len /\ Put(n).isr = cur.isr
         /\ Put(n).branches = cur.branches
<1> DEFINE used == (IF cur.hw /\ cur.count + 1 = cur.len
                    THEN Align8(cur.used) ELSE cur.used) + n
           count == IF cur.hw THEN cur.count + 1 ELSE 0
           done == cur.hw /\ cur.count = cur.len
<1>1. cur.used \in Nat /\ cur.count \in Nat /\ cur.i \in Nat
  BY DEF Sub
<1>2. used \in Nat /\ count \in Nat /\ cur.i + n \in Nat /\ done \in BOOLEAN
  BY SMTT(30), <1>1, AlignUp
<1>3. Put(n) = [cur EXCEPT !.i = cur.i + n, !.count = count, !.used = used, !.done = done]
  BY DEF Put, Advance
<1> HIDE DEF used, count, done
<1>4. Put(n) \in Sub
  BY ZenonT(60), <1>2, <1>3 DEF Sub
<1>5. /\ Put(n).i = cur.i + n /\ Put(n).count = count /\ Put(n).used = used
      /\ Put(n).done = done
      /\ Put(n).addr = cur.addr /\ Put(n).size = cur.size /\ Put(n).limit = cur.limit
      /\ Put(n).hw = cur.hw /\ Put(n).len = cur.len /\ Put(n).isr = cur.isr
      /\ Put(n).branches = cur.branches
  BY <1>3 DEF Sub
<1> QED BY <1>4, <1>5 DEF used, count, done

\* Where a body gets that goes on from a multiple of four.
LEMMA OnwardSteps ==
  ASSUME g \in Options, cur \in Sub, cur.limit % 4 = 0, cur.i % 4 = 0, cur.i < cur.limit,
         NEW size \in {4, 12}, NEW n \in Onward(size)
  PROVE  n \in Nat /\ (cur.i + n) % 4 = 0 /\ cur.i + n <= cur.limit + 8
<1>1. cur.i \in Nat /\ cur.limit \in Nat
  BY DEF Sub
<1>2. CASE n = size
  BY <1>1, <1>2
<1>3. CASE \E p \in g.pauses \cup {cur.limit} : cur.i + size <= p /\ p <= cur.limit /\ n = p - cur.i
  <2>1. PICK p \in g.pauses \cup {cur.limit} :
          cur.i + size <= p /\ p <= cur.limit /\ n = p - cur.i
    BY <1>3
  <2>2. p \in Nat /\ p % 4 = 0
    <3>1. CASE p \in g.pauses
      BY <3>1, ProgramAssumption
    <3>2. CASE p = cur.limit
      BY <1>1, <3>2
    <3> QED BY <2>1, <3>1, <3>2
  <2> QED BY <1>1, <2>1, <2>2
<1> QED BY <1>2, <1>3 DEF Onward

\* An instruction in a body that has room leaves a body that is no longer than
\* RoomLeft allows.
LEMMA PutRoom ==
  ASSUME g \in Options, cur \in Sub, Room(cur, g.fp), cur.i < cur.limit, ~cur.done,
         NEW size \in {4, 12}, NEW n,
         \/ g.fp /\ n = MegaBytes
         \/ ~g.fp /\ n \in Onward(size) /\ (cur.hw => size = 4)
  PROVE  n \in Nat /\ Room(Put(n), g.fp)
<1>1. /\ cur.i \in Nat /\ cur.limit \in Nat /\ cur.used \in Nat /\ cur.count \in Nat
      /\ cur.len \in Nat /\ cur.hw \in BOOLEAN /\ cur.done \in BOOLEAN /\ cur.size \in Nat
  BY ProgramAssumption DEF Sub, sSize, ISRSize, JumpBytes, LoopBytes
<1>2. cur.size \in {232, 64} /\ cur.size \in {sSize, ISRSize}
  BY ProgramAssumption DEF Room, sSize, ISRSize, JumpBytes, LoopBytes
<1>3. Align8(cur.used) \in Nat /\ Align8(cur.used) <= cur.used + 7
  BY <1>1, AlignUp
<1>4. CASE cur.hw
  <2>1. n \in Nat /\ (IF g.fp THEN n = 34 ELSE n = 4)
    BY <1>4 DEF MegaBytes, Onward
  <2>2. /\ cur.len \in 8..16 /\ cur.limit <= 200 /\ cur.count <= cur.len
        /\ cur.used <= 32 + cur.i + (IF cur.count >= cur.len THEN 7 ELSE 0)
    BY <1>4 DEF Room, HWBegin
  <2> DEFINE used == IF cur.count + 1 = cur.len THEN Align8(cur.used) ELSE cur.used
  <2>3. /\ used \in Nat
        /\ used <= 32 + cur.i + (IF cur.count + 1 >= cur.len THEN 7 ELSE 0)
    <3>1. CASE cur.count + 1 = cur.len
      BY <1>1, <1>3, <2>2, <3>1
    <3>2. CASE cur.count + 1 # cur.len
      BY <1>1, <2>2, <3>2
    <3> QED BY <3>1, <3>2
  <2> HIDE DEF used
  <2>4. PICK p : p = Put(n)
    OBVIOUS
  <2>5. /\ p.i = cur.i + n /\ p.count = cur.count + 1 /\ p.used = used + n
        /\ p.done = (cur.count = cur.len) /\ p.hw
        /\ p.size = cur.size /\ p.limit = cur.limit /\ p.len = cur.len
    <3>1. /\ p.i = cur.i + n /\ p.size = cur.size /\ p.limit = cur.limit /\ p.len = cur.len
          /\ p.hw
      BY <1>4, <2>1, <2>4, PutFields
    <3>2. p.count = cur.count + 1
      BY <1>4, <2>1, <2>4, PutFields
    <3>3. p.used = used + n
      BY <1>4, <2>1, <2>4, PutFields DEF used
    <3>4. p.done = (cur.count = cur.len)
      <4>1. Put(n).done = (cur.hw /\ cur.count = cur.len)
        BY <2>1, PutFields
      <4> QED BY <1>4, <2>4, <4>1, Zenon
    <3> QED BY <3>1, <3>2, <3>3, <3>4, Zenon
  <2>6. p.used <= 32 + p.i + (IF p.count >= p.len THEN 7 ELSE 0)
    BY <1>1, <2>1, <2>3, <2>5
  <2>7. p.count <= p.len + 1 /\ (~p.done => p.count <= p.len)
    <3>1. cur.count # cur.len => cur.count + 1 <= cur.len
      BY <1>1, <2>2
    <3>2. cur.count + 1 <= cur.len + 1
      BY <1>1, <2>2
    <3> QED BY <2>5, <3>1, <3>2, Zenon
  <2>8. g.fp => p.i % 34 = 0 /\ p.i < p.limit + 34
    <3>1. g.fp => cur.i % 34 = 0
      BY DEF Room, MegaBytes
    <3> QED BY <1>1, <2>1, <2>5, <3>1
  <2>9. ~g.fp => p.i = 4 * p.count
    <3>1. ~g.fp => cur.i = 4 * cur.count
      BY <1>4 DEF Room
    <3> QED BY <1>1, <2>1, <2>5, <3>1
  <2>10. Room(p, g.fp)
    <3>1. p.size \in {sSize, ISRSize} /\ p.hw
      BY <1>2, <2>5
    <3> QED BY <2>2, <2>5, <2>6, <2>7, <2>8, <2>9, <3>1, Zenon DEF Room, HWBegin, MegaBytes
  <2> QED BY <2>1, <2>4, <2>10
<1>6. CASE ~cur.hw /\ g.fp
  <2>1. n \in Nat /\ n = 34
    BY <1>6 DEF MegaBytes
  <2>2. PICK p : p = Put(n)
    OBVIOUS
  <2>3. /\ p.i = cur.i + n /\ p.used = cur.used + n /\ ~p.done /\ ~p.hw
        /\ p.size = cur.size /\ p.limit = cur.limit
    BY <1>6, <2>1, <2>2, PutFields
  <2>4. cur.i % 34 = 0 /\ cur.limit = cur.size - 8 /\ cur.used = cur.i
    BY <1>6 DEF Room, MegaBytes
  <2>5. p.i % 34 = 0 /\ p.i < p.limit + 34 /\ p.used = p.i /\ p.limit = p.size - 8
    BY <1>1, <2>1, <2>3, <2>4
  <2>6. Room(p, g.fp)
    BY <1>2, <1>6, <2>3, <2>5, Zenon DEF Room, MegaBytes
  <2> QED BY <2>1, <2>2, <2>6
<1>7. CASE ~cur.hw /\ ~g.fp
  <2>1. cur.limit % 4 = 0 /\ cur.i % 4 = 0 /\ cur.limit = cur.size - 8 /\ cur.used = cur.i
    BY <1>1, <1>2, <1>7 DEF Room
  <2>2. n \in Nat /\ (cur.i + n) % 4 = 0 /\ cur.i + n <= cur.limit + 8
    BY <1>7, <2>1, OnwardSteps
  <2>3. PICK p : p = Put(n)
    OBVIOUS
  <2>4. /\ p.i = cur.i + n /\ p.used = cur.used + n /\ ~p.done /\ ~p.hw
        /\ p.size = cur.size /\ p.limit = cur.limit
    BY <1>7, <2>2, <2>3, PutFields
  <2>5. p.i % 4 = 0 /\ p.i <= p.limit + 8 /\ p.used = p.i /\ p.limit = p.size - 8
    BY <1>1, <2>1, <2>2, <2>4
  <2>6. Room(p, g.fp)
    BY <1>2, <1>7, <2>4, <2>5, Zenon DEF Room
  <2> QED BY <2>2, <2>3, <2>6
<1> QED BY <1>4, <1>6, <1>7

\* With the loop around it and the jump after it, a body fits its claim.
LEMMA RoomLeft ==
  ASSUME cur \in Sub, Room(cur, g.fp)
  PROVE  cur.used + Ending + JumpBytes \in 1..(MAX_SUB_ROUTINE_SIZE)
<1>1. /\ cur.i \in Nat /\ cur.limit \in Nat /\ cur.used \in Nat /\ cur.count \in Nat
      /\ cur.len \in Nat /\ cur.hw \in BOOLEAN /\ cur.done \in BOOLEAN /\ cur.size \in Nat
  BY ProgramAssumption DEF Sub, sSize, ISRSize, JumpBytes, LoopBytes
<1>2. cur.size \in {232, 64} /\ MAX_SUB_ROUTINE_SIZE = 256
  BY ProgramAssumption DEF Room, sSize, ISRSize, JumpBytes, LoopBytes
<1>3. /\ Align8(cur.used) \in Nat /\ Align8(cur.used) <= cur.used + 7
      /\ cur.used <= Align8(cur.used)
  BY <1>1, AlignUp
<1>4. CASE cur.hw /\ g.fp
  <2>1. Ending = 0
    BY <1>4 DEF Ending
  <2>2. cur.used <= 39 + cur.i /\ cur.i % 34 = 0 /\ cur.i < 234
    BY <1>1, <1>4 DEF Room, HWBegin, MegaBytes
  <2>3. cur.i <= 204
    BY <1>1, <2>2
  <2> QED BY <1>1, <1>2, <2>1, <2>2, <2>3 DEF JumpBytes
<1>5. CASE cur.hw /\ ~g.fp
  <2>1. Ending \in 0..15
    BY <1>1, <1>3, <1>5 DEF Ending
  <2>2. cur.used <= 39 + cur.i /\ cur.i <= 68
    BY <1>1, <1>5 DEF Room, HWBegin, MegaBytes
  <2> QED BY SMTT(30), <1>1, <1>2, <2>1, <2>2 DEF JumpBytes
<1>6. CASE ~cur.hw /\ g.fp
  <2>1. Ending = 0
    BY <1>6 DEF Ending
  <2>2. cur.used = cur.i /\ cur.i % 34 = 0 /\ cur.i < 258
    BY <1>1, <1>2, <1>6 DEF Room, MegaBytes
  <2>3. cur.i <= 238
    BY <1>1, <2>2
  <2>4. cur.used + Ending + JumpBytes = cur.i + 12
    BY <1>1, <2>1, <2>2 DEF JumpBytes
  <2> QED BY <1>1, <1>2, <2>3, <2>4
<1>7. CASE ~cur.hw /\ ~g.fp
  <2>1. Ending = 12
    BY <1>7 DEF Ending, LoopBytes
  <2>2. cur.used = cur.i /\ cur.i <= 232
    BY <1>1, <1>2, <1>7 DEF Room
  <2> QED BY <1>1, <1>2, <2>1, <2>2 DEF JumpBytes
<1> QED BY <1>1, <1>4, <1>5, <1>6, <1>7
-----------------------------------------------------------------------------
(***************************************************************************)
(* The worklist and the routines that are done.                            *)
(***************************************************************************)
LEMMA Addresses ==
  ASSUME NEW f \in Nat
  PROVE  /\ Routine(f) \in Ranges /\ Routine(f)[1] = f /\ Routine(f) = Routine(Routine(f)[1])
         /\ Even(f) \in Nat /\ f <= Even(f) /\ Even(f) <= f + 1
<1>1. /\ Routine(f) \in Ranges /\ Routine(f)[1] = f
  BY SizeAssumption DEF Routine, Ranges, MemRange
<1>2. Even(f) \in Nat /\ f <= Even(f) /\ Even(f) <= f + 1
  BY DEF Even
<1> QED BY <1>1, <1>2

\* A claim for a routine, and the others of before.
NewRoutine(m) ==
  /\ m[1] \in Nat /\ m = Routine(m[1]) /\ PROGRAM_START <= m[1]
  /\ Routines' = Routines \cup {m}
  /\ \A c \in check_set : ~Meet(c, m)

\* The address of a new routine is not that of another.
LEMMA NewAddress ==
  ASSUME check_set \subseteq Ranges, NEW m, NewRoutine(m)
  PROVE  /\ Even(m[1]) \in Nat \ {NoTarget}
         /\ ~Claimed(Even(m[1])) /\ At(Routines', Even(m[1]))
         /\ \A a : Claimed(a) => At(Routines', a)
<1>1. /\ m \in Ranges /\ Even(m[1]) \in Nat /\ m[1] <= Even(m[1]) /\ Even(m[1]) <= m[1] + 1
      /\ m[1] \in Nat
  BY Addresses DEF NewRoutine
<1>2. Even(m[1]) # NoTarget
  BY <1>1, ProgramAssumption DEF NewRoutine, NoTarget
<1>3. ASSUME Claimed(Even(m[1])) PROVE FALSE
  <2>1. PICK c \in Routines : Even(m[1]) = Even(c[1])
    BY <1>3 DEF Claimed, At
  <2>2. c \in Ranges /\ ~Meet(c, m) /\ c = Routine(c[1])
    BY <2>1 DEF Routines, NewRoutine
  <2>3. c[1] \in Nat /\ c[1] <= Even(c[1]) /\ Even(c[1]) <= c[1] + 1
    BY <2>2, Addresses DEF Ranges, MemRange
  <2>4. /\ c[2] = c[1] + MAX_SUB_ROUTINE_SIZE /\ m[2] = m[1] + MAX_SUB_ROUTINE_SIZE
    BY <2>2 DEF NewRoutine, Routine
  <2> QED BY <1>1, <2>1, <2>2, <2>3, <2>4, ProgramAssumption DEF Meet
<1>4. m \in Routines' /\ Routines \subseteq Routines'
  BY DEF NewRoutine
<1>5. At(Routines', Even(m[1])) /\ \A a : Claimed(a) => At(Routines', a)
  BY <1>4 DEF Claimed, At
<1> QED BY <1>1, <1>2, <1>3, <1>5

\* What changes neither list and prints no branch.
LEMMA ListsKept ==
  ASSUME Distinct, Covered, Worklist,
         UNCHANGED <<subRoutinePendingList, subRoutineDoneList, jumps>>,
         Routines \subseteq Routines',
         phase' = "start" => phase = "start",
         Lost => fRangeListForFetch' = {} /\ phase' # "fill",
         ISRActive' <=> ISRActive, ISRActive => cur'.addr = cur.addr,
         keepOut \subseteq keepOut',
         phase' = "fill" /\ ~cur'.isr =>
           subRoutinePendingList # <<>> /\ cur'.addr = Head(subRoutinePendingList),
         phase' \notin {"idle", "fill"} \/ ISRActive => subRoutinePendingList = <<>>
  PROVE  Distinct' /\ Covered' /\ Worklist'
<1>1. \A a : Claimed(a) => At(Routines', a)
  BY DEF Claimed, At
<1>2. Distinct'
  BY <1>1 DEF Distinct, Claimed
<1>3. \A a : Listed(a) => Listed(a)'
  BY DEF Listed
<1>4. Covered'
  <2>1. CASE Lost
    BY <2>1 DEF Covered, Lost
  <2>2. CASE ~Lost
    BY <1>3, <2>2 DEF Covered
  <2> QED BY <2>1, <2>2
<1>5. Worklist'
  BY <1>1 DEF Worklist, Claimed
<1> QED BY <1>2, <1>4, <1>5

\* A branch puts its target on the worklist, if it is not astray.
LEMMA TargetAdded ==
  ASSUME Types, Distinct, check_set \subseteq Ranges, NEW a \in Nat,
         subRoutinePendingList' = Append(subRoutinePendingList, a),
         subRoutineDoneList' = subRoutineDoneList,
         ISRActive' <=> ISRActive, ISRActive => cur'.addr = cur.addr,
         \/ a = NoTarget /\ Routines' = Routines
         \/ \E m : NewRoutine(m) /\ a = Even(m[1])
  PROVE  /\ Distinct' /\ Listed(a)' /\ \A b : Listed(b) => Listed(b)'
         /\ \A b : Claimed(b) => At(Routines', b)
         /\ a \in Nat /\ subRoutinePendingList' \in Seq(Nat)
<1> DEFINE P == subRoutinePendingList
           Q == subRoutinePendingList'
           D == subRoutineDoneList
<1>1. /\ \A b : Claimed(b) => At(Routines', b)
      /\ a # NoTarget => ~Claimed(a) /\ At(Routines', a)
  <2>1. CASE a = NoTarget /\ Routines' = Routines
    BY <2>1 DEF Claimed, At
  <2>2. CASE \E m : NewRoutine(m) /\ a = Even(m[1])
    BY <2>2, NewAddress
  <2> QED BY <2>1, <2>2
<1>2. /\ P \in Seq(Nat) /\ Len(P) \in Nat
      /\ Q \in Seq(Nat) /\ Len(Q) = Len(P) + 1 /\ Q[Len(P) + 1] = a
      /\ \A i \in 1..Len(P) : Q[i] = P[i]
  <2>1. P \in Seq(Nat) /\ Q = Append(P, a)
    BY DEF Types
  <2> HIDE DEF P, Q
  <2> QED BY <2>1, AppendProperties, Elements
<1>3. \A i \in 1..Len(Q) : (i \in 1..Len(P) /\ Q[i] = P[i]) \/ (i = Len(P) + 1 /\ Q[i] = a)
  <2> HIDE DEF P, Q
  <2> QED BY SMTT(30), <1>2
<1>4. /\ \A i \in 1..Len(P) : P[i] # NoTarget => Claimed(P[i])
      /\ \A i, j \in 1..Len(P) : P[i] = P[j] /\ P[i] # NoTarget => i = j
      /\ \A i \in 1..Len(D) : D[i].addr # NoTarget => Claimed(D[i].addr)
      /\ \A i, j \in 1..Len(D) : D[i].addr = D[j].addr /\ D[i].addr # NoTarget => i = j
      /\ \A i \in 1..Len(P), j \in 1..Len(D) : P[i] = D[j].addr => P[i] = NoTarget
  BY DEF Distinct
<1> HIDE DEF P, Q
<1>5. ASSUME NEW i \in 1..Len(Q), Q[i] # NoTarget PROVE At(Routines', Q[i])
  <2>1. CASE i \in 1..Len(P) /\ Q[i] = P[i]
    <3>1. Claimed(P[i])
      BY <1>4, <1>5, <2>1
    <3> QED BY <1>1, <2>1, <3>1
  <2>2. CASE Q[i] = a
    BY <1>1, <1>5, <2>2
  <2> QED BY <1>3, <2>1, <2>2
<1>6. \A i, j \in 1..Len(Q) : Q[i] = Q[j] /\ Q[i] # NoTarget => i = j
  BY <1>1, <1>3, <1>4
<1>7. \A i \in 1..Len(D) : D[i].addr # NoTarget => At(Routines', D[i].addr)
  BY <1>1, <1>4
<1>8. \A i \in 1..Len(Q), j \in 1..Len(D) : Q[i] = D[j].addr => Q[i] = NoTarget
  BY <1>1, <1>3, <1>4
<1>9. Distinct'
  <2>1. \A i \in 1..Len(Q) : Q[i] # NoTarget => At(Routines', Q[i])
    BY <1>5
  <2>2. subRoutinePendingList' = Q /\ subRoutineDoneList' = D
    BY DEF Q
  <2> QED BY <1>4, <1>6, <1>7, <1>8, <2>1, <2>2 DEF Distinct, Claimed
<1>10. Listed(a)' /\ \A b : Listed(b) => Listed(b)'
  <2>1. \A b : Listed(b) => Listed(b)'
    <3>1. \A b : (\E i \in 1..Len(P) : P[i] = b) => \E i \in 1..Len(Q) : Q[i] = b
      <4>1. \A i \in 1..Len(P) : i \in 1..Len(Q) /\ Q[i] = P[i]
        BY <1>2
      <4> QED BY <4>1
    <3> QED BY <3>1 DEF Listed, P, Q
  <2>2. Listed(a)'
    <3>1. Len(P) + 1 \in 1..Len(Q) /\ Q[Len(P) + 1] = a
      BY <1>2
    <3> QED BY <3>1 DEF Listed, Q
  <2> QED BY <2>1, <2>2
<1> QED BY <1>1, <1>2, <1>9, <1>10 DEF Q

\* The worklist without the routine that is being filled.
LEMMA WithoutFirst ==
  ASSUME Types, Distinct, Worklist, phase = "fill"
  PROVE  LET P == subRoutinePendingList  Q == IF cur.isr THEN P ELSE Tail(P) IN
         /\ Q \in Seq(Nat) /\ Len(Q) \in Nat /\ Len(P) \in Nat
         /\ cur.isr => Q = <<>> /\ P = <<>>
         /\ ~cur.isr => /\ Len(P) >= 1 /\ Len(Q) = Len(P) - 1 /\ P[1] = cur.addr
                        /\ \A i \in 1..Len(Q) : i + 1 \in 1..Len(P) /\ Q[i] = P[i + 1]
                        /\ \A i \in 1..Len(P) : i # 1 => i - 1 \in 1..Len(Q) /\ Q[i - 1] = P[i]
<1> DEFINE P == subRoutinePendingList
           Q == IF cur.isr THEN P ELSE Tail(P)
<1>1. P \in Seq(Nat) /\ Len(P) \in Nat /\ cur.isr \in BOOLEAN
  BY LenProperties DEF Types, Sub
<1>2. CASE cur.isr
  <2>1. P = <<>> /\ Q = <<>> /\ Len(P) = 0
    BY <1>2, EmptySeq DEF Worklist, ISRActive
  <2> QED BY <1>1, <1>2, <2>1
<1>3. CASE ~cur.isr
  <2>1. P # <<>> /\ cur.addr = Head(P)
    BY <1>3 DEF Worklist
  <2> HIDE DEF P
  <2>2. /\ Tail(P) \in Seq(Nat) /\ Len(Tail(P)) = Len(P) - 1 /\ Len(P) >= 1
        /\ \A i \in 1..Len(Tail(P)) : Tail(P)[i] = P[i + 1]
    BY <1>1, <2>1, HeadTailProperties, EmptySeq, LenProperties
  <2>3. Head(P) = P[1]
    BY <1>1, <2>1
  <2>4. Q = Tail(P)
    BY <1>3
  <2> HIDE DEF Q
  <2>5. \A i \in 1..Len(Q) : i + 1 \in 1..Len(P) /\ Q[i] = P[i + 1]
    BY <1>1, <2>2, <2>4
  <2>6. \A i \in 1..Len(P) : i # 1 => i - 1 \in 1..Len(Q) /\ Q[i - 1] = P[i]
    <3> TAKE i \in 1..Len(P)
    <3> HAVE i # 1
    <3>1. i - 1 \in 1..Len(Q) /\ (i - 1) + 1 = i
      BY <1>1, <2>2, <2>4
    <3> QED BY <2>5, <3>1
  <2> QED BY <1>1, <1>3, <2>1, <2>2, <2>3, <2>4, <2>5, <2>6 DEF P, Q
<1> QED BY <1>1, <1>2, <1>3

\* A routine that is filled goes from the worklist to the routines done.
LEMMA RoutineDone ==
  ASSUME Types, Distinct, Covered, Worklist, phase = "fill",
         NEW used \in 1..MAX_SUB_ROUTINE_SIZE,
         subRoutineDoneList' =
           Append(subRoutineDoneList, [addr |-> cur.addr, used |-> used]),
         subRoutinePendingList' =
           IF cur.isr THEN subRoutinePendingList ELSE Tail(subRoutinePendingList),
         phase' = IF cur.isr THEN "isr" ELSE "idle", cur' = NoSub,
         Routines' = Routines, jumps' = jumps
  PROVE  /\ Distinct' /\ Covered' /\ Worklist'
         /\ subRoutinePendingList' \in Seq(Nat)
         /\ subRoutineDoneList' \in Seq([addr : Nat, used : 1..MAX_SUB_ROUTINE_SIZE])
<1> DEFINE P == subRoutinePendingList
           D == subRoutineDoneList
           Q == IF cur.isr THEN P ELSE Tail(P)
           E == subRoutineDoneList'
           new == [addr |-> cur.addr, used |-> used]
           Entry == [addr : Nat, used : 1..MAX_SUB_ROUTINE_SIZE]
<1>0. cur.addr \in Nat /\ cur.isr \in BOOLEAN
  BY DEF Types, Sub
<1>1. /\ D \in Seq(Entry) /\ Len(D) \in Nat /\ E \in Seq(Entry) /\ Len(E) = Len(D) + 1
      /\ E[Len(D) + 1] = new /\ \A i \in 1..Len(D) : E[i] = D[i]
  <2>1. D \in Seq(Entry) /\ new \in Entry
    BY <1>0 DEF Types
  <2>2. E = Append(D, new)
    OBVIOUS
  <2> HIDE DEF D, E, new, Entry
  <2> QED BY <2>1, <2>2, AppendProperties, LenProperties
<1>2. \A i \in 1..Len(E) : (i \in 1..Len(D) /\ E[i] = D[i]) \/ (i = Len(D) + 1 /\ E[i] = new)
  <2> HIDE DEF D, E, new
  <2> TAKE i \in 1..Len(E)
  <2>1. i \in 1..Len(D) \/ i = Len(D) + 1
    BY <1>1
  <2> QED BY <1>1, <2>1
<1>3. /\ Q \in Seq(Nat) /\ Len(Q) \in Nat /\ Len(P) \in Nat
      /\ cur.isr => Q = <<>> /\ P = <<>>
      /\ ~cur.isr => /\ Len(P) >= 1 /\ Len(Q) = Len(P) - 1 /\ P[1] = cur.addr
                     /\ \A i \in 1..Len(Q) : i + 1 \in 1..Len(P) /\ Q[i] = P[i + 1]
                     /\ \A i \in 1..Len(P) : i # 1 => i - 1 \in 1..Len(Q) /\ Q[i - 1] = P[i]
  BY WithoutFirst
<1>4. /\ \A i \in 1..Len(P) : P[i] # NoTarget => Claimed(P[i])
      /\ \A i, j \in 1..Len(P) : P[i] = P[j] /\ P[i] # NoTarget => i = j
      /\ \A i \in 1..Len(D) : D[i].addr # NoTarget => Claimed(D[i].addr)
      /\ \A i, j \in 1..Len(D) : D[i].addr = D[j].addr /\ D[i].addr # NoTarget => i = j
      /\ \A i \in 1..Len(P), j \in 1..Len(D) : P[i] = D[j].addr => P[i] = NoTarget
  BY DEF Distinct
<1>5. /\ cur.isr => Claimed(cur.addr) /\ \A j \in 1..Len(D) : D[j].addr # cur.addr
      /\ new.addr = cur.addr /\ subRoutinePendingList' = Q
  BY DEF Worklist, ISRActive
<1>6. Len(<<>>) = 0
  BY EmptySeq
<1> HIDE DEF P, D, Q, E, new
<1>7. /\ cur.addr # NoTarget => Claimed(cur.addr)
      /\ \A j \in 1..Len(D) : D[j].addr = cur.addr => cur.addr = NoTarget
  <2>1. CASE cur.isr
    BY <1>5, <2>1
  <2>2. CASE ~cur.isr
    <3>1. 1 \in 1..Len(P) /\ P[1] = cur.addr
      BY <1>3, <2>2
    <3> QED BY <1>4, <3>1
  <2> QED BY <1>0, <2>1, <2>2
<1>8. /\ \A i \in 1..Len(Q) : \E j \in 1..Len(P) : Q[i] = P[j]
      /\ \A i \in 1..Len(Q) : Q[i] = cur.addr => Q[i] = NoTarget
      /\ \A i, j \in 1..Len(Q) : Q[i] = Q[j] /\ Q[i] # NoTarget => i = j
  <2>1. CASE cur.isr
    <3>1. Len(Q) = 0
      BY <1>3, <1>6, <2>1
    <3> QED BY <3>1
  <2>2. CASE ~cur.isr
    <3>1. \A i \in 1..Len(Q) : \E j \in 1..Len(P) : Q[i] = P[j]
      BY <1>3, <2>2
    <3>2. ASSUME NEW i \in 1..Len(Q), Q[i] = cur.addr, Q[i] # NoTarget PROVE FALSE
      <4>1. i + 1 \in 1..Len(P) /\ 1 \in 1..Len(P) /\ P[i + 1] = P[1] /\ P[i + 1] # NoTarget
        BY <1>3, <2>2, <3>2
      <4>2. i + 1 = 1
        BY <1>4, <4>1
      <4> QED BY <4>2
    <3>3. ASSUME NEW i \in 1..Len(Q), NEW j \in 1..Len(Q), Q[i] = Q[j], Q[i] # NoTarget
          PROVE  i = j
      <4>1. /\ i + 1 \in 1..Len(P) /\ j + 1 \in 1..Len(P)
            /\ P[i + 1] = P[j + 1] /\ P[i + 1] # NoTarget
        BY <1>3, <2>2, <3>3
      <4>2. i + 1 = j + 1
        BY <1>4, <4>1
      <4> QED BY <4>2
    <3> QED BY <3>1, <3>2, <3>3
  <2> QED BY <1>0, <2>1, <2>2
<1>9. Distinct'
  <2>1. \A a : At(Routines', a) <=> Claimed(a)
    BY DEF Claimed
  <2>2. \A i \in 1..Len(Q) : Q[i] # NoTarget => Claimed(Q[i])
    BY <1>4, <1>8
  <2>3. \A i \in 1..Len(E) : E[i].addr # NoTarget => Claimed(E[i].addr)
    BY <1>2, <1>4, <1>5, <1>7
  <2>4. \A i, j \in 1..Len(E) : E[i].addr = E[j].addr /\ E[i].addr # NoTarget => i = j
    BY SMTT(30), <1>2, <1>4, <1>5, <1>7
  <2>5. \A i \in 1..Len(Q), j \in 1..Len(E) : Q[i] = E[j].addr => Q[i] = NoTarget
    <3> TAKE i \in 1..Len(Q), j \in 1..Len(E)
    <3>1. CASE E[j] = new
      BY <1>5, <1>8, <3>1
    <3>2. CASE j \in 1..Len(D) /\ E[j] = D[j]
      BY <1>4, <1>8, <3>2
    <3> QED BY <1>2, <3>1, <3>2
  <2>6. subRoutinePendingList' = Q /\ subRoutineDoneList' = E
    BY <1>5 DEF E
  <2> QED BY ZenonT(60), <1>8, <2>1, <2>2, <2>3, <2>4, <2>5, <2>6 DEF Distinct, Claimed
<1>10. Covered'
  <2>1. PICK a : a = cur.addr
    OBVIOUS
  <2>2. \E i \in 1..Len(E) : E[i].addr = a
    <3>1. Len(D) + 1 \in 1..Len(E) /\ E[Len(D) + 1].addr = a
      BY <1>1, <1>5, <2>1
    <3> QED BY <3>1
  <2>3. ASSUME NEW b, Listed(b)
        PROVE  (\E i \in 1..Len(Q) : Q[i] = b) \/ \E i \in 1..Len(E) : E[i].addr = b
    <3>1. CASE \E i \in 1..Len(P) : P[i] = b
      <4>1. PICK i \in 1..Len(P) : P[i] = b
        BY <3>1
      <4>2. ~cur.isr
        BY <1>3, <1>6, <4>1
      <4>3. CASE i = 1
        BY <1>3, <2>1, <2>2, <4>1, <4>2, <4>3
      <4>4. CASE i # 1
        BY <1>3, <4>1, <4>2, <4>4
      <4> QED BY <4>3, <4>4
    <3>2. CASE \E i \in 1..Len(D) : D[i].addr = b
      <4>1. \A i \in 1..Len(D) : i \in 1..Len(E) /\ E[i] = D[i]
        BY <1>1
      <4> QED BY <3>2, <4>1
    <3>3. CASE cur.addr = b
      BY <2>1, <2>2, <3>3
    <3> QED BY <2>3, <3>1, <3>2, <3>3 DEF Listed, P, D
  <2>4. subRoutinePendingList' = Q /\ subRoutineDoneList' = E
    BY <1>5 DEF E
  <2>5. \A b : Listed(b) => Listed(b)'
    BY <2>3, <2>4 DEF Listed
  <2>6. \A t \in jumps : Listed(t)
    BY DEF Covered, Lost
  <2>7. phase' # "start"
    BY <1>0
  <2> QED BY <2>5, <2>6, <2>7 DEF Covered
<1>11. Worklist'
  <2>1. phase' = "isr" => Q = <<>>
    BY <1>0, <1>3
  <2>2. phase' \in {"isr", "idle"}
    BY <1>0
  <2> QED BY <1>5, <2>1, <2>2 DEF Worklist, ISRActive
<1> QED BY <1>1, <1>3, <1>5, <1>9, <1>10, <1>11 DEF E
-----------------------------------------------------------------------------
(***************************************************************************)
(* Steps of the program, before the DMA engines.                           *)
(***************************************************************************)
\* Where a branch may go.
LEMMA TargetNumber ==
  ASSUME g \in Options, fRangeListForFetch \subseteq Ranges, NEW t \in Targets
  PROVE  t \in Nat /\ Draw \subseteq Nat
<1>1. g.offsets \subseteq Nat
  BY ProgramAssumption
<1>2. \A r \in fRangeListForFetch : r[1] \in Nat
  BY DEF Ranges, MemRange
<1>3. Draw \subseteq Nat
  BY <1>1, <1>2 DEF Draw
<1>4. CASE t = NoTarget
  BY <1>3, <1>4 DEF NoTarget
<1>5. CASE \E f \in Draw : t = Even(f)
  BY <1>3, <1>5, Addresses
<1> QED BY <1>4, <1>5 DEF Targets

\* A branch claims memory for a routine, if it is not astray.
LEMMA BranchTaken ==
  ASSUME Allocated, UNCHANGED dmaVars, g \in Options,
         NEW pc, NEW t \in Targets, NEW size, Branch(pc, t, size)
  PROVE  /\ Allocated' /\ failed' = failed /\ leaked' = FALSE
         /\ t \in Nat /\ size \in {4, 12}
         /\ fLoadNotSafeRangeList' = fLoadNotSafeRangeList
         /\ \/ /\ t = NoTarget /\ Routines' = Routines
               /\ fRangeListForFetch' = fRangeListForFetch
            \/ \E m : NewRoutine(m) /\ t = Even(m[1]) /\ check_set' = check_set \cup {m}
<1>1. fRangeListForFetch \subseteq Ranges
  <2>1. Disjoint(fRangeListForFetch, fRangeListForLS, check_set)
    BY Zenon DEF Allocated, Memory
  <2> QED BY <2>1 DEF Disjoint
<1>2. t \in Nat /\ Draw \subseteq Nat
  BY <1>1, TargetNumber
<1>3. leaked' = FALSE
  BY DEF Branch
<1>4. ASSUME NEW f \in Nat, t = Even(f), ClaimFetch(Routine(f)), size \in {4, 12}
      PROVE  /\ Allocated' /\ failed' = failed /\ size \in {4, 12}
             /\ fLoadNotSafeRangeList' = fLoadNotSafeRangeList
             /\ \E m : NewRoutine(m) /\ t = Even(m[1]) /\ check_set' = check_set \cup {m}
  <2>1. /\ Allocated' /\ failed' = failed
        /\ Routines' = Routines \cup {Routine(f)} /\ check_set' = check_set \cup {Routine(f)}
        /\ \A c \in check_set : ~Meet(c, Routine(f))
        /\ PROGRAM_START <= f
        /\ fLoadNotSafeRangeList' = fLoadNotSafeRangeList
    BY <1>4, CodeClaim
  <2>2. Routine(f)[1] = f /\ Routine(f) = Routine(Routine(f)[1])
    BY Addresses
  <2>3. NewRoutine(Routine(f)) /\ t = Even(Routine(f)[1])
    BY <1>4, <2>1, <2>2 DEF NewRoutine
  <2> QED BY <1>4, <2>1, <2>3
<1>5. CASE ThroughRegister(t) /\ size = 4
  <2>1. ClaimFetch(Routine(t)) /\ t = Even(t)
    BY <1>2, <1>5 DEF ThroughRegister, RegisterFound, GetGenRangebyJump, Even
  <2> QED BY <1>2, <1>3, <1>4, <1>5, <2>1
<1>6. CASE Astray /\ t = NoTarget /\ size = 4
  <2>1. UNCHANGED memVars
    BY <1>6 DEF Astray
  <2>2. Allocated' /\ Routines' = Routines
    BY <2>1, NoClaim DEF memVars
  <2> QED BY <1>2, <1>3, <1>6, <2>1, <2>2 DEF memVars
<1>7. CASE \E f \in Draw : t = Even(f) /\ GetGenRangebyJump(f) /\ size = BranchSize(t, pc)
  <2>1. PICK f \in Draw : t = Even(f) /\ GetGenRangebyJump(f) /\ size = BranchSize(t, pc)
    BY <1>7
  <2>2. size \in {4, 12}
    BY <2>1 DEF BranchSize, FarBytes
  <2>3. f \in Nat /\ ClaimFetch(Routine(f))
    BY <1>2, <2>1 DEF GetGenRangebyJump
  <2> QED BY <1>2, <1>3, <1>4, <2>1, <2>2, <2>3
<1> QED BY <1>5, <1>6, <1>7 DEF Branch

\* The invariant before the engines.
EarlyInv ==
  /\ Early /\ Allocated /\ (g.dma => fLoadNotSafeRangeList = {})
  /\ Types /\ Distinct /\ Worklist /\ Covered /\ Leaks /\ Body

\* Before the DMA engines start, the invariant is the simpler one.
LEMMA EarlyProgram == EarlyInv <=> Early /\ ProgramInv
<1>1. Disjoint(fRangeListForFetch, fRangeListForLS, check_set) => check_set \subseteq Ranges
  BY DEF Disjoint
<1>2. ASSUME EarlyInv PROVE Early /\ ProgramInv
  <2>1. Idle /\ check_set \subseteq Ranges
    BY <1>1, <1>2, Zenon DEF EarlyInv, Allocated, Memory
  <2>2. EngineInv
    BY <2>1, IdleEngine
  <2>3. Engines
    BY <1>2, <2>1, <2>2 DEF Engines, EarlyInv, Early
  <2>4. Printed
    BY <1>2 DEF Printed, EarlyInv, Early
  <2> QED BY <1>2, <2>3, <2>4 DEF EarlyInv, Allocated, ProgramInv
<1>3. ASSUME Early, ProgramInv PROVE EarlyInv
  BY <1>3 DEF ProgramInv, EarlyInv, Allocated, Engines
<1> QED BY <1>2, <1>3

\* Types and lists that the steps need.
LEMMA EarlyFacts ==
  ASSUME EarlyInv
  PROVE  /\ check_set \subseteq Ranges /\ fRangeListForFetch \subseteq Ranges
         /\ g \in Options /\ cur \in Sub /\ cur.addr \in Nat /\ cur.isr \in BOOLEAN
         /\ Routines \subseteq check_set
<1>1. Disjoint(fRangeListForFetch, fRangeListForLS, check_set)
  BY Zenon DEF EarlyInv, Allocated, Memory
<1>2. check_set \subseteq Ranges /\ fRangeListForFetch \subseteq Ranges
  BY <1>1 DEF Disjoint
<1>3. g \in Options /\ cur \in Sub
  BY Zenon DEF EarlyInv, Types
<1>4. cur.addr \in Nat /\ cur.isr \in BOOLEAN
  BY <1>3 DEF Sub
<1>5. Routines \subseteq check_set
  BY DEF Routines
<1> QED BY <1>2, <1>3, <1>4, <1>5

\* The first branch of the test: its target is the worklist.
LEMMA FirstBranchStep == ASSUME EarlyInv, FirstBranch PROVE EarlyInv'
<1>1. /\ phase = "start" /\ phase' = "idle" /\ fRangeListForFetch # {}
      /\ UNCHANGED <<g, cur, subRoutineDoneList, keepOut, k, sections, dmaVars>>
  BY DEF FirstBranch
<1>2. PICK t \in Targets, size \in Sizes :
        /\ Branch(PROGRAM_START + NREGS * 4, t, size)
        /\ jumps' = {t}
        /\ subRoutinePendingList' = IF fRangeListForFetch' # {} THEN <<t>> ELSE <<>>
  BY DEF FirstBranch
<1>3. /\ Allocated' /\ failed' = failed /\ leaked' = FALSE
      /\ t \in Nat
      /\ fLoadNotSafeRangeList' = fLoadNotSafeRangeList
      /\ \/ t = NoTarget /\ Routines' = Routines /\ fRangeListForFetch' = fRangeListForFetch
         \/ \E m : NewRoutine(m) /\ t = Even(m[1]) /\ check_set' = check_set \cup {m}
  BY <1>1, <1>2, EarlyFacts, BranchTaken DEF EarlyInv
<1>4. subRoutinePendingList = <<>> /\ ~ISRActive /\ subRoutineDoneList = <<>>
  BY <1>1 DEF EarlyInv, Worklist, ISRActive, Covered
<1>5. ~ISRActive'
  BY <1>1 DEF ISRActive
<1>6. Distinct' /\ Covered' /\ subRoutinePendingList' \in Seq(Nat)
  <2>1. CASE fRangeListForFetch' # {}
    <3>1. subRoutinePendingList' = Append(subRoutinePendingList, t)
      BY <1>2, <1>4, <2>1
    <3>2. Distinct' /\ Listed(t)' /\ subRoutinePendingList' \in Seq(Nat)
      BY <1>1, <1>3, <1>4, <1>5, <3>1, EarlyFacts, TargetAdded DEF EarlyInv
    <3>3. Covered'
      BY <1>1, <1>2, <3>2 DEF Covered
    <3> QED BY <3>2, <3>3
  <2>2. CASE fRangeListForFetch' = {}
    <3>1. subRoutinePendingList' = <<>> /\ subRoutineDoneList' = <<>>
      BY <1>1, <1>2, <1>4, <2>2
    <3>2. t # NoTarget
      <4>1. PICK m : NewRoutine(m) /\ t = Even(m[1])
        BY <1>1, <1>3, <2>2
      <4> QED BY <4>1, EarlyFacts, NewAddress
    <3>3. Covered'
      BY <1>1, <1>2, <1>5, <2>2, <3>1, <3>2 DEF Covered, Lost
    <3>4. Distinct'
      BY <3>1, EmptySeq DEF Distinct
    <3> QED BY <3>1, <3>3, <3>4, EmptySeq
  <2> QED BY <2>1, <2>2
<1>7. Worklist'
  BY <1>1, <1>5 DEF Worklist
<1>8. Types'
  BY <1>1, <1>6 DEF EarlyInv, Types
<1>9. Early' /\ Leaks' /\ Body'
  BY <1>1, <1>3 DEF Early, Leaks, Body
<1> QED BY <1>1, <1>3, <1>6, <1>7, <1>8, <1>9 DEF EarlyInv

\* Without memory for code.
LEMMA NoBranchStep == ASSUME EarlyInv, NoBranch PROVE EarlyInv'
<1>1. /\ phase = "start" /\ phase' = "idle" /\ ~leaked
      /\ UNCHANGED <<memVars, dmaVars, g, cur, subRoutinePendingList,
                     subRoutineDoneList, numSubRoutine, keepOut, leaked, jumps, k, sections>>
  BY DEF NoBranch
<1>2. /\ Allocated /\ Types /\ Distinct /\ Worklist /\ Covered /\ Leaks
      /\ (g.dma => fLoadNotSafeRangeList = {})
  BY DEF EarlyInv
<1>3. Allocated' /\ Routines' = Routines
  BY <1>1, <1>2, NoClaim DEF memVars
<1>4. ~ISRActive /\ ~ISRActive' /\ ~Lost
  BY <1>1 DEF ISRActive, Lost
<1>5. Distinct' /\ Covered' /\ Worklist'
  BY <1>1, <1>2, <1>3, <1>4, ListsKept
<1>6. Early' /\ Types' /\ Leaks' /\ Body'
  BY <1>1, <1>2 DEF Early, Types, Leaks, Body
<1>7. fLoadNotSafeRangeList' = fLoadNotSafeRangeList
  BY <1>1 DEF memVars
<1> QED BY <1>1, <1>2, <1>3, <1>5, <1>6, <1>7 DEF EarlyInv

\* The start of a routine, with room for what is to come.
LEMMA StartSub ==
  ASSUME EarlyInv, NEW a \in Nat, NEW size \in {sSize, ISRSize}, NEW isr \in BOOLEAN,
         Start(a, size, isr)
  PROVE  /\ cur' \in Sub /\ cur'.addr = a /\ (cur'.isr <=> isr)
         /\ keepOut \subseteq keepOut'
         /\ failed' = failed \/ failed' \in Stopped
         /\ failed' = "no" => Room(cur', g.fp) /\ (cur'.hw => "branch" \in keepOut')
<1> DEFINE new == [NoSub EXCEPT !.addr = a, !.size = size, !.isr = isr]
<1>1. size \in {232, 64} /\ size \in Nat
  BY ProgramAssumption DEF sSize, ISRSize, JumpBytes, LoopBytes
<1>2. PICK p : p = new
  OBVIOUS
<1>3. /\ p \in Sub /\ p.addr = a /\ p.size = size /\ p.limit = 0 /\ ~p.hw /\ p.len = 0
      /\ p.i = 0 /\ p.count = 0 /\ p.used = 0 /\ ~p.done /\ p.isr = isr
  BY <1>2 DEF NoSub, Sub, NoTarget
<1>4. CASE /\ IsHWLoop(a) /\ keepOut' = keepOut \cup {"branch"} /\ failed' = failed
           /\ \E n \in HWBody(size), len \in 8..16 :
                cur' = [p EXCEPT !.hw = TRUE, !.len = len, !.limit = size - n, !.used = HWBegin]
  <2>1. PICK n \in HWBody(size), len \in 8..16 :
          cur' = [p EXCEPT !.hw = TRUE, !.len = len, !.limit = size - n, !.used = HWBegin]
    BY <1>4, Zenon
  <2>2. n \in Nat /\ 32 <= n /\ n <= size - 32
    <3>1. n \in LengthDraw /\ 8 + 24 <= n /\ n <= size - 32
      BY DEF HWBody
    <3>2. LengthDraw \subseteq Nat
      BY Zenon, ProgramAssumption
    <3> QED BY <3>1, <3>2
  <2>3. PICK c : c = [p EXCEPT !.hw = TRUE, !.len = len, !.limit = size - n, !.used = HWBegin]
    OBVIOUS
  <2>4. size - n \in Nat /\ size - n <= 200 /\ len \in Nat /\ HWBegin \in Nat
    BY <1>1, <2>2 DEF HWBegin
  <2>5. /\ c \in Sub /\ c.addr = a /\ c.size = size /\ c.limit = size - n /\ c.hw
        /\ c.len = len /\ c.i = 0 /\ c.count = 0 /\ c.used = HWBegin /\ ~c.done /\ c.isr = isr
    <3>1. c \in Sub
      BY <1>3, <2>3, <2>4 DEF Sub
    <3>2. /\ c.addr = a /\ c.size = size /\ c.limit = size - n
          /\ c.len = len /\ c.i = 0 /\ c.count = 0 /\ c.used = HWBegin
      BY <1>3, <2>3 DEF Sub
    <3>3. c.hw = TRUE /\ c.done = p.done /\ c.isr = p.isr
      BY <1>3, <2>3 DEF Sub
    <3> QED BY <1>3, <3>1, <3>2, <3>3, Zenon
  <2>6. Room(c, g.fp)
    <3>1. c.used <= HWBegin + c.i + (IF c.count >= c.len THEN 7 ELSE 0)
      BY <2>4, <2>5 DEF HWBegin
    <3>2. c.count <= c.len + 1 /\ c.count <= c.len /\ c.i = 4 * c.count /\ c.len \in 8..16
      BY <2>4, <2>5
    <3>3. c.i % MegaBytes = 0 /\ c.i < c.limit + MegaBytes /\ c.limit <= 200
      BY <2>4, <2>5 DEF MegaBytes
    <3> QED BY <2>5, <3>1, <3>2, <3>3, Zenon DEF Room
  <2>7. cur' = c /\ "branch" \in keepOut' /\ keepOut \subseteq keepOut' /\ failed' = failed
    BY <1>4, <2>1, <2>3
  <2> QED BY <2>5, <2>6, <2>7, Zenon
<1>5. CASE /\ IsHWLoop(a) /\ keepOut' = keepOut \cup {"branch"}
           /\ failed' \in Stopped /\ cur' = p
  <2>1. cur' = p /\ keepOut \subseteq keepOut'
    BY <1>5
  <2>2. failed' \in Stopped /\ failed' # "no"
    BY <1>5, StoppedOtherwise
  <2> QED BY <1>3, <2>1, <2>2, Zenon
<1>6. CASE /\ ~IsHWLoop(a) /\ cur' = [p EXCEPT !.limit = size - 8]
           /\ UNCHANGED <<keepOut, failed>>
  <2>1. PICK c : c = [p EXCEPT !.limit = size - 8]
    OBVIOUS
  <2>2. size - 8 \in Nat
    BY <1>1
  <2>3. /\ c \in Sub /\ c.addr = a /\ c.size = size /\ c.limit = size - 8 /\ ~c.hw
        /\ c.i = 0 /\ c.count = 0 /\ c.used = 0 /\ ~c.done /\ c.isr = isr
    BY <1>3, <2>1, <2>2 DEF Sub
  <2>4. Room(c, g.fp)
    <3>1. c.i % 4 = 0 /\ c.i <= c.limit + 8
      BY <2>2, <2>3
    <3>2. c.i % MegaBytes = 0 /\ c.i < c.limit + MegaBytes
      BY <2>2, <2>3 DEF MegaBytes
    <3> QED BY <2>3, <3>1, <3>2, Zenon DEF Room
  <2> QED BY <1>6, <2>1, <2>3, <2>4
<1>7. \/ /\ IsHWLoop(a) /\ keepOut' = keepOut \cup {"branch"} /\ failed' = failed
         /\ \E n \in HWBody(size), len \in 8..16 :
              cur' = [p EXCEPT !.hw = TRUE, !.len = len, !.limit = size - n, !.used = HWBegin]
      \/ /\ IsHWLoop(a) /\ keepOut' = keepOut \cup {"branch"}
         /\ failed' \in Stopped /\ cur' = p
      \/ /\ ~IsHWLoop(a) /\ cur' = [p EXCEPT !.limit = size - 8]
         /\ UNCHANGED <<keepOut, failed>>
  BY <1>2, Zenon DEF Start, Stopped
<1> QED BY <1>4, <1>5, <1>6, <1>7, Zenon

\* A subroutine is taken to be filled, from the worklist or for an interrupt.
LEMMA StartStep ==
  ASSUME EarlyInv, phase' = "fill", cur' \in Sub, keepOut \subseteq keepOut',
         failed' = failed \/ failed' \in Stopped,
         failed' = "no" => Room(cur', g.fp) /\ (cur'.hw => "branch" \in keepOut'),
         UNCHANGED <<fRangeListForFetch, fRangeListForLS, check_set,
                     fLSFillRangeList, fLoadNotSafeRangeList, fAccessMem, dmaVars, g,
                     subRoutinePendingList, subRoutineDoneList, leaked, jumps>>,
         \/ /\ phase = "idle" /\ subRoutinePendingList # <<>>
            /\ cur'.addr = Head(subRoutinePendingList) /\ ~cur'.isr
         \/ phase = "isr_claimed" /\ cur'.addr = cur.addr /\ cur'.isr
  PROVE  EarlyInv'
<1>1. /\ Allocated /\ Types /\ Distinct /\ Worklist /\ Covered /\ Leaks
      /\ (g.dma => fLoadNotSafeRangeList = {})
  BY DEF EarlyInv
<1>2. Allocated' /\ Routines' = Routines
  BY <1>1, NoClaim
<1>3. /\ (ISRActive' <=> ISRActive) /\ (ISRActive => cur'.addr = cur.addr) /\ ~leaked
  BY <1>1 DEF ISRActive, Leaks
<1>4. Distinct' /\ Covered' /\ Worklist'
  <2>1. ~Lost
    BY DEF Lost, ISRActive
  <2>2. ISRActive => subRoutinePendingList = <<>>
    BY <1>1 DEF Worklist
  <2> QED BY <1>1, <1>2, <1>3, <2>1, <2>2, ListsKept
<1>5. Early' /\ Types' /\ Leaks' /\ Body'
  BY <1>1, <1>3 DEF Early, Types, Leaks, Body
<1> QED BY <1>1, <1>2, <1>4, <1>5 DEF EarlyInv

\* From the worklist.
LEMMA NextSubroutineStep == ASSUME EarlyInv, NextSubroutine PROVE EarlyInv'
<1> DEFINE a == Head(subRoutinePendingList)
<1>1. /\ phase = "idle" /\ subRoutinePendingList # <<>> /\ Start(a, sSize, FALSE)
  BY DEF NextSubroutine
<1>2. a \in Nat
  BY <1>1, HeadTailProperties DEF EarlyInv, Types
<1> HIDE DEF a
<1>3. /\ cur' \in Sub /\ cur'.addr = a /\ ~cur'.isr
      /\ keepOut \subseteq keepOut'
      /\ failed' = failed \/ failed' \in Stopped
      /\ failed' = "no" => Room(cur', g.fp) /\ (cur'.hw => "branch" \in keepOut')
  BY <1>1, <1>2, StartSub
<1>4. /\ phase' = "fill"
      /\ UNCHANGED <<fRangeListForFetch, fRangeListForLS, check_set,
                     fLSFillRangeList, fLoadNotSafeRangeList, fAccessMem, dmaVars, g,
                     subRoutinePendingList, subRoutineDoneList, leaked, jumps>>
  BY <1>1, Zenon DEF Start
<1> QED BY <1>1, <1>3, <1>4, StartStep DEF a

\* For an interrupt.
LEMMA FillISRStep == ASSUME EarlyInv, FillISR PROVE EarlyInv'
<1>1. phase = "isr_claimed" /\ Start(cur.addr, ISRSize, TRUE)
  BY DEF FillISR
<1>2. cur.addr \in Nat
  BY EarlyFacts
<1>3. /\ cur' \in Sub /\ cur'.addr = cur.addr /\ cur'.isr
      /\ keepOut \subseteq keepOut'
      /\ failed' = failed \/ failed' \in Stopped
      /\ failed' = "no" => Room(cur', g.fp) /\ (cur'.hw => "branch" \in keepOut')
  BY <1>1, <1>2, StartSub
<1>4. /\ phase' = "fill"
      /\ UNCHANGED <<fRangeListForFetch, fRangeListForLS, check_set,
                     fLSFillRangeList, fLoadNotSafeRangeList, fAccessMem, dmaVars, g,
                     subRoutinePendingList, subRoutineDoneList, leaked, jumps>>
  BY <1>1, Zenon DEF Start
<1> QED BY <1>1, <1>3, <1>4, StartStep

\* No branch target is left.
LEMMA WorklistDoneStep == ASSUME EarlyInv, WorklistDone PROVE EarlyInv'
<1>1. /\ phase = "idle" /\ phase' = "isr" /\ subRoutinePendingList = <<>>
      /\ UNCHANGED <<memVars, dmaVars, g, cur, subRoutinePendingList,
                     subRoutineDoneList, numSubRoutine, keepOut, leaked, jumps, k, sections>>
  BY DEF WorklistDone
<1>2. /\ Allocated /\ Types /\ Distinct /\ Worklist /\ Covered /\ Leaks
      /\ (g.dma => fLoadNotSafeRangeList = {})
  BY DEF EarlyInv
<1>3. Allocated' /\ Routines' = Routines
  BY <1>1, <1>2, NoClaim DEF memVars
<1>4. ~ISRActive /\ ~ISRActive' /\ (Lost => fRangeListForFetch' = {})
  BY <1>1 DEF ISRActive, Lost, memVars
<1>5. Distinct' /\ Covered' /\ Worklist'
  BY <1>1, <1>2, <1>3, <1>4, ListsKept
<1>6. Early' /\ Types' /\ Leaks' /\ Body'
  BY <1>1, <1>2 DEF Early, Types, Leaks, Body
<1>7. fLoadNotSafeRangeList' = fLoadNotSafeRangeList
  BY <1>1 DEF memVars
<1> QED BY <1>1, <1>2, <1>3, <1>5, <1>6, <1>7 DEF EarlyInv

\* An interrupt goes without a routine.
LEMMA NoISRMemoryStep == ASSUME EarlyInv, NoISRMemory PROVE EarlyInv'
<1>1. /\ phase = "isr" /\ phase' = phase /\ keepOut \subseteq keepOut'
      /\ UNCHANGED <<memVars, dmaVars, g, cur, subRoutinePendingList,
                     subRoutineDoneList, numSubRoutine, leaked, jumps, sections>>
  BY DEF NoISRMemory, ISRKeepOut
<1>2. /\ Allocated /\ Types /\ Distinct /\ Worklist /\ Covered /\ Leaks
      /\ (g.dma => fLoadNotSafeRangeList = {})
  BY DEF EarlyInv
<1>3. Allocated' /\ Routines' = Routines
  BY <1>1, <1>2, NoClaim DEF memVars
<1>4. /\ ~ISRActive /\ ~ISRActive' /\ subRoutinePendingList = <<>>
      /\ (Lost => fRangeListForFetch' = {})
  BY <1>1, <1>2 DEF ISRActive, Worklist, Lost, memVars
<1>5. Distinct' /\ Covered' /\ Worklist'
  BY <1>1, <1>2, <1>3, <1>4, ListsKept
<1>6. Early' /\ Types' /\ Leaks' /\ Body'
  BY <1>1, <1>2 DEF Early, Types, Leaks, Body
<1>7. fLoadNotSafeRangeList' = fLoadNotSafeRangeList
  BY <1>1 DEF memVars
<1> QED BY <1>1, <1>2, <1>3, <1>5, <1>6, <1>7 DEF EarlyInv

\* An instruction is added to the body.
LEMMA FillStep ==
  ASSUME EarlyInv, phase = "fill", failed = "no", cur.i < cur.limit, ~cur.done,
         NEW size \in {4, 12}, NEW n,
         \/ g.fp /\ n = MegaBytes
         \/ ~g.fp /\ n \in Onward(size) /\ (cur.hw => size = 4)
  PROVE  LET c == Put(n) IN
         /\ n \in Nat /\ c \in Sub /\ c.addr = cur.addr /\ (c.isr <=> cur.isr)
         /\ Room(c, g.fp) /\ (c.hw => "branch" \in keepOut)
         /\ c.i = cur.i + n
<1>1. g \in Options /\ cur \in Sub
  BY EarlyFacts
<1>2. Room(cur, g.fp) /\ (cur.hw => "branch" \in keepOut)
  BY DEF EarlyInv, Body
<1>3. n \in Nat /\ Room(Put(n), g.fp)
  BY <1>1, <1>2, PutRoom
<1>4. /\ Put(n) \in Sub /\ Put(n).addr = cur.addr /\ Put(n).isr = cur.isr
      /\ Put(n).hw = cur.hw /\ Put(n).i = cur.i + n
  BY <1>1, <1>3, PutFields
<1> QED BY <1>2, <1>3, <1>4, Zenon

\* The memory after an instruction, and the rest as far as it goes.
LEMMA InstrStep ==
  ASSUME EarlyInv, phase = "fill", phase' = phase, ~leaked, leaked' = leaked, g' = g,
         Allocated', Routines' = Routines, g.dma => fLoadNotSafeRangeList' = {},
         UNCHANGED <<subRoutinePendingList, subRoutineDoneList, jumps>>,
         keepOut' = KeepOut,
         cur' \in Sub, cur'.addr = cur.addr, cur'.isr <=> cur.isr,
         failed' = "no" => Room(cur', g.fp) /\ (cur'.hw => "branch" \in keepOut)
  PROVE  EarlyInv'
<1>1. Types /\ Distinct /\ Worklist /\ Covered
  BY DEF EarlyInv
<1>2. keepOut \subseteq keepOut'
  BY DEF KeepOut
<1>3. /\ (ISRActive' <=> ISRActive) /\ (ISRActive => cur'.addr = cur.addr)
      /\ (ISRActive => subRoutinePendingList = <<>>)
  BY <1>1 DEF ISRActive, Worklist
<1>4. Distinct' /\ Covered' /\ Worklist'
  <2>1. phase' = "fill" /\ ~cur'.isr =>
          subRoutinePendingList # <<>> /\ cur'.addr = Head(subRoutinePendingList)
    BY <1>1 DEF Worklist
  <2>2. ~Lost
    BY DEF Lost
  <2> QED BY <1>1, <1>2, <1>3, <2>1, <2>2, ListsKept
<1>5. Early' /\ Types' /\ Leaks' /\ Body'
  BY <1>1, <1>2 DEF Early, Types, Leaks, Body
<1> QED BY <1>4, <1>5 DEF EarlyInv

\* An instruction that touches no memory.
LEMMA PlainStep == ASSUME EarlyInv, Plain PROVE EarlyInv'
<1>1. /\ phase = "fill" /\ failed = "no" /\ cur.i < cur.limit /\ ~cur.done
      /\ ~leaked /\ ~g.fp /\ keepOut' = KeepOut
      /\ UNCHANGED <<memVars, dmaVars, g, phase, subRoutinePendingList,
                     subRoutineDoneList, numSubRoutine, leaked, jumps, k, sections>>
  BY DEF Plain, Filling, MoreToFill
<1>2. PICK n \in Onward(4) : cur' = Put(n)
  BY DEF Plain
<1>3. /\ cur' \in Sub /\ cur'.addr = cur.addr /\ (cur'.isr <=> cur.isr)
      /\ Room(cur', g.fp) /\ (cur'.hw => "branch" \in keepOut)
  BY <1>1, <1>2, FillStep
<1>4. Allocated /\ (g.dma => fLoadNotSafeRangeList = {})
  BY DEF EarlyInv
<1>5. Allocated' /\ Routines' = Routines
  BY <1>1, <1>4, NoClaim DEF memVars
<1>6. fLoadNotSafeRangeList' = fLoadNotSafeRangeList
  BY <1>1 DEF memVars
<1> QED BY <1>1, <1>3, <1>4, <1>5, <1>6, InstrStep

\* A load or a store, with its data or without any.
LEMMA LoadStoreStep == ASSUME EarlyInv, LoadStore PROVE EarlyInv'
<1>1. /\ phase = "fill" /\ failed = "no" /\ cur.i < cur.limit /\ ~cur.done
      /\ ~leaked /\ ~g.fp /\ keepOut' = KeepOut
      /\ UNCHANGED <<dmaVars, g, phase, subRoutinePendingList,
                     subRoutineDoneList, numSubRoutine, leaked, jumps, k, sections>>
  BY DEF LoadStore, Filling, MoreToFill
<1>2. PICK n \in Onward(4) : cur' = Put(n)
  BY DEF LoadStore
<1>3. /\ cur' \in Sub /\ cur'.addr = cur.addr /\ (cur'.isr <=> cur.isr)
      /\ Room(cur', g.fp) /\ (cur'.hw => "branch" \in keepOut)
  BY <1>1, <1>2, FillStep
<1>4. Allocated /\ (g.dma => fLoadNotSafeRangeList = {}) /\ g.data \subseteq Nat
  BY EarlyFacts, ProgramAssumption DEF EarlyInv
<1>5. PICK a \in g.data : \/ \E isLoad \in BOOLEAN : ClaimLS(a, isLoad)
                          \/ MayShare /\ AddLoadMultiUseRange(a)
  BY DEF LoadStore
<1>6. Allocated' /\ Routines' = Routines /\ (g.dma => fLoadNotSafeRangeList' = {})
  <2>1. CASE \E isLoad \in BOOLEAN : ClaimLS(a, isLoad)
    BY <1>1, <1>4, <2>1, DataClaim
  <2>2. CASE MayShare /\ AddLoadMultiUseRange(a)
    BY <1>1, <1>4, <2>2, SharedLoad DEF MayShare
  <2> QED BY <1>5, <2>1, <2>2
<1> QED BY <1>1, <1>3, <1>6, InstrStep

\* A floating point macro, with its store or stopped for want of one.
LEMMA MegaInstrStep == ASSUME EarlyInv, MegaInstr PROVE EarlyInv'
<1>1. /\ phase = "fill" /\ failed = "no" /\ cur.i < cur.limit /\ ~cur.done
      /\ g.fp /\ keepOut' = KeepOut /\ cur' = Put(MegaBytes)
      /\ UNCHANGED <<dmaVars, g, phase, subRoutinePendingList,
                     subRoutineDoneList, numSubRoutine, leaked, jumps, k, sections>>
  BY DEF MegaInstr, Filling, MoreToFill
<1>2. ~leaked
  BY <1>1 DEF EarlyInv, Leaks
<1>3. /\ cur' \in Sub /\ cur'.addr = cur.addr /\ (cur'.isr <=> cur.isr)
      /\ Room(cur', g.fp) /\ (cur'.hw => "branch" \in keepOut)
  BY <1>1, FillStep
<1>4. Allocated /\ (g.dma => fLoadNotSafeRangeList = {}) /\ g.data \subseteq Nat
  BY EarlyFacts, ProgramAssumption DEF EarlyInv
<1>5. Allocated' /\ Routines' = Routines /\ fLoadNotSafeRangeList' = fLoadNotSafeRangeList
  <2>1. CASE \E a \in g.data : ClaimLS(a, FALSE)
    BY <1>1, <1>4, <2>1, DataClaim
  <2>2. CASE /\ failed' = "no_store"
             /\ UNCHANGED <<fRangeListForFetch, fRangeListForLS, check_set,
                            fLSFillRangeList, fLoadNotSafeRangeList, fAccessMem>>
    BY <1>1, <1>4, <2>2, NoClaim DEF Stopped
  <2> QED BY <2>1, <2>2 DEF MegaInstr
<1> QED BY <1>1, <1>2, <1>3, <1>4, <1>5, InstrStep

\* A claim is made that no routine will use.
LEMMA LeakingBranchStep == ASSUME EarlyInv, LeakingBranch PROVE EarlyInv'
<1>1. /\ leaked'
      /\ UNCHANGED <<dmaVars, g, phase, cur, subRoutinePendingList,
                     subRoutineDoneList, numSubRoutine, keepOut, jumps, k, sections>>
  BY DEF LeakingBranch
<1>2. \/ phase = "start"
      \/ phase = "fill" /\ cur.i < cur.limit /\ ~g.fp /\ "branch" \notin keepOut
  BY DEF LeakingBranch, Filling, MoreToFill, MayBranch, KeepOut
<1>3. PICK t \in Targets : RegisterFound(t)
  BY DEF LeakingBranch
<1>4. /\ Allocated /\ Types /\ Distinct /\ Worklist /\ Covered /\ Body
      /\ (g.dma => fLoadNotSafeRangeList = {})
  BY DEF EarlyInv
<1>5. t \in Nat /\ ClaimFetch(Routine(t))
  BY <1>3, EarlyFacts, TargetNumber DEF RegisterFound, GetGenRangebyJump
<1>6. /\ Allocated' /\ failed' = failed /\ Routines' = Routines \cup {Routine(t)}
      /\ fLoadNotSafeRangeList' = fLoadNotSafeRangeList
  BY <1>1, <1>4, <1>5, CodeClaim
<1>7. (ISRActive' <=> ISRActive) /\ (ISRActive => subRoutinePendingList = <<>>)
  BY <1>1, <1>4 DEF ISRActive, Worklist
<1>8. Distinct' /\ Covered' /\ Worklist'
  <2>1. Routines \subseteq Routines' /\ ~Lost
    BY <1>2, <1>6 DEF Lost
  <2>2. phase' = "fill" /\ ~cur'.isr =>
          subRoutinePendingList # <<>> /\ cur'.addr = Head(subRoutinePendingList)
    BY <1>1, <1>4 DEF Worklist
  <2>3. phase' \notin {"idle", "fill"} => subRoutinePendingList = <<>>
    BY <1>1, <1>4 DEF Worklist
  <2> QED BY <1>1, <1>4, <1>7, <2>1, <2>2, <2>3, ListsKept
<1>9. Early' /\ Types' /\ Leaks' /\ Body'
  BY <1>1, <1>2, <1>4, <1>6 DEF Early, Types, Leaks, Body
<1> QED BY <1>1, <1>4, <1>6, <1>8, <1>9 DEF EarlyInv

\* A branch adds its target to the worklist, or goes astray.
LEMMA BranchInstrStep == ASSUME EarlyInv, BranchInstr PROVE EarlyInv'
<1>1. /\ phase = "fill" /\ failed = "no" /\ ~g.fp /\ keepOut' = KeepOut
      /\ leaked \/ (MoreToFill /\ MayBranch(KeepOut))
      /\ UNCHANGED <<dmaVars, g, phase, subRoutineDoneList, k, sections>>
  BY DEF BranchInstr
<1>2. PICK t \in Targets, size \in Sizes :
        /\ Branch(cur.addr + cur.i, t, size)
        /\ \E n \in Onward(size) : cur' = [Put(n) EXCEPT !.branches = @ + 1]
        /\ jumps' = jumps \cup {t}
        /\ subRoutinePendingList' = Append(subRoutinePendingList, t)
  BY DEF BranchInstr
<1>3. PICK n \in Onward(size) : cur' = [Put(n) EXCEPT !.branches = @ + 1]
  BY <1>2
<1>4. /\ Allocated /\ Types /\ Distinct /\ Worklist /\ Covered /\ Body /\ Leaks
      /\ (g.dma => fLoadNotSafeRangeList = {})
  BY DEF EarlyInv
<1>5. "branch" \notin keepOut /\ ~cur.hw /\ ~cur.isr /\ ~cur.done /\ cur.i < cur.limit
  <2>1. "branch" \notin keepOut /\ cur.i < cur.limit
    <3>1. CASE leaked
      BY <1>1, <1>4, <3>1 DEF Leaks
    <3>2. CASE MoreToFill /\ MayBranch(KeepOut)
      BY <3>2 DEF MoreToFill, MayBranch, KeepOut
    <3> QED BY <1>1, <3>1, <3>2
  <2>2. ~cur.hw
    BY <1>1, <1>4, <2>1 DEF Body
  <2>3. ~cur.isr
    BY <1>1, <1>4, <2>1 DEF Worklist, ISRActive
  <2>4. ~cur.done
    <3>1. Room(cur, g.fp)
      BY <1>1, <1>4 DEF Body
    <3> QED BY <2>2, <3>1 DEF Room
  <2> QED BY <2>1, <2>2, <2>3, <2>4
<1>6. /\ Allocated' /\ failed' = failed /\ leaked' = FALSE
      /\ t \in Nat /\ size \in {4, 12}
      /\ fLoadNotSafeRangeList' = fLoadNotSafeRangeList
      /\ \/ t = NoTarget /\ Routines' = Routines
         \/ \E m : NewRoutine(m) /\ t = Even(m[1]) /\ check_set' = check_set \cup {m}
  BY ZenonT(60), <1>1, <1>2, <1>4, EarlyFacts, BranchTaken
<1>7. PICK c : c = Put(n)
  OBVIOUS
<1>8. /\ c \in Sub /\ c.addr = cur.addr /\ ~c.isr
      /\ Room(c, g.fp) /\ (c.hw => "branch" \in keepOut)
  BY <1>1, <1>5, <1>6, <1>7, FillStep
<1>9. PICK d : d = [c EXCEPT !.branches = @ + 1]
  OBVIOUS
<1>10. /\ d \in Sub /\ d.addr = cur.addr /\ ~d.isr
       /\ Room(d, g.fp) /\ (d.hw => "branch" \in keepOut)
  <2>1. c.branches + 1 \in Nat
    BY <1>8 DEF Sub
  <2>2. d \in Sub
    BY <1>8, <1>9, <2>1 DEF Sub
  <2>3. /\ d.size = c.size /\ d.limit = c.limit /\ d.len = c.len
        /\ d.i = c.i /\ d.count = c.count /\ d.used = c.used /\ d.addr = c.addr
    BY <1>8, <1>9 DEF Sub
  <2>4. d.hw = c.hw /\ d.done = c.done /\ d.isr = c.isr
    BY <1>8, <1>9 DEF Sub
  <2> QED BY ZenonT(60), <1>8, <2>2, <2>3, <2>4 DEF Room
<1>11. cur' = d
  BY <1>3, <1>7, <1>9
<1>12. ~ISRActive /\ ~ISRActive'
  BY <1>1, <1>5, <1>10, <1>11 DEF ISRActive
<1>13. Distinct' /\ Covered' /\ subRoutinePendingList' \in Seq(Nat)
  <2>1. /\ Distinct' /\ Listed(t)' /\ \A b : Listed(b) => Listed(b)'
        /\ subRoutinePendingList' \in Seq(Nat)
    BY <1>1, <1>2, <1>4, <1>6, <1>12, EarlyFacts, TargetAdded
  <2>2. \A b \in jumps : Listed(b)
    BY <1>1, <1>4 DEF Covered, Lost
  <2>3. \A b \in jumps' : Listed(b)'
    BY <1>2, <2>1, <2>2
  <2> QED BY <1>1, <2>1, <2>3 DEF Covered
<1>14. Worklist'
  <2>1. subRoutinePendingList # <<>> /\ cur.addr = Head(subRoutinePendingList)
    BY <1>1, <1>4, <1>5 DEF Worklist
  <2>2. /\ subRoutinePendingList' # <<>>
        /\ Head(subRoutinePendingList') = Head(subRoutinePendingList)
    <3>1. subRoutinePendingList \in Seq(Nat)
      BY <1>4 DEF Types
    <3>2. PICK P : P = subRoutinePendingList
      OBVIOUS
    <3>3. Append(P, t) # <<>> /\ Head(Append(P, t)) = Head(P)
      BY <1>6, <2>1, <3>1, <3>2, AppendProperties, EmptySeq, LenProperties
    <3> QED BY <1>2, <3>2, <3>3
  <2> QED BY <1>1, <1>10, <1>11, <1>12, <2>1, <2>2 DEF Worklist
<1>15. keepOut \subseteq keepOut'
  BY <1>1 DEF KeepOut
<1>16. Early' /\ Types' /\ Leaks' /\ Body'
  BY <1>1, <1>4, <1>6, <1>10, <1>11, <1>13, <1>15 DEF Early, Types, Leaks, Body
<1> QED BY <1>1, <1>4, <1>6, <1>13, <1>14, <1>16 DEF EarlyInv

\* The subroutine moves from the worklist to those done.
LEMMA EndSubroutineStep == ASSUME EarlyInv, EndSubroutine PROVE EarlyInv'
<1> DEFINE used == cur.used + Ending + JumpBytes
<1>1. /\ phase = "fill" /\ failed = "no" /\ ~leaked
      /\ subRoutineDoneList' =
           Append(subRoutineDoneList, [addr |-> cur.addr, used |-> used])
      /\ subRoutinePendingList' =
           IF cur.isr THEN subRoutinePendingList ELSE Tail(subRoutinePendingList)
      /\ phase' = (IF cur.isr THEN "isr" ELSE "idle")
      /\ cur' = NoSub
      /\ UNCHANGED <<fRangeListForFetch, fRangeListForLS, check_set,
                     fLSFillRangeList, fLoadNotSafeRangeList, fAccessMem, dmaVars, g,
                     numSubRoutine, keepOut, leaked, jumps, sections>>
  BY DEF EndSubroutine, Rest
<1>2. failed' = failed \/ failed' \in Stopped
  BY DEF EndSubroutine, Stopped
<1>3. /\ Allocated /\ Types /\ Distinct /\ Worklist /\ Covered /\ Body
      /\ (g.dma => fLoadNotSafeRangeList = {})
  BY DEF EarlyInv
<1>4. used \in 1..MAX_SUB_ROUTINE_SIZE
  <2>1. Room(cur, g.fp)
    BY <1>1, <1>3 DEF Body
  <2> QED BY <2>1, EarlyFacts, RoomLeft
<1>5. Allocated' /\ Routines' = Routines
  BY <1>1, <1>2, <1>3, NoClaim
<1> HIDE DEF used
<1>6. /\ Distinct' /\ Covered' /\ Worklist'
      /\ subRoutinePendingList' \in Seq(Nat)
      /\ subRoutineDoneList' \in Seq([addr : Nat, used : 1..MAX_SUB_ROUTINE_SIZE])
  BY <1>1, <1>3, <1>4, <1>5, RoutineDone
<1>7. NoSub \in Sub
  BY DEF NoSub, Sub, NoTarget
<1>8. phase' \in {"isr", "idle"}
  BY <1>1, EarlyFacts
<1>9. Early' /\ Types' /\ Leaks' /\ Body'
  BY <1>1, <1>3, <1>6, <1>7, <1>8 DEF Early, Types, Leaks, Body
<1> QED BY <1>1, <1>3, <1>5, <1>6, <1>9 DEF EarlyInv

\* The claim for an interrupt routine.
LEMMA ClaimISRStep == ASSUME EarlyInv, ClaimISR PROVE EarlyInv'
<1>1. /\ phase = "isr" /\ phase' = "isr_claimed" /\ keepOut' = ISRKeepOut
      /\ UNCHANGED <<dmaVars, g, subRoutinePendingList, subRoutineDoneList,
                     numSubRoutine, leaked, k, sections>>
  BY DEF ClaimISR
<1>2. PICK f \in Draw : /\ GetGenRangebyJump(f) /\ jumps' = jumps \cup {Even(f)}
                      /\ cur' = [NoSub EXCEPT !.addr = Even(f)]
  BY DEF ClaimISR
<1>3. /\ Allocated /\ Types /\ Distinct /\ Worklist /\ Covered /\ Leaks
      /\ (g.dma => fLoadNotSafeRangeList = {})
  BY DEF EarlyInv
<1>4. f \in Nat /\ ClaimFetch(Routine(f))
  <2>1. NoTarget \in Targets
    BY DEF Targets
  <2> QED BY <1>2, <2>1, EarlyFacts, TargetNumber DEF GetGenRangebyJump
<1>5. /\ Allocated' /\ failed' = failed /\ Routines' = Routines \cup {Routine(f)}
      /\ \A c \in check_set : ~Meet(c, Routine(f))
      /\ PROGRAM_START <= f
      /\ fLoadNotSafeRangeList' = fLoadNotSafeRangeList
  BY <1>1, <1>3, <1>4, CodeClaim
<1>6. Routine(f)[1] = f /\ Routine(f) = Routine(Routine(f)[1])
  BY <1>4, Addresses
<1>7. NewRoutine(Routine(f))
  BY <1>4, <1>5, <1>6 DEF NewRoutine
<1>8. PICK a : a = Even(f)
  OBVIOUS
<1>9. /\ a \in Nat \ {NoTarget} /\ ~Claimed(a) /\ At(Routines', a)
      /\ \A b : Claimed(b) => At(Routines', b)
  BY <1>6, <1>7, <1>8, EarlyFacts, NewAddress
<1>10. cur' \in Sub /\ cur'.addr = a
  <2>1. NoSub \in Sub
    BY DEF NoSub, Sub, NoTarget
  <2> QED BY <1>2, <1>8, <1>9, <2>1 DEF Sub
<1>11. ISRActive' /\ subRoutinePendingList = <<>> /\ ~ISRActive
  BY <1>1, <1>3 DEF ISRActive, Worklist
<1>12. Distinct'
  BY <1>1, <1>3, <1>9 DEF Distinct, Claimed
<1>13. Covered'
  <2>1. \A b : Listed(b) => Listed(b)'
    BY <1>1, <1>11 DEF Listed
  <2>2. Listed(a)'
    BY <1>10, <1>11 DEF Listed
  <2>3. fRangeListForFetch # {}
    BY <1>4 DEF ClaimFetch
  <2>4. \A b \in jumps : Listed(b)
    BY <1>3, <2>3 DEF Covered, Lost
  <2>5. \A b \in jumps' : Listed(b)'
    BY <1>2, <1>8, <2>1, <2>2, <2>4
  <2> QED BY <1>1, <2>5 DEF Covered
<1>14. Worklist'
  <2>1. \A j \in 1..Len(subRoutineDoneList) : subRoutineDoneList[j].addr # a
    BY <1>3, <1>9 DEF Distinct
  <2>2. "branch" \in keepOut'
    BY <1>1 DEF ISRKeepOut
  <2> QED BY <1>1, <1>9, <1>10, <1>11, <2>1, <2>2 DEF Worklist, Claimed
<1>15. Early' /\ Types' /\ Leaks' /\ Body'
  BY <1>1, <1>3, <1>10 DEF Early, Types, Leaks, Body
<1> QED BY <1>1, <1>3, <1>5, <1>12, <1>13, <1>14, <1>15 DEF EarlyInv
-----------------------------------------------------------------------------
(***************************************************************************)
(* The DMA engines and the data sections.                                  *)
(***************************************************************************)
\* The program is complete: the engines change nothing of it.
LEMMA LateStep ==
  ASSUME Types, Distinct, Worklist, Covered, Leaks,
         phase \in {"isr", "dma", "print"}, phase' \in {"dma", "print", "done"},
         fRangeListForFetch' \in {fRangeListForFetch, {}},
         UNCHANGED <<check_set, g, cur, subRoutinePendingList, subRoutineDoneList,
                     keepOut, leaked, jumps>>
  PROVE  Types' /\ Distinct' /\ Worklist' /\ Covered' /\ Leaks' /\ Body'
<1>1. Routines' = Routines
  BY DEF Routines
<1>2. /\ ~ISRActive /\ ~ISRActive' /\ subRoutinePendingList = <<>>
      /\ (Lost => fRangeListForFetch' = {})
  BY DEF ISRActive, Worklist, Lost
<1>3. Distinct' /\ Worklist' /\ Covered'
  BY <1>1, <1>2, ListsKept
<1>4. Types' /\ Leaks' /\ Body'
  BY DEF Types, Leaks, Body
<1> QED BY <1>3, <1>4

\* The engines share what is left of the free ranges.
LEMMA StartDMAStep == ASSUME EarlyInv, StartDMA PROVE ProgramInv'
<1>1. /\ phase = "isr"
      /\ UNCHANGED <<check_set, fLSFillRangeList, fLoadNotSafeRangeList, fAccessMem,
                     failed, engine, fDescrList, g, cur, subRoutinePendingList,
                     subRoutineDoneList, numSubRoutine, keepOut, leaked, jumps, k,
                     sections>>
  BY DEF StartDMA
<1>2. /\ Memory /\ Filled /\ Finite /\ Idle /\ LowCode
      /\ Types /\ Distinct /\ Worklist /\ Covered /\ Leaks
      /\ (g.dma => fLoadNotSafeRangeList = {})
  BY Zenon DEF EarlyInv, Allocated
<1>3. Disjoint(fRangeListForFetch, fRangeListForLS, check_set)
  BY <1>2 DEF Memory
<1>4. Routines' = Routines
  BY <1>1 DEF Routines
<1>5. AssertionsHold' /\ failed' # "dma_range" /\ EngineValued' /\ Filled'
  BY <1>1, <1>2 DEF Memory, AssertionsHold, EngineValued, Filled, Positions
<1>6. CASE /\ g.dma /\ fRangeListForFetch' = {} /\ fRangeListForLS' = {} /\ phase' = "dma"
           /\ \E fetch \in SortedBy(CompareRangeAddr(fRangeListForFetch)),
                 ls \in SortedBy(CompareRangeAddr(fRangeListForLS)) :
                   Redistribute(fetch \o ls)
  <2>1. EngineInv'
    <3>1. engine = 0 /\ fDescrList = [e \in 0..1 |-> <<>>]
      BY <1>2 DEF Idle
    <3>2. IsFiniteSet(fRangeListForFetch) /\ IsFiniteSet(fRangeListForLS)
      BY <1>2 DEF Finite
    <3> QED BY <1>1, <1>3, <1>6, <3>1, <3>2, FirstShares
  <2>2. Disjoint({}, {}, check_set)
    BY <1>3 DEF Disjoint
  <2>3. Unclaimed'
    BY <1>1, <1>2, <1>6 DEF Memory, Unclaimed
  <2>4. Memory'
    BY <1>1, <1>5, <1>6, <2>2, <2>3 DEF Memory
  <2>5. Finite'
    BY <1>1, <1>2, <1>6, FS_EmptySet DEF Finite
  <2>6. Engines'
    BY <1>1, <1>2, <1>6, <2>1 DEF Engines, Early, Idle
  <2>7. LowCode'
    BY <1>2, <1>4, <1>6 DEF LowCode
  <2>8. Types' /\ Distinct' /\ Worklist' /\ Covered' /\ Leaks' /\ Body' /\ Printed'
    BY <1>1, <1>2, <1>6, LateStep DEF Printed
  <2> QED BY <1>5, <2>4, <2>5, <2>6, <2>7, <2>8 DEF ProgramInv
<1>7. CASE /\ ~g.dma /\ phase' = "print"
           /\ UNCHANGED <<collecting, fetchList, lsList, fRangeListForFetch, fRangeListForLS>>
  <2>1. Memory'
    BY <1>1, <1>2, <1>5, <1>7 DEF Memory, Unclaimed
  <2>2. Finite' /\ LowCode' /\ Idle'
    BY <1>1, <1>2, <1>4, <1>7 DEF Finite, LowCode, Idle
  <2>3. (check_set \subseteq Ranges)'
    BY <1>1, <1>3 DEF Disjoint
  <2>4. EngineInv'
    BY <2>2, <2>3, IdleEngine, PTL
  <2>5. Engines'
    BY <1>1, <1>2, <1>7, <2>2, <2>4 DEF Engines
  <2>6. Types' /\ Distinct' /\ Worklist' /\ Covered' /\ Leaks' /\ Body' /\ Printed'
    BY <1>1, <1>2, <1>7, LateStep DEF Printed
  <2> QED BY <1>5, <2>1, <2>2, <2>5, <2>6 DEF ProgramInv
<1> QED BY <1>6, <1>7 DEF StartDMA

\* An engine takes a transfer, or prints its chain.
LEMMA DMAStep == ASSUME ProgramInv, DMA PROVE ProgramInv'
<1>1. /\ phase = "dma" /\ failed = "no"
      /\ UNCHANGED <<fRangeListForFetch, fRangeListForLS, check_set,
                     fLoadNotSafeRangeList, g, cur, subRoutinePendingList,
                     subRoutineDoneList, numSubRoutine, keepOut, leaked, jumps, k,
                     sections>>
  BY DEF DMA
<1>2. /\ Memory /\ Filled /\ Finite /\ Engines /\ LowCode
      /\ Types /\ Distinct /\ Worklist /\ Covered /\ Leaks
  BY Zenon DEF ProgramInv
<1>3. /\ EngineInv /\ EngineValued /\ engine \in 0..1 /\ g.dma
      /\ g.sizes \in SUBSET Size
  BY <1>1, <1>2, ProgramAssumption DEF Engines, Memory, Types, Size
<1>4. Routines' = Routines
  BY <1>1 DEF Routines
<1>5. /\ EngineInv' /\ EngineValued' /\ Filled' /\ failed' = failed
      /\ IsFiniteSet(fLSFillRangeList')
      /\ phase' \in {"dma", "print"} /\ (phase' = "dma" => engine' \in 0..1)
  <2>1. CASE AllocateTCB(g) /\ UNCHANGED <<phase, fLSFillRangeList, fAccessMem>>
    <3>1. EngineInv' /\ failed' = failed /\ engine' = engine
      BY <1>1, <1>3, <2>1, AllocateInv
    <3>2. \A e \in 0..1 : e < engine => fDescrList'[e] = fDescrList[e]
      <4>1. \/ fDescrList' = fDescrList
            \/ \E l : fDescrList' = [fDescrList EXCEPT ![engine] = l]
        <5>1. CASE \E one, two, low, code : NextTCB(g, Pair, one, two, low, code)
          <6>1. PICK one, two, low, code : NextTCB(g, Pair, one, two, low, code)
            BY <5>1
          <6> QED BY <6>1, Zenon DEF NextTCB
        <5>2. \/ fDescrList' = fDescrList
              \/ \E one, two, low, code : NextTCB(g, Pair, one, two, low, code)
          BY <2>1, Zenon DEF AllocateTCB
        <5> QED BY <5>1, <5>2
      <4>2. fDescrList \in [0..1 -> Seq(TCB)]
        BY <1>3 DEF EngineInv, EngineTypes
      <4> QED BY <1>3, <4>1, <4>2
    <3>3. EngineValued' /\ Filled'
      BY <1>1, <1>2, <2>1, <3>1, <3>2 DEF Memory, EngineValued, Filled, Positions
    <3> QED BY <1>1, <1>2, <1>3, <2>1, <3>1, <3>3 DEF Finite
  <2>2. CASE UpdateFields /\ phase' = (IF engine = 1 THEN "print" ELSE phase)
    <3>1. EngineInv' /\ failed' = failed /\ engine' = engine + 1
      BY <1>1, <1>3, <2>2, ValuesOnce, FinishInv
    <3>2. /\ EngineValued' /\ IsFiniteSet(fLSFillRangeList')
          /\ \A c \in fLSFillRangeList' :
               \/ c \in fLSFillRangeList
               \/ \E n \in Positions(engine) : c \in Own(fDescrList[engine][n])
      BY <1>1, <1>2, <1>3, <2>2, FinishFills DEF Finite
    <3>3. fDescrList' = fDescrList
      BY <2>2, Zenon DEF UpdateFields
    <3>4. Filled'
      <4> SUFFICES ASSUME NEW c \in fLSFillRangeList'
                   PROVE  \/ c \in check_set /\ c[2] = c[1] + LS_MIN_BUFFER_SIZE
                          \/ \E e \in 0..1 : e < engine + 1 /\
                               \E n \in Positions(e) : c \in Own(fDescrList[e][n])
        BY <1>1, <3>1, <3>3 DEF Filled, Positions
      <4>1. CASE c \in fLSFillRangeList
        <5>1. \A e \in 0..1 : e < engine => e < engine + 1
          BY <1>3
        <5> QED BY <1>2, <4>1, <5>1 DEF Filled
      <4>2. CASE \E n \in Positions(engine) : c \in Own(fDescrList[engine][n])
        BY <1>3, <4>2
      <4> QED BY <3>2, <4>1, <4>2
    <3> QED BY <1>1, <1>3, <2>2, <3>1, <3>2, <3>4
  <2> QED BY <2>1, <2>2 DEF DMA
<1>6. Memory'
  <2>1. fLoadNotSafeRangeList' = {}
    BY <1>1, <1>2, <1>3 DEF Engines
  <2>2. Unclaimed'
    BY <2>1 DEF Unclaimed
  <2> QED BY <1>1, <1>2, <1>5, <2>2 DEF Memory, AssertionsHold
<1>7. Finite' /\ LowCode'
  BY <1>1, <1>2, <1>4, <1>5 DEF Finite, LowCode
<1>8. Engines'
  BY <1>1, <1>2, <1>3, <1>5 DEF Engines, Early
<1>9. Types' /\ Distinct' /\ Worklist' /\ Covered' /\ Leaks' /\ Body' /\ Printed'
  BY <1>1, <1>2, <1>5, LateStep DEF Printed
<1> QED BY <1>5, <1>6, <1>7, <1>8, <1>9 DEF ProgramInv

\* What the engines hold stays when their lists and the claims do.
LEMMA EnginesKept ==
  ASSUME EngineInv, UNCHANGED <<check_set, engine, fetchList, lsList, fDescrList>>
  PROVE  EngineInv' /\ (Idle' <=> Idle)
<1>1. /\ check_set' = check_set /\ engine' = engine /\ fetchList' = fetchList
      /\ lsList' = lsList /\ fDescrList' = fDescrList
  OBVIOUS
<1>2. EngineTypes' /\ PoolUnclaimed'
  BY <1>1 DEF EngineInv, EngineTypes, PoolUnclaimed
<1>3. AreasFree'
  BY <1>1 DEF EngineInv, AreasFree, Positions
<1>4. AreasApart' /\ RoutinesApart'
  <2>1. AreasApart'
    BY SMTT(30), <1>1 DEF EngineInv, AreasApart, Positions
  <2>2. RoutinesApart'
    BY <1>1 DEF EngineInv, RoutinesApart, Positions
  <2> QED BY <2>1, <2>2
<1>5. Chained' /\ StaysInside'
  <2>1. Chained'
    BY <1>1 DEF EngineInv, Chained, Positions
  <2>2. StaysInside'
    BY <1>1 DEF EngineInv, StaysInside, Positions
  <2> QED BY <2>1, <2>2
<1>6. Idle' <=> Idle
  BY <1>1 DEF Idle
<1> QED BY <1>2, <1>3, <1>4, <1>5, <1>6 DEF EngineInv

\* The sections are merged and printed.
LEMMA PrintStep == ASSUME ProgramInv, PrintAssemlySections PROVE ProgramInv'
<1>1. /\ phase = "print" /\ phase' = "done"
      /\ sections' = UnifyLSList(fLSFillRangeList \cup fLoadNotSafeRangeList)
      /\ UNCHANGED <<memVars, dmaVars, g, cur, subRoutinePendingList,
                     subRoutineDoneList, numSubRoutine, keepOut, leaked, jumps, k>>
  BY DEF PrintAssemlySections
<1>2. /\ Memory /\ Filled /\ Finite /\ Engines /\ LowCode
      /\ Types /\ Distinct /\ Worklist /\ Covered /\ Leaks
  BY Zenon DEF ProgramInv
<1>3. UNCHANGED <<fRangeListForFetch, fRangeListForLS, check_set, fLSFillRangeList,
                  fLoadNotSafeRangeList, fAccessMem, failed, engine, collecting,
                  fetchList, lsList, fDescrList>>
  BY <1>1 DEF memVars, dmaVars
<1>4. Memory' /\ Filled' /\ Finite'
  BY <1>2, <1>3 DEF Memory, Unclaimed, EngineValued, AssertionsHold, Filled, Finite, Positions
<1>5. LowCode'
  BY <1>2, <1>3 DEF LowCode, Routines
<1>6. EngineInv' /\ (Idle' <=> Idle)
  BY <1>2, <1>3, EnginesKept DEF Engines
<1>7. Engines'
  BY <1>1, <1>2, <1>3, <1>6 DEF Engines, Early
<1>8. Types' /\ Distinct' /\ Worklist' /\ Covered' /\ Leaks' /\ Body'
  BY <1>1, <1>2, <1>3, LateStep
<1>9. Printed'
  BY <1>1, <1>3 DEF Printed
<1> QED BY <1>4, <1>5, <1>7, <1>8, <1>9 DEF ProgramInv
-----------------------------------------------------------------------------
(***************************************************************************)
(* The invariant holds.                                                    *)
(***************************************************************************)
LEMMA ProgramStart == Init => EarlyInv
<1> SUFFICES ASSUME Init PROVE EarlyInv
  OBVIOUS
<1>1. /\ MemInit /\ DmaInit /\ g \in Options
      /\ phase = "start" /\ cur = NoSub
      /\ subRoutinePendingList = <<>> /\ subRoutineDoneList = <<>>
      /\ leaked = FALSE /\ jumps = {}
  BY DEF Init
<1>2. PICK m \in Initial : fRangeListForFetch = m[1] /\ fRangeListForLS = m[2]
  BY <1>1 DEF MemInit
<1>3. /\ check_set = {} /\ fLSFillRangeList = {} /\ fLoadNotSafeRangeList = {} /\ failed = "no"
  BY <1>1 DEF MemInit
<1>4. Routines = {}
  BY <1>3 DEF Routines
<1>5. Filled /\ Idle
  BY <1>1, <1>3 DEF Filled, Idle, DmaInit
<1>6. Finite
  BY <1>2, <1>3, ProgramAssumption, FS_EmptySet DEF Finite
<1>7. LowCode
  BY <1>2, <1>4, ProgramAssumption DEF LowCode
<1>8. Allocated
  BY <1>1, <1>3, <1>5, <1>6, <1>7, InitInv, AllocatedMemory
<1>9. /\ <<>> \in Seq(Nat) /\ <<>> \in Seq([addr : Nat, used : 1..MAX_SUB_ROUTINE_SIZE])
      /\ Len(<<>>) = 0
  BY EmptySeq
<1>10. NoSub \in Sub
  BY DEF NoSub, Sub, NoTarget
<1>11. Types
  BY <1>1, <1>9, <1>10 DEF Types
<1>12. Distinct /\ Covered
  BY <1>1, <1>4, <1>9 DEF Distinct, Covered
<1>13. Early /\ Worklist /\ Leaks /\ Body
  BY <1>1 DEF Early, Worklist, ISRActive, Leaks, Body
<1> QED BY <1>3, <1>8, <1>11, <1>12, <1>13 DEF EarlyInv

\* A stutter.
LEMMA ProgramUnchanged == ASSUME ProgramInv, UNCHANGED vars PROVE ProgramInv'
<1>1. /\ UNCHANGED <<fRangeListForFetch, fRangeListForLS, check_set, fLSFillRangeList,
                     fLoadNotSafeRangeList, fAccessMem, failed>>
      /\ UNCHANGED <<engine, collecting, fetchList, lsList, fDescrList>>
      /\ UNCHANGED <<g, phase, cur, subRoutinePendingList, subRoutineDoneList,
                     numSubRoutine, keepOut, leaked, jumps, k, sections>>
  BY DEF vars, memVars, dmaVars, progVars
<1>2. /\ Memory /\ Filled /\ Finite /\ Engines /\ LowCode
      /\ Types /\ Distinct /\ Worklist /\ Covered /\ Leaks /\ Body /\ Printed
  BY Zenon DEF ProgramInv
<1>3. Routines' = Routines /\ (ISRActive' <=> ISRActive)
  BY <1>1 DEF Routines, ISRActive
<1>4. Memory' /\ Filled' /\ Finite' /\ LowCode'
  BY <1>1, <1>2, <1>3
     DEF Memory, Unclaimed, EngineValued, AssertionsHold, Filled, Finite, LowCode, Positions
<1>5. Engines'
  <2>1. EngineInv' /\ (Idle' <=> Idle)
    BY <1>1, <1>2, EnginesKept DEF Engines
  <2> QED BY <1>1, <1>2, <2>1 DEF Engines, Early
<1>6. Types' /\ Leaks' /\ Body' /\ Printed'
  BY <1>1, <1>2 DEF Types, Leaks, Body, Printed
<1>7. Distinct' /\ Worklist' /\ Covered'
  BY <1>1, <1>2, <1>3 DEF Distinct, Worklist, Covered, Lost, Listed, Claimed
<1> QED BY <1>4, <1>5, <1>6, <1>7 DEF ProgramInv

\* Every step preserves the invariant.
LEMMA ProgramNext == ProgramInv /\ [Next]_vars => ProgramInv'
<1> SUFFICES ASSUME ProgramInv, [Next]_vars PROVE ProgramInv'
  OBVIOUS
<1>1. Early => EarlyInv
  BY EarlyProgram
<1>2. EarlyInv' => ProgramInv'
  BY EarlyProgram, PTL
<1>0. CASE NoBranch
  BY <1>0, <1>1, <1>2, NoBranchStep DEF Early, NoBranch
<1>3. CASE FirstBranch
  BY <1>1, <1>2, <1>3, FirstBranchStep DEF Early, FirstBranch
<1>4. CASE NextSubroutine
  BY <1>1, <1>2, <1>4, NextSubroutineStep DEF Early, NextSubroutine
<1>5. CASE Plain
  BY <1>1, <1>2, <1>5, PlainStep DEF Early, Plain, Filling
<1>6. CASE LoadStore
  BY <1>1, <1>2, <1>6, LoadStoreStep DEF Early, LoadStore, Filling
<1>7. CASE MegaInstr
  BY <1>1, <1>2, <1>7, MegaInstrStep DEF Early, MegaInstr, Filling
<1>8. CASE LeakingBranch
  BY <1>1, <1>2, <1>8, LeakingBranchStep DEF Early, LeakingBranch, Filling
<1>9. CASE BranchInstr
  BY <1>1, <1>2, <1>9, BranchInstrStep DEF Early, BranchInstr
<1>10. CASE EndSubroutine
  BY <1>1, <1>2, <1>10, EndSubroutineStep DEF Early, EndSubroutine
<1>11. CASE WorklistDone
  BY <1>1, <1>2, <1>11, WorklistDoneStep DEF Early, WorklistDone
<1>12. CASE ClaimISR
  BY <1>1, <1>2, <1>12, ClaimISRStep DEF Early, ClaimISR
<1>13. CASE FillISR
  BY <1>1, <1>2, <1>13, FillISRStep DEF Early, FillISR
<1>14. CASE NoISRMemory
  BY <1>1, <1>2, <1>14, NoISRMemoryStep DEF Early, NoISRMemory
<1>15. CASE StartDMA
  BY <1>1, <1>15, StartDMAStep DEF Early, StartDMA
<1>16. CASE DMA
  BY <1>16, DMAStep
<1>17. CASE PrintAssemlySections
  BY <1>17, PrintStep
<1>18. CASE UNCHANGED vars
  BY <1>18, ProgramUnchanged
<1> QED
  BY <1>0, <1>3, <1>4, <1>5, <1>6, <1>7, <1>8, <1>9, <1>10, <1>11, <1>12, <1>13, <1>14,
     <1>15, <1>16, <1>17, <1>18 DEF Next

\* The invariant of a generated test: the lists, the claims and the engines
\* agree about what memory is whose.
THEOREM ProgramInvariant == Spec => []ProgramInv
<1>1. Init => ProgramInv
  BY ProgramStart, EarlyProgram
<1>2. ProgramInv /\ [Next]_vars => ProgramInv'
  BY ProgramNext
<1> QED BY <1>1, <1>2, PTL DEF Spec
-----------------------------------------------------------------------------
(***************************************************************************)
(* What the invariant says of a generated test.                            *)
(***************************************************************************)
LEMMA InvFacts ==
  ASSUME ProgramInv
  PROVE  /\ Disjoint(fRangeListForFetch, fRangeListForLS, check_set) /\ Unclaimed
         /\ AssertionsHold /\ failed # "dma_range"
         /\ EngineInv /\ Filled /\ Finite /\ LowCode
         /\ Types /\ Distinct /\ Worklist /\ Covered /\ Printed
BY Zenon DEF ProgramInv, Memory, Engines

\* The properties of the allocator.
LEMMA InvMemoryOK == ProgramInv => MemoryOK
<1> SUFFICES ASSUME ProgramInv PROVE MemoryOK
  OBVIOUS
<1>1. /\ Disjoint(fRangeListForFetch, fRangeListForLS, check_set) /\ Unclaimed
      /\ AssertionsHold
  BY InvFacts
<1>2. FreeIsRoomy
  BY <1>1 DEF Disjoint, FreeIsRoomy, Free
<1>3. FreeIsUnclaimed
  <2>1. fRangeListForFetch \cap fRangeListForLS = {}
    <3> SUFFICES ASSUME NEW r \in fRangeListForFetch \cap fRangeListForLS PROVE FALSE
      OBVIOUS
    <3>1. r \in Ranges /\ ~Meet(r, r)
      BY <1>1 DEF Disjoint
    <3> QED BY <3>1, MeetItself
  <2> QED BY <1>1, <2>1 DEF Disjoint, FreeIsUnclaimed, Free, AllApart, Apart
<1>4. ClaimsApart
  BY <1>1 DEF Disjoint, Unclaimed, ClaimsApart, AllApart, Apart
<1> QED BY <1>1, <1>2, <1>3, <1>4 DEF MemoryOK

\* The bytes of a routine lie in the claim it has the address from.
LEMMA CodeInClaim ==
  ASSUME ProgramInv, NEW n \in Written
  PROVE  LET c == CodeArea(subRoutineDoneList[n]) IN
         \E m \in Routines :
           /\ m \in check_set /\ m \in Ranges
           /\ subRoutineDoneList[n].addr = Even(m[1])
           /\ c \in Ranges /\ m[1] <= c[1] /\ c[2] <= m[2]
<1> DEFINE d == subRoutineDoneList[n]
           Entry == [addr : Nat, used : 1..MAX_SUB_ROUTINE_SIZE]
<1>1. n \in 1..Len(subRoutineDoneList) /\ d.addr # NoTarget
  BY DEF Written
<1>2. d \in Entry
  BY <1>1, InvFacts, Elements DEF Types
<1>3. PICK m \in Routines : d.addr = Even(m[1])
  BY <1>1, InvFacts DEF Distinct, Claimed, At
<1>4. m \in check_set /\ m \in Ranges /\ m = Routine(m[1])
  BY <1>3, InvFacts DEF Routines, Disjoint
<1>5. m[1] \in Nat /\ m[2] = m[1] + MAX_SUB_ROUTINE_SIZE
  BY <1>4 DEF Ranges, MemRange, Routine
<1>6. /\ d.addr \in Nat /\ m[1] <= d.addr /\ d.addr <= m[1] + 1
      /\ d.used \in Nat /\ 1 <= d.used /\ d.used <= MAX_SUB_ROUTINE_SIZE
  <2> HIDE DEF d
  <2>1. d.addr = Even(m[1]) /\ d.used \in 1..MAX_SUB_ROUTINE_SIZE
    BY <1>2, <1>3
  <2>2. Even(m[1]) \in Nat /\ m[1] <= Even(m[1]) /\ Even(m[1]) <= m[1] + 1
    BY <1>5, Addresses
  <2> QED BY <2>1, <2>2, SizeAssumption
<1> HIDE DEF d
<1>7. LET c == CodeArea(d) IN c \in Ranges /\ m[1] <= c[1] /\ c[2] <= m[2]
  BY <1>5, <1>6, SizeAssumption DEF CodeArea, Ranges, MemRange
<1> QED BY <1>3, <1>4, <1>7 DEF d

\* A routine lies in a claim.
LEMMA InvSubroutineFits == ProgramInv => SubroutineFits
<1> SUFFICES ASSUME ProgramInv, NEW c \in Code
             PROVE  \E m \in check_set : m[1] <= c[1] /\ c[2] <= m[2]
  BY DEF SubroutineFits
<1>1. PICK n \in Written : c = CodeArea(subRoutineDoneList[n])
  BY DEF Code
<1> QED BY <1>1, CodeInClaim

\* Where a branch goes has a routine: the worklist is empty at the end.
LEMMA InvOnlyFirstBranchLost == ProgramInv => OnlyFirstBranchLost
<1> SUFFICES ASSUME ProgramInv, phase = "done"
             PROVE  /\ subRoutineDoneList # <<>> => jumps \ {NoTarget} \subseteq Starts
                    /\ subRoutineDoneList = <<>> => \A s, t \in jumps : s = t /\ t # NoTarget
  BY DEF OnlyFirstBranchLost
<1>1. subRoutinePendingList = <<>> /\ ~ISRActive /\ Covered
  BY InvFacts DEF Worklist, ISRActive
<1>2. CASE Lost
  BY <1>2 DEF Lost
<1>3. CASE ~Lost
  <2>1. ASSUME NEW t \in jumps
        PROVE  \E i \in 1..Len(subRoutineDoneList) : subRoutineDoneList[i].addr = t
    <3>1. Listed(t) /\ Len(<<>>) = 0
      BY <1>1, <1>3, EmptySeq DEF Covered
    <3> QED BY <1>1, <3>1 DEF Listed
  <2>2. jumps \ {NoTarget} \subseteq Starts
    BY <2>1 DEF Starts, Written
  <2>3. subRoutineDoneList = <<>> => jumps = {}
    <3>1. Len(<<>>) = 0
      BY EmptySeq
    <3> QED BY <2>1, <3>1
  <2> QED BY <2>2, <2>3
<1> QED BY <1>2, <1>3

\* The areas of the transfers are kept apart as they are allocated.
LEMMA InvTransfersApart == ProgramInv => TransfersApart
<1> SUFFICES ASSUME ProgramInv PROVE TransfersApart
  OBVIOUS
<1>1. /\ EngineTypes /\ AreasFree /\ AreasApart
  BY InvFacts DEF EngineInv
<1>2. /\ fDescrList \in [0..1 -> Seq(TCB)]
      /\ \A e \in 0..1 : \A t \in TCBs(e) : \E n \in Positions(e) : t = fDescrList[e][n]
  BY <1>1, Elements DEF EngineTypes, TCBs, Positions
<1>3. \A t : Own(t) = Data(t) \cup {Descriptor(t)} /\ Own(t) \subseteq Areas(t)
  BY DEF Own, Areas
<1>4. ASSUME NEW e \in 0..1, NEW m \in Positions(e), NEW n \in Positions(e), m # n,
             NEW a \in Own(fDescrList[e][m]),
             NEW b \in (IF e = 0 THEN Own(fDescrList[e][n]) ELSE {Descriptor(fDescrList[e][n])})
      PROVE  ~Meet(a, b)
  <2>1. a \in Areas(fDescrList[e][m]) /\ b \in Kept(e, fDescrList[e][n])
    BY <1>3, <1>4 DEF Kept
  <2> QED BY <1>1, <1>4, <2>1 DEF AreasApart
<1>5. ASSUME NEW t \in TCBs(0), NEW u \in TCBs(1), NEW a \in Own(t), NEW b \in Own(u)
      PROVE  ~Meet(a, b)
  <2>1. PICK m \in Positions(0), n \in Positions(1) : t = fDescrList[0][m] /\ u = fDescrList[1][n]
    BY <1>2
  <2>2. b \in Areas(fDescrList[1][n]) /\ a \in Kept(0, fDescrList[0][m])
    BY <1>3, <1>5, <2>1 DEF Kept
  <2>3. ~Meet(b, a)
    BY <1>1, <2>2 DEF AreasApart
  <2> QED BY <2>3, MeetSymmetric
<1>6. ASSUME NEW e \in 0..1, NEW t \in TCBs(e), NEW a \in Own(t), NEW m \in check_set
      PROVE  ~Meet(a, m)
  <2>1. PICK n \in Positions(e) : t = fDescrList[e][n]
    BY <1>2
  <2>2. a \in Areas(fDescrList[e][n])
    BY <1>3, <1>6, <2>1
  <2> QED BY <1>1, <2>2 DEF AreasFree
<1>7. \A e \in 0..1 : \A m, n \in 1..Len(fDescrList[e]) : m # n =>
        \A a \in Own(fDescrList[e][m]),
           b \in (IF e = 0 THEN Own(fDescrList[e][n]) ELSE {Descriptor(fDescrList[e][n])}) :
          ~Meet(a, b)
  BY <1>4 DEF Positions
<1>8. \A a \in UNION {Own(t) : t \in TCBs(0)}, b \in UNION {Own(t) : t \in TCBs(1)} :
        ~Meet(a, b)
  BY <1>5
<1>9. \A a \in (UNION {Own(t) : t \in TCBs(0)}) \cup (UNION {Own(t) : t \in TCBs(1)}) :
        \A m \in check_set : ~Meet(a, m)
  BY <1>6
<1> QED BY <1>7, <1>8, <1>9, Zenon DEF TransfersApart, Own

\* A transfer starts inside its ranges and no shape reaches past its bytes.
LEMMA InvTransferInside == ProgramInv => TransferInside
<1> SUFFICES ASSUME ProgramInv, NEW t \in TCBs(0) \cup TCBs(1)
             PROVE  /\ t.from[1] <= t.src /\ t.src + t.max <= t.from[2]
                    /\ t.to[1] <= t.dst /\ t.dst + t.max <= t.to[2]
                    /\ \A s \in Shapes(t) : s.inner > 0 => Reach(s, t) <= Down(t.max, t.size)
  BY DEF TransferInside
<1>1. PICK e \in 0..1 : t \in TCBs(e)
  OBVIOUS
<1>2. EngineTypes /\ StaysInside
  BY InvFacts DEF EngineInv
<1>3. fDescrList[e] \in Seq(TCB)
  BY <1>2 DEF EngineTypes
<1>4. PICK n \in Positions(e) : t = fDescrList[e][n]
  BY <1>1, <1>3, Elements DEF TCBs, Positions
<1>5. t \in TCB
  BY <1>3, <1>4, Elements DEF Positions
<1>6. /\ t.from[1] <= t.src /\ t.src + t.max <= t.from[2]
      /\ t.to[1] <= t.dst /\ t.dst + t.max <= t.to[2]
      /\ t.size <= t.max
  BY <1>2, <1>4 DEF StaysInside
<1>7. \A s \in Shapes(t) : s.inner > 0 => Reach(s, t) <= Down(t.max, t.size)
  BY <1>5, <1>6, ShapesFit
<1> QED BY <1>6, <1>7

\* The chains are kept with the descriptors.
LEMMA InvChainEnds == ProgramInv => ChainEnds
BY InvFacts DEF EngineInv, Chained, ChainEnds, Positions

\* The vector follows a list of transfers, whatever the list.
LEMMA InvVectorFollows == ProgramInv => VectorFollows
<1> SUFFICES ASSUME ProgramInv, NEW e \in 0..1, NEW n \in 1..Len(fDescrList[e]),
                    fDescrList[e][n].isr # 0
             PROVE  Vector(fDescrList[e], n) = fDescrList[e][n].isr
  BY DEF VectorFollows
<1>1. fDescrList[e] \in Seq(TCB)
  BY InvFacts DEF EngineInv, EngineTypes
<1> QED BY <1>1, VectorOfList
-----------------------------------------------------------------------------
(***************************************************************************)
(* The data sections.                                                      *)
(***************************************************************************)
LEMMA BeforeOrders ==
  ASSUME NEW x \in Ranges, NEW y \in Ranges, NEW z \in Ranges
  PROVE  /\ ~Before(x, x) /\ (Before(x, y) /\ Before(y, z) => Before(x, z))
         /\ (x = y \/ Before(x, y) \/ Before(y, x)) /\ (Before(x, y) => x[1] <= y[1])
         /\ (x[1] < y[1] => Before(x, y))
         /\ x[1] \in Nat /\ x[2] \in Nat /\ x[1] <= x[2]
<1>1. /\ x[1] \in Nat /\ x[2] \in Nat /\ x[1] <= x[2] /\ y[1] \in Nat /\ y[2] \in Nat
      /\ z[1] \in Nat /\ z[2] \in Nat
  BY DEF Ranges, MemRange
<1>2. x[1] = y[1] /\ x[2] = y[2] => x = y
  BY DEF Ranges, MemRange
<1> QED BY <1>1, <1>2 DEF Before

\* A finite list of ranges has finitely many ends.
LEMMA FiniteEnds ==
  ASSUME NEW T, IsFiniteSet(T)
  PROVE  IsFiniteSet({q[2] : q \in T})
<1> DEFINE ends == {q[2] : q \in T}
           f == [q \in T |-> q[2]]
<1>1. f \in Surjection(T, ends)
  BY DEF Surjection
<1> QED BY <1>1, FS_Surjection

\* Some range of a list comes first, and some comes last.
LEMMA FirstAndLast ==
  ASSUME NEW T \in SUBSET Ranges, IsFiniteSet(T), T # {}
  PROVE  /\ \E x \in T : \A y \in T : ~Before(y, x)
         /\ \E x \in T : \A y \in T : ~Before(x, y)
<1> DEFINE Up == {p \in T \X T : Before(p[1], p[2])}
           DownTo == {p \in T \X T : Before(p[2], p[1])}
<1>1. \A x, y \in T : (<<x, y>> \in Up <=> Before(x, y)) /\ (<<x, y>> \in DownTo <=> Before(y, x))
  OBVIOUS
<1>2. /\ \A x \in T : ~Before(x, x)
      /\ \A x, y, z \in T : Before(x, y) /\ Before(y, z) => Before(x, z)
  BY BeforeOrders
<1> HIDE DEF Up, DownTo
<1>3. \E x \in T : \A y \in T : <<x, y>> \notin Up
  <2>1. \A x \in T : <<x, x>> \notin Up
    BY <1>1, <1>2
  <2>2. \A x, y, z \in T : <<x, y>> \in Up /\ <<y, z>> \in Up => <<x, z>> \in Up
    BY <1>1, <1>2
  <2> QED BY <2>1, <2>2, LastElement
<1>4. \E x \in T : \A y \in T : <<x, y>> \notin DownTo
  <2>1. \A x \in T : <<x, x>> \notin DownTo
    BY <1>1, <1>2
  <2>2. \A x, y, z \in T : <<x, y>> \in DownTo /\ <<y, z>> \in DownTo => <<x, z>> \in DownTo
    BY <1>1, <1>2
  <2> QED BY <2>1, <2>2, LastElement
<1> QED BY <1>1, <1>3, <1>4

\* The sections that start a merged one, and what is merged with each.
Firsts(S) == {r \in S : \A q \in S : Before(q, r) => q[2] < r[1]}
MergedWith(S, f) ==
  {q \in S : /\ q = f \/ Before(f, q)
             /\ \A h \in Firsts(S) : Before(f, h) => q # h /\ ~Before(h, q)}

\* Every range is merged with a first one, and the section ends with the last
\* byte of those merged.
LEMMA Merging ==
  ASSUME NEW S \in SUBSET Ranges, IsFiniteSet(S)
  PROVE  /\ \A a \in S : \E f \in Firsts(S) : a \in MergedWith(S, f)
         /\ \A s \in UnifyLSList(S) : \E f \in Firsts(S) : \E e \in MergedWith(S, f) :
              /\ s = <<f[1], e[2]>>
              /\ \A q \in MergedWith(S, f) : q[2] <= e[2]
         /\ \A f \in Firsts(S) : \E s \in UnifyLSList(S) :
              s[1] = f[1] /\ \A q \in MergedWith(S, f) : q[2] <= s[2]
<1>1. UnifyLSList(S) = {<<f[1], Max({q[2] : q \in MergedWith(S, f)})>> : f \in Firsts(S)}
  BY DEF UnifyLSList, Firsts, MergedWith
<1>2. ASSUME NEW f \in Firsts(S)
      PROVE  LET ends == {q[2] : q \in MergedWith(S, f)} IN
             Max(ends) \in ends /\ \A n \in ends : Max(ends) >= n
  <2> DEFINE M == MergedWith(S, f)
             ends == {q[2] : q \in M}
  <2>1. f \in S /\ f \in Ranges /\ M \subseteq S
    BY DEF Firsts, MergedWith
  <2>2. f \in M
    <3>1. \A h \in Firsts(S) : Before(f, h) => f # h /\ ~Before(h, f)
      <4> TAKE h \in Firsts(S)
      <4>1. h \in Ranges
        BY DEF Firsts
      <4> QED BY <2>1, <4>1, BeforeOrders
    <3> QED BY <2>1, <3>1 DEF MergedWith
  <2>3. IsFiniteSet(M)
    BY <2>1, FS_Subset
  <2>4. \A q \in M : q[2] \in Nat
    BY <2>1 DEF Ranges, MemRange
  <2> HIDE DEF M
  <2>5. IsFiniteSet(ends)
    BY <2>3, FiniteEnds
  <2>6. ends \subseteq Int /\ ends # {}
    BY <2>2, <2>4
  <2> QED BY <2>5, <2>6, GreatestNumber DEF M
<1>3. ASSUME NEW a \in S PROVE \E f \in Firsts(S) : a \in MergedWith(S, f)
  <2> DEFINE low == {x \in S : x = a \/ Before(x, a)}
             F == {f \in Firsts(S) : f = a \/ Before(f, a)}
  <2>1. /\ low \in SUBSET Ranges /\ IsFiniteSet(low) /\ low # {}
        /\ F \in SUBSET Ranges /\ IsFiniteSet(F)
    BY <1>3, FS_Subset DEF Firsts
  <2>2. PICK m \in low : \A y \in low : ~Before(y, m)
    BY <2>1, FirstAndLast
  <2>3. \A q \in S : ~Before(q, m)
    <3> SUFFICES ASSUME NEW q \in S, Before(q, m) PROVE FALSE
      OBVIOUS
    <3>1. q \in Ranges /\ m \in Ranges /\ a \in Ranges
      BY <1>3, <2>1
    <3>2. q \in low
      BY <2>2, <3>1, BeforeOrders
    <3> QED BY <2>2, <3>2
  <2>4. m \in F
    BY <2>2, <2>3 DEF Firsts
  <2>5. PICK f \in F : \A y \in F : ~Before(f, y)
    BY <2>1, <2>4, FirstAndLast
  <2>6. \A h \in Firsts(S) : Before(f, h) => a # h /\ ~Before(h, a)
    BY <2>5
  <2> QED BY <1>3, <2>5, <2>6 DEF MergedWith
<1>4. ASSUME NEW s \in UnifyLSList(S)
      PROVE  \E f \in Firsts(S) : \E e \in MergedWith(S, f) :
               s = <<f[1], e[2]>> /\ \A q \in MergedWith(S, f) : q[2] <= e[2]
  <2>1. PICK f \in Firsts(S) : s = <<f[1], Max({q[2] : q \in MergedWith(S, f)})>>
    BY <1>1, <1>4
  <2>2. PICK max : max = Max({q[2] : q \in MergedWith(S, f)})
    OBVIOUS
  <2>3. \E e \in MergedWith(S, f) : max = e[2]
    BY <1>2, <2>2
  <2>4. \A q \in MergedWith(S, f) : max >= q[2]
    BY <1>2, <2>2
  <2> QED BY <2>1, <2>2, <2>3, <2>4
<1>5. ASSUME NEW f \in Firsts(S)
      PROVE  \E s \in UnifyLSList(S) : s[1] = f[1] /\ \A q \in MergedWith(S, f) : q[2] <= s[2]
  <2>1. PICK max : max = Max({q[2] : q \in MergedWith(S, f)})
    OBVIOUS
  <2>2. <<f[1], max>> \in UnifyLSList(S)
    BY <1>1, <2>1
  <2>3. \A q \in MergedWith(S, f) : max >= q[2]
    BY <1>2, <2>1
  <2> QED BY <2>2, <2>3
<1> QED BY <1>3, <1>4, <1>5

\* The merged sections keep apart, hold what was asked for and have no gaps.
LEMMA Unified ==
  ASSUME NEW S \in SUBSET Ranges, IsFiniteSet(S)
  PROVE  LET U == UnifyLSList(S) IN
         /\ \A s \in U : s[1] \in Nat /\ s[2] \in Nat /\ s[1] <= s[2]
         /\ \A r, s \in U : r # s => r[2] < s[1] \/ s[2] < r[1]
         /\ \A a \in S : \E s \in U : s[1] <= a[1] /\ a[2] <= s[2]
         /\ \A s \in U :
              /\ \E a \in S : a[1] = s[1]
              /\ \A a \in S : s[1] <= a[1] /\ a[2] < s[2] =>
                   \E b \in S : b[1] <= a[2] /\ a[2] < b[2]
<1> DEFINE U == UnifyLSList(S)
<1>1. /\ \A a \in S : \E f \in Firsts(S) : a \in MergedWith(S, f)
      /\ \A s \in U : \E f \in Firsts(S) : \E e \in MergedWith(S, f) :
           s = <<f[1], e[2]>> /\ \A q \in MergedWith(S, f) : q[2] <= e[2]
      /\ \A f \in Firsts(S) : \E s \in U :
           s[1] = f[1] /\ \A q \in MergedWith(S, f) : q[2] <= s[2]
  BY Merging
<1> HIDE DEF U
<1>2. /\ \A x \in S : x \in Ranges /\ x[1] \in Nat /\ x[2] \in Nat /\ x[1] <= x[2]
      /\ Firsts(S) \subseteq S
      /\ \A f : MergedWith(S, f) \subseteq S
      /\ \A f \in Firsts(S) : \A q \in S : Before(q, f) => q[2] < f[1]
  BY DEF Firsts, MergedWith, Ranges, MemRange
<1>3. \A f \in Firsts(S) : f \in MergedWith(S, f)
  <2> TAKE f \in Firsts(S)
  <2>1. \A h \in Firsts(S) : Before(f, h) => f # h /\ ~Before(h, f)
    BY <1>2, BeforeOrders
  <2> QED BY <1>2, <2>1 DEF MergedWith
<1>4. ASSUME NEW f \in Firsts(S), NEW h \in Firsts(S), Before(f, h), NEW q \in MergedWith(S, f)
      PROVE  q[2] < h[1]
  <2>1. q # h /\ ~Before(h, q) /\ q \in S
    BY <1>2, <1>4 DEF MergedWith
  <2>2. Before(q, h)
    BY <1>2, <2>1, BeforeOrders
  <2> QED BY <1>2, <2>1, <2>2
<1>5. ASSUME NEW r \in U, NEW s \in U, r # s PROVE r[2] < s[1] \/ s[2] < r[1]
  <2>1. PICK f \in Firsts(S) : \E d \in MergedWith(S, f) :
          r = <<f[1], d[2]>> /\ \A q \in MergedWith(S, f) : q[2] <= d[2]
    BY <1>1, <1>5
  <2>10. PICK d \in MergedWith(S, f) :
          r = <<f[1], d[2]>> /\ \A q \in MergedWith(S, f) : q[2] <= d[2]
    BY <2>1
  <2>2. PICK h \in Firsts(S) : \E e \in MergedWith(S, h) :
          s = <<h[1], e[2]>> /\ \A q \in MergedWith(S, h) : q[2] <= e[2]
    BY <1>1, <1>5
  <2>11. PICK e \in MergedWith(S, h) :
          s = <<h[1], e[2]>> /\ \A q \in MergedWith(S, h) : q[2] <= e[2]
    BY <2>2
  <2>3. CASE f = h
    <3>1. d[2] <= e[2] /\ e[2] <= d[2] /\ d[2] \in Nat /\ e[2] \in Nat
      BY <1>2, <2>10, <2>11, <2>3
    <3>2. d[2] = e[2]
      BY <3>1
    <3> QED BY <1>5, <2>10, <2>11, <2>3, <3>2
  <2>4. CASE Before(f, h)
    BY <1>4, <2>10, <2>11, <2>4
  <2>5. CASE Before(h, f)
    BY <1>4, <2>10, <2>11, <2>5
  <2> QED BY <1>2, <2>3, <2>4, <2>5, BeforeOrders
<1>6. ASSUME NEW a \in S PROVE \E s \in U : s[1] <= a[1] /\ a[2] <= s[2]
  <2>1. PICK f \in Firsts(S) : a \in MergedWith(S, f)
    BY <1>1
  <2>2. f[1] <= a[1]
    <3>1. f = a \/ Before(f, a)
      BY <2>1 DEF MergedWith
    <3> QED BY <1>2, <3>1, BeforeOrders
  <2>3. PICK s \in U : s[1] = f[1] /\ \A q \in MergedWith(S, f) : q[2] <= s[2]
    BY <1>1
  <2> QED BY <2>1, <2>2, <2>3
<1>7. ASSUME NEW s \in U
      PROVE  /\ s[1] \in Nat /\ s[2] \in Nat /\ s[1] <= s[2]
             /\ \E a \in S : a[1] = s[1]
             /\ \A a \in S : s[1] <= a[1] /\ a[2] < s[2] =>
                  \E b \in S : b[1] <= a[2] /\ a[2] < b[2]
  <2>0. PICK f \in Firsts(S) : \E e \in MergedWith(S, f) :
          s = <<f[1], e[2]>> /\ \A q \in MergedWith(S, f) : q[2] <= e[2]
    BY <1>1, <1>7
  <2>1. PICK e \in MergedWith(S, f) :
          s = <<f[1], e[2]>> /\ \A q \in MergedWith(S, f) : q[2] <= e[2]
    BY <2>0
  <2>2. f \in S /\ e \in S /\ f[2] <= e[2]
    BY <1>2, <1>3, <2>1
  <2>3. s[1] = f[1] /\ s[2] = e[2] /\ s[1] \in Nat /\ s[2] \in Nat /\ s[1] <= s[2]
    BY <1>2, <2>1, <2>2
  <2>4. ASSUME NEW a \in S, f[1] <= a[1], a[2] < e[2]
        PROVE  \E b \in S : b[1] <= a[2] /\ a[2] < b[2]
    <3>1. CASE e[1] <= a[2]
      BY <2>2, <2>4, <3>1
    <3>2. CASE a[2] < e[1] /\ \A b \in S : b[1] <= a[2] => b[2] <= a[2]
      <4> DEFINE late == {q \in S : a[2] < q[1]}
      <4>1. late \in SUBSET Ranges /\ IsFiniteSet(late) /\ e \in late
        BY <2>2, <3>2, FS_Subset
      <4>2. PICK h \in late : \A y \in late : ~Before(y, h)
        BY <4>1, FirstAndLast
      <4>3. \A q \in S : Before(q, h) => q[2] < h[1]
        <5> SUFFICES ASSUME NEW q \in S, Before(q, h) PROVE q[2] < h[1]
          OBVIOUS
        <5>1. ~(a[2] < q[1]) /\ a[2] < h[1] /\ h \in S
          BY <4>2
        <5>2. q[2] <= a[2]
          BY <1>2, <3>2, <5>1
        <5> QED BY <1>2, <5>1, <5>2
      <4>4. h \in Firsts(S) /\ a[2] < h[1] /\ h \in S
        BY <4>2, <4>3 DEF Firsts
      <4>5. Before(f, h)
        <5>1. f[1] < h[1]
          BY <1>2, <2>2, <2>4, <4>4
        <5> QED BY <1>2, <2>2, <4>4, <5>1, BeforeOrders
      <4>6. e = h \/ Before(h, e)
        BY <1>2, <2>2, <4>1, <4>2, <4>4, BeforeOrders
      <4>7. e # h /\ ~Before(h, e)
        BY <2>1, <4>4, <4>5 DEF MergedWith
      <4> QED BY <4>6, <4>7
    <3> QED BY <1>2, <2>2, <3>1, <3>2
  <2> QED BY <2>2, <2>3, <2>4
<1> QED BY <1>5, <1>6, <1>7 DEF U

\* The printed sections are the merged ones of what was asked for.
LEMMA InvSectionsMerged == ProgramInv => SectionsMerged
<1> SUFFICES ASSUME ProgramInv, phase = "done" PROVE SectionsMerged
  BY DEF SectionsMerged
<1> DEFINE asked == fLSFillRangeList \cup fLoadNotSafeRangeList
<1>1. asked \in SUBSET Ranges
  <2>1. fLoadNotSafeRangeList \subseteq Ranges /\ check_set \subseteq Ranges
    BY InvFacts DEF Unclaimed, Disjoint
  <2>2. \A a \in fLSFillRangeList : a \in Ranges
    <3> TAKE a \in fLSFillRangeList
    <3>1. ASSUME NEW e \in 0..1, NEW n \in Positions(e), a \in Own(fDescrList[e][n])
          PROVE  a \in Ranges
      <4>1. a \in Areas(fDescrList[e][n])
        BY <3>1 DEF Areas
      <4> QED BY <4>1, InvFacts DEF EngineInv, AreasFree
    <3> QED BY <2>1, <3>1, InvFacts DEF Filled
  <2> QED BY <2>1, <2>2
<1>2. IsFiniteSet(asked)
  BY InvFacts, FS_Union DEF Finite
<1>3. sections = UnifyLSList(asked)
  BY InvFacts DEF Printed
<1> HIDE DEF asked
<1>4. /\ \A r, s \in sections : r # s => r[2] < s[1] \/ s[2] < r[1]
      /\ \A a \in asked : \E s \in sections : s[1] <= a[1] /\ a[2] <= s[2]
      /\ \A s \in sections :
           /\ \E a \in asked : a[1] = s[1]
           /\ \A a \in asked : s[1] <= a[1] /\ a[2] < s[2] =>
                \E b \in asked : b[1] <= a[2] /\ a[2] < b[2]
  BY <1>1, <1>2, <1>3, Unified
<1> QED BY <1>4 DEF SectionsMerged, asked

\* Who shares a byte with a section shares one with a range it was made of.
LEMMA SectionHull ==
  ASSUME NEW S \in SUBSET Ranges, IsFiniteSet(S), NEW s \in UnifyLSList(S),
         NEW c \in Ranges, Meet(c, <<s[1], s[2] - 1>>)
  PROVE  \E a \in S : Meet(c, a)
<1> DEFINE U == UnifyLSList(S)
<1>1. /\ \A r \in U : r[1] \in Nat /\ r[2] \in Nat /\ r[1] <= r[2]
      /\ \A q, r \in U : q # r => q[2] < r[1] \/ r[2] < q[1]
      /\ \A a \in S : \E r \in U : r[1] <= a[1] /\ a[2] <= r[2]
      /\ \A r \in U :
           /\ \E a \in S : a[1] = r[1]
           /\ \A a \in S : r[1] <= a[1] /\ a[2] < r[2] =>
                \E b \in S : b[1] <= a[2] /\ a[2] < b[2]
  BY Unified
<1> HIDE DEF U
<1>2. s \in U
  BY DEF U
<1>3. s[1] \in Nat /\ s[2] \in Nat /\ s[1] <= s[2]
  BY <1>1, <1>2
<1>4. c[1] \in Nat /\ c[2] \in Nat /\ c[1] <= c[2] /\ c[1] <= s[2] - 1 /\ s[1] <= c[2]
  BY DEF Ranges, MemRange, Meet
<1>5. \A a \in S : a[1] \in Nat /\ a[2] \in Nat /\ a[1] <= a[2]
  BY DEF Ranges, MemRange
<1>6. CASE c[1] <= s[1]
  <2>1. PICK a \in S : a[1] = s[1]
    BY <1>1, <1>2
  <2> QED BY <1>3, <1>4, <1>5, <1>6, <2>1 DEF Meet
<1>7. CASE s[1] < c[1]
  <2> DEFINE T == {a \in S : s[1] <= a[1] /\ a[1] <= c[1]}
             ends == {a[2] : a \in T}
  <2>1. PICK f \in S : f[1] = s[1]
    BY <1>1, <1>2
  <2>2. f \in T
    BY <1>3, <1>4, <1>7, <2>1
  <2>3. IsFiniteSet(T) /\ T \subseteq S
    BY FS_Subset
  <2> HIDE DEF T
  <2>4. IsFiniteSet(ends) /\ ends \subseteq Int /\ ends # {}
    BY <1>5, <2>2, <2>3, FiniteEnds
  <2>5. Max(ends) \in ends /\ \A n \in ends : Max(ends) >= n
    BY <2>4, GreatestNumber
  <2>6. PICK a \in T : \A b \in T : a[2] >= b[2]
    BY <2>5
  <2>7. a \in S /\ s[1] <= a[1] /\ a[1] <= c[1]
    BY <2>3 DEF T
  <2>8. CASE c[1] <= a[2]
    BY <1>4, <1>5, <2>7, <2>8 DEF Meet
  <2>9. CASE a[2] < c[1]
    <3>0. a[2] < s[2]
      BY <1>3, <1>4, <1>5, <2>7, <2>9
    <3>1. PICK b \in S : b[1] <= a[2] /\ a[2] < b[2]
      BY <1>1, <1>2, <2>7, <3>0
    <3>2. b[1] < s[1]
      <4> SUFFICES ASSUME s[1] <= b[1] PROVE FALSE
        BY <1>3, <1>5
      <4>1. b \in T
        BY <1>4, <1>5, <2>7, <2>9, <3>1 DEF T
      <4> QED BY <1>5, <2>6, <2>7, <3>1, <4>1
    <3>3. PICK r \in U : r[1] <= b[1] /\ b[2] <= r[2]
      BY <1>1
    <3>4. r[1] \in Nat /\ r[2] \in Nat
      BY <1>1
    <3>5. r # s /\ ~(r[2] < s[1]) /\ ~(s[2] < r[1])
      BY <1>3, <1>5, <2>7, <3>1, <3>2, <3>3, <3>4
    <3> QED BY <1>1, <1>2, <3>5
  <2> QED BY <1>4, <1>5, <2>7, <2>8, <2>9
<1> QED BY <1>3, <1>4, <1>6, <1>7

\* A data section keeps off the memory of the routines, and of those of the DMA
\* interrupts.
LEMMA SectionsOffCode ==
  ASSUME ProgramInv, NEW a \in fLSFillRangeList \cup fLoadNotSafeRangeList
  PROVE  /\ a \in Ranges
         /\ \A m \in Routines : ~Meet(m, a)
         /\ \A e \in 0..1 : \A n \in Positions(e) :
              \A i \in RoutineAt(fDescrList[e][n].isr) : i \in Ranges /\ ~Meet(i, a)
<1>1. /\ check_set \subseteq Ranges /\ \A c, d \in check_set : c = d \/ ~Meet(c, d)
      /\ Unclaimed /\ Filled
      /\ AreasFree /\ AreasApart /\ RoutinesApart
  BY InvFacts DEF Disjoint, EngineInv
<1>2. \A m \in Routines : m \in check_set /\ m \in Ranges /\ m[2] # m[1] + LS_MIN_BUFFER_SIZE
  <2> TAKE m \in Routines
  <2>1. m \in check_set /\ m \in Ranges /\ m = Routine(m[1])
    BY <1>1 DEF Routines
  <2>2. m[1] \in Nat /\ m[2] = m[1] + MAX_SUB_ROUTINE_SIZE
    BY <2>1 DEF Ranges, MemRange, Routine
  <2> QED BY <2>1, <2>2, ProgramAssumption, SizeAssumption
<1>3. ASSUME NEW e \in 0..1, NEW n \in Positions(e), NEW b \in Own(fDescrList[e][n])
      PROVE  b \in Ranges /\ \A c \in check_set : ~Meet(b, c)
  <2>1. b \in Areas(fDescrList[e][n])
    BY <1>3 DEF Areas
  <2> QED BY <1>1, <2>1 DEF AreasFree
<1>4. Routines \cap fLSFillRangeList = {}
  <2> SUFFICES ASSUME NEW m \in Routines, m \in fLSFillRangeList PROVE FALSE
    OBVIOUS
  <2>1. m \in check_set /\ Meet(m, m)
    BY <1>2, MeetItself
  <2>2. PICK e \in 0..1 : \E n \in Positions(e) : m \in Own(fDescrList[e][n])
    BY <1>1, <1>2 DEF Filled
  <2> QED BY <1>3, <2>1, <2>2
<1>5. ASSUME NEW e \in 0..1, NEW n \in Positions(e), NEW i \in RoutineAt(fDescrList[e][n].isr)
      PROVE  /\ i \in Ranges /\ i \in Kept(e, fDescrList[e][n])
             /\ \A c \in check_set : ~Meet(i, c)
  <2>1. i \in Areas(fDescrList[e][n])
    BY <1>5 DEF Areas
  <2> QED BY <1>1, <1>5, <2>1 DEF AreasFree, Kept
<1>6. CASE a \in fLoadNotSafeRangeList
  <2>1. \A e \in 0..1 : Positions(e) = {}
    <3>1. ~g.dma /\ Idle
      BY <1>6 , Zenon DEF ProgramInv, Engines
    <3> QED BY <1>1, <3>1, IdleEngine
  <2>2. \A m \in Routines : ~Meet(a, m)
    BY <1>1, <1>2, <1>4, <1>6 DEF Unclaimed
  <2> QED BY <1>1, <1>6, <2>1, <2>2, MeetSymmetric DEF Unclaimed
<1>7. CASE a \in fLSFillRangeList /\ a \in check_set
  <2>1. \A m \in Routines : m # a
    BY <1>4, <1>7
  <2> QED BY <1>1, <1>2, <1>5, <1>7, <2>1
<1>8. ASSUME NEW f \in 0..1, NEW o \in Positions(f), a \in Own(fDescrList[f][o])
      PROVE  /\ a \in Ranges
             /\ \A m \in Routines : ~Meet(m, a)
             /\ \A e \in 0..1 : \A n \in Positions(e) :
                  \A i \in RoutineAt(fDescrList[e][n].isr) : i \in Ranges /\ ~Meet(i, a)
  <2>1. a \in Ranges /\ \A m \in Routines : ~Meet(m, a)
    BY <1>2, <1>3, <1>8, MeetSymmetric
  <2>2. ASSUME NEW e \in 0..1, NEW n \in Positions(e), NEW i \in RoutineAt(fDescrList[e][n].isr)
        PROVE  ~Meet(a, i)
    <3>1. CASE e = f /\ n = o
      BY <1>1, <1>8, <2>2, <3>1 DEF RoutinesApart
    <3>2. CASE e # f \/ n # o
      <4>1. a \in Areas(fDescrList[f][o]) /\ i \in Kept(e, fDescrList[e][n])
        BY <1>5, <1>8, <2>2 DEF Areas
      <4> QED BY <1>1, <1>8, <2>2, <3>2, <4>1 DEF AreasApart
    <3> QED BY <3>1, <3>2
  <2> QED BY <1>5, <2>1, <2>2, MeetSymmetric
<1> QED BY <1>1, <1>6, <1>7, <1>8 DEF Filled

\* Two routines have claims of their own.
LEMMA RoutinesOffEachOther ==
  ASSUME ProgramInv, NEW m \in Written, NEW n \in Written, m # n
  PROVE  ~Meet(CodeArea(subRoutineDoneList[m]), CodeArea(subRoutineDoneList[n]))
<1> DEFINE c == CodeArea(subRoutineDoneList[m])
           d == CodeArea(subRoutineDoneList[n])
<1>1. PICK p \in Routines :
        /\ p \in check_set /\ p \in Ranges /\ subRoutineDoneList[m].addr = Even(p[1])
        /\ c \in Ranges /\ p[1] <= c[1] /\ c[2] <= p[2]
  BY CodeInClaim
<1>2. PICK q \in Routines :
        /\ q \in check_set /\ q \in Ranges /\ subRoutineDoneList[n].addr = Even(q[1])
        /\ d \in Ranges /\ q[1] <= d[1] /\ d[2] <= q[2]
  BY CodeInClaim
<1>3. p # q
  <2>1. /\ m \in 1..Len(subRoutineDoneList) /\ n \in 1..Len(subRoutineDoneList)
        /\ subRoutineDoneList[m].addr # NoTarget
    BY DEF Written
  <2>2. subRoutineDoneList[m].addr # subRoutineDoneList[n].addr
    BY <2>1, InvFacts DEF Distinct
  <2> QED BY <1>1, <1>2, <2>2
<1>4. ~Meet(p, q)
  BY <1>1, <1>2, <1>3, InvFacts DEF Disjoint
<1> HIDE DEF c, d
<1>5. ~Meet(c, q)
  BY <1>1, <1>2, <1>4, InsideMeet DEF Inside
<1>6. ~Meet(c, d)
  BY <1>1, <1>2, <1>5, InsideMeet, MeetSymmetric DEF Inside
<1> QED BY <1>6 DEF c, d

\* Routines, interrupt routines and sections keep off one another.
LEMMA InvLinksWithoutOverlap == ProgramInv => LinksWithoutOverlap
<1> SUFFICES ASSUME ProgramInv, phase = "done" PROVE LinksWithoutOverlap
  BY DEF LinksWithoutOverlap
<1> DEFINE asked == fLSFillRangeList \cup fLoadNotSafeRangeList
<1>1. asked \in SUBSET Ranges /\ IsFiniteSet(asked) /\ sections = UnifyLSList(asked)
  <2>1. \A a \in asked : a \in Ranges
    BY SectionsOffCode
  <2> QED BY <2>1, InvFacts, FS_Union DEF Finite, Printed
<1>2. ASSUME NEW c \in Code
      PROVE  c \in Ranges /\ \E m \in Routines :
               m \in check_set /\ m \in Ranges /\ Inside(c, m)
  <2>1. PICK n \in Written : c = CodeArea(subRoutineDoneList[n])
    BY <1>2 DEF Code
  <2> QED BY <2>1, CodeInClaim DEF Inside
<1>3. ASSUME NEW i \in DmaISRs
      PROVE  \E e \in 0..1 : \E n \in Positions(e) : i \in RoutineAt(fDescrList[e][n].isr)
  <2>1. PICK t \in TCBs(0) \cup TCBs(1) : t.isr # 0 /\ i = <<t.isr, t.isr + 31>>
    BY <1>3 DEF DmaISRs
  <2>2. PICK e \in 0..1 : t \in TCBs(e)
    BY <2>1
  <2>3. fDescrList[e] \in Seq(TCB)
    BY InvFacts DEF EngineInv, EngineTypes
  <2>4. PICK n \in Positions(e) : t = fDescrList[e][n]
    BY <2>2, <2>3, Elements DEF TCBs, Positions
  <2> QED BY <2>1, <2>4 DEF RoutineAt, ISRArea
<1>4. ASSUME NEW c \in Code, NEW a \in asked PROVE ~Meet(c, a)
  <2>1. PICK m \in Routines : c \in Ranges /\ m \in Ranges /\ Inside(c, m)
    BY <1>2, <1>4
  <2>2. a \in Ranges /\ ~Meet(m, a)
    BY <1>4, SectionsOffCode
  <2> QED BY <2>1, <2>2, InsideMeet
<1>5. ASSUME NEW i \in DmaISRs, NEW a \in asked PROVE i \in Ranges /\ ~Meet(i, a)
  BY <1>3, <1>5, SectionsOffCode
<1> HIDE DEF asked
<1>6. ASSUME NEW c \in Code \cup DmaISRs, NEW s \in sections PROVE ~Meet(c, <<s[1], s[2] - 1>>)
  <2> SUFFICES ASSUME Meet(c, <<s[1], s[2] - 1>>) PROVE FALSE
    OBVIOUS
  <2>1. PICK f \in asked : TRUE
    BY <1>1, <1>6 DEF UnifyLSList
  <2>2. c \in Ranges
    BY <1>2, <1>5, <1>6, <2>1
  <2>3. \E a \in asked : Meet(c, a)
    BY <1>1, <1>6, <2>2, SectionHull
  <2> QED BY <1>4, <1>5, <1>6, <2>3
<1>7. ASSUME NEW c \in Code, NEW i \in DmaISRs PROVE ~Meet(c, i)
  <2>1. PICK m \in Routines : c \in Ranges /\ m \in check_set /\ m \in Ranges /\ Inside(c, m)
    BY <1>2, <1>7
  <2>2. PICK e \in 0..1 : \E n \in Positions(e) : i \in RoutineAt(fDescrList[e][n].isr)
    BY <1>3, <1>7
  <2>3. PICK n \in Positions(e) : i \in RoutineAt(fDescrList[e][n].isr)
    BY <2>2
  <2>4. i \in Areas(fDescrList[e][n])
    BY <2>3 DEF Areas
  <2>5. i \in Ranges /\ ~Meet(i, m)
    BY <2>1, <2>4, InvFacts DEF EngineInv, AreasFree
  <2> QED BY <2>1, <2>5, InsideMeet, MeetSymmetric
<1> QED BY <1>6, <1>7, RoutinesOffEachOther DEF LinksWithoutOverlap
-----------------------------------------------------------------------------
(***************************************************************************)
(* The properties of the runs, for every program.                          *)
(***************************************************************************)

\* Neither the assertions of the allocator nor that of the DMA engine about the
\* size of a range fails, whatever the program (igen/mem_manager.h, igen/dma.h).
THEOREM AssertionsStand == Spec => []GeneratorAsserts
<1>1. ProgramInv => GeneratorAsserts
  BY InvFacts DEF GeneratorAsserts
<1> QED BY <1>1, ProgramInvariant, PTL

\* No byte is free twice, or free and claimed, at any point of the generation.
THEOREM FreeMemoryUnclaimed == Spec => []FreeIsUnclaimed
<1>1. ProgramInv => FreeIsUnclaimed
  BY InvMemoryOK DEF MemoryOK
<1> QED BY <1>1, ProgramInvariant, PTL

\* Every range that is left has room for a routine at an odd address.
THEOREM FreeMemoryRoomy == Spec => []FreeIsRoomy
<1>1. ProgramInv => FreeIsRoomy
  BY InvMemoryOK DEF MemoryOK
<1> QED BY <1>1, ProgramInvariant, PTL

\* No byte is claimed twice, and what a load reads without a claim is not code.
THEOREM ClaimedOnce == Spec => []ClaimsApart
<1>1. ProgramInv => ClaimsApart
  BY InvMemoryOK DEF MemoryOK
<1> QED BY <1>1, ProgramInvariant, PTL

\* A routine stays in the memory claimed for it, its loop and its jump included.
THEOREM RoutinesFit == Spec => []SubroutineFits
<1>1. ProgramInv => SubroutineFits
  BY InvSubroutineFits
<1> QED BY <1>1, ProgramInvariant, PTL

\* In the finished test no byte belongs to two routines or to a routine and a
\* data section: the linker finds nothing that overlaps.
THEOREM NothingOverlaps == Spec => []LinksWithoutOverlap
<1>1. ProgramInv => LinksWithoutOverlap
  BY InvLinksWithoutOverlap
<1> QED BY <1>1, ProgramInvariant, PTL

\* In a finished test with routines, every branch and every interrupt goes to the
\* start of one, but for branches that took an unset variable for a register; in
\* a test without routines there is one branch at most, and it leads nowhere.
THEOREM OnlyFirstBranchIsLost == Spec => []OnlyFirstBranchLost
<1>1. ProgramInv => OnlyFirstBranchLost
  BY InvOnlyFirstBranchLost
<1> QED BY <1>1, ProgramInvariant, PTL

\* UnifyLSList prints the bytes asked for and no other, in sections that do not
\* touch.
THEOREM MergedAsAsked == Spec => []SectionsMerged
<1>1. ProgramInv => SectionsMerged
  BY InvSectionsMerged
<1> QED BY <1>1, ProgramInvariant, PTL

\* The data and descriptors of the DMA transfers are shared as far as the two
\* engines allow and no further.
THEOREM TransfersKeptApart == Spec => []TransfersApart
<1>1. ProgramInv => TransfersApart
  BY InvTransfersApart
<1> QED BY <1>1, ProgramInvariant, PTL

\* A DMA transfer stays in its ranges, whatever strides and counts are drawn.
THEOREM TransfersStayInside == Spec => []TransferInside
<1>1. ProgramInv => TransferInside
  BY InvTransferInside
<1> QED BY <1>1, ProgramInvariant, PTL

\* A chain of DMA descriptors goes from each to the next and ends.
THEOREM ChainsEnd == Spec => []ChainEnds
<1>1. ProgramInv => ChainEnds
  BY InvChainEnds
<1> QED BY <1>1, ProgramInvariant, PTL

\* The interrupt vector follows the chain of descriptors.
THEOREM VectorsFollow == Spec => []VectorFollows
<1>1. ProgramInv => VectorFollows
  BY InvVectorFollows
<1> QED BY <1>1, ProgramInvariant, PTL
=============================================================================

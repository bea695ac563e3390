------------------------------ MODULE Program -------------------------------
(***************************************************************************)
(* How the generator builds a test (igen/main.cpp, CreateProgram and what  *)
(* it calls), as far as memory goes.                                       *)
(*                                                                         *)
(* A first branch claims memory for a subroutine.  A worklist holds the    *)
(* subroutines that are branched to; each is filled with random            *)
(* instructions, and a branch among them claims memory and adds to the     *)
(* worklist.  Then come the routines of the interrupts, the transfers of   *)
(* the two DMA engines, and the data sections.  Registers are left out:    *)
(* one may hold any address, so a branch through a register and a load or  *)
(* a store may go wherever the allocator agrees.                           *)
(***************************************************************************)
EXTENDS DmaEngine

CONSTANTS
  NREGS, PROGRAM_START,
  MAX_NUM_INTER,
  Options,       \* the command lines, with the memory and four bounds:
                 \* where in a free range a random routine may lie (offsets),
                 \* where a load or a store may go (data), the bytes a
                 \* transfer moves at a time (sizes), and where in a body
                 \* there is something else than plain instructions (pauses)
  LengthDraw,    \* bound: the lengths of a hardware loop that are drawn
  Uninitialised  \* what the variable ind of a branch may hold unset

\* The sizes of the code; a range file that leaves out the vectors and the
\* start of the program; and the bounds.
ASSUME ProgramAssumption ==
  /\ MAX_SUB_ROUTINE_SIZE = 256 /\ LS_MIN_BUFFER_SIZE < MAX_SUB_ROUTINE_SIZE
  /\ PROGRAM_START \in Nat \ {0} /\ MAX_NUM_INTER \in Nat
  /\ LengthDraw \subseteq Nat
  /\ \A m \in Initial : \A r \in m[1] \cup m[2] : PROGRAM_START <= r[1]
  /\ \A m \in Initial : IsFiniteSet(m[1]) /\ IsFiniteSet(m[2])
  /\ \A o \in Options :
       /\ o.offsets \subseteq Nat /\ o.data \subseteq Nat
       /\ \A n \in o.pauses : n \in Nat /\ n % 4 = 0
       /\ o.sizes \subseteq {1, 2, 4, 8}

VARIABLES
  g,         \* the command line
  phase,
  cur,       \* the subroutine being filled
  subRoutinePendingList,
  subRoutineDoneList,
  numSubRoutine,
  keepOut,   \* the instructions that InstrSel no longer chooses
  leaked,    \* a branch has claimed a range it will not use
  jumps,     \* where the printed branches, and the interrupts, go
  k,         \* the interrupt whose routine is next
  sections   \* the data sections printed

progVars == <<g, phase, cur, subRoutinePendingList, subRoutineDoneList,
              numSubRoutine, keepOut, leaked, jumps, k, sections>>
vars == <<memVars, dmaVars, progVars>>

\* The address of a branch that was to use a register and found none.
NoTarget == 0

\* Bytes printed: the jump that ends a section, the loop around it, a branch
\* through a register it sets first, and a floating point macro.
JumpBytes == 12
LoopBytes == 12
FarBytes == 12
MegaBytes == 34
ISRSize == 64

sSize == MAX_SUB_ROUTINE_SIZE - (JumpBytes + LoopBytes)
Align8(n) == ((n + 7) \div 8) * 8
NoSub == [addr |-> NoTarget, size |-> 0, limit |-> 0, hw |-> FALSE, len |-> 0,
          i |-> 0, count |-> 0, branches |-> 0, used |-> 0, done |-> FALSE,
          isr |-> FALSE]

Init ==
  /\ MemInit /\ DmaInit
  /\ g \in Options /\ g.memory = <<fRangeListForFetch, fRangeListForLS>>
  /\ phase = "start" /\ cur = NoSub
  /\ subRoutinePendingList = <<>> /\ subRoutineDoneList = <<>>
  /\ numSubRoutine = 1
  /\ keepOut = {} /\ leaked = FALSE /\ jumps = {}
  /\ k = 0 /\ sections = {}
-----------------------------------------------------------------------------
\* Where GetGenRangebyJump, and then the branch, move an odd address.
Even(a) == a + (a % 2)

\* The addresses a random routine may get.
Draw == UNION {{r[1] + o : o \in g.offsets} : r \in fRangeListForFetch}

Routine(f) == <<f, f + MAX_SUB_ROUTINE_SIZE>>
GetGenRangebyJump(f) == ClaimFetch(Routine(f))

\* The position of the free range that a claim was taken from.
Index(f) ==
  LET r == CHOOSE r \in fRangeListForFetch : Fits(r, Routine(f))
  IN Cardinality({s \in fRangeListForFetch : s[1] < r[1]})

\* A register holds the even address t, where a subroutine fits.
RegisterFound(t) == ~leaked /\ t % 2 = 0 /\ GetGenRangebyJump(t)

ThroughRegister(t) == RegisterFound(t) /\ Index(t) < NREGS

\* No register is found and ind is read without being set.
Astray ==
  /\ ~leaked /\ "small" \in Uninitialised
  /\ UNCHANGED memVars

\* Bytes of a branch to t from pc: one that goes far sets a register first.
BranchSize(t, pc) ==
  IF (IF t > pc THEN t - pc ELSE pc - t) < 2^20 THEN 4 ELSE FarBytes

\* A branch at pc, of size bytes, goes to t.  There is always memory for a
\* label: none is made when the list is empty, and a claim that was lost left
\* another range.
Branch(pc, t, size) ==
  /\ \/ ThroughRegister(t) /\ size = 4
     \/ Astray /\ t = NoTarget /\ size = 4
     \/ \E f \in Draw :
          t = Even(f) /\ GetGenRangebyJump(f) /\ size = BranchSize(t, pc)
  /\ leaked' = FALSE

Targets == {Even(f) : f \in Draw} \cup {NoTarget}
Sizes == {4, FarBytes}

\* CreateProgram, up to the worklist: the first branch.  Its target is forgotten
\* when the branch itself has taken the last of the memory.
FirstBranch ==
  /\ phase = "start" /\ fRangeListForFetch # {}
  /\ \E t \in Targets, size \in Sizes :
       /\ Branch(PROGRAM_START + NREGS * 4, t, size)
       /\ jumps' = {t}
       /\ subRoutinePendingList' = IF fRangeListForFetch' # {} THEN <<t>> ELSE <<>>
  /\ phase' = "idle"
  /\ UNCHANGED <<g, cur, subRoutineDoneList, numSubRoutine, keepOut, k,
                 sections, dmaVars>>

\* Without memory for code the test ends at once.
NoBranch ==
  /\ phase = "start" /\ ~leaked /\ fRangeListForFetch = {}
  /\ phase' = "idle"
  /\ UNCHANGED <<memVars, dmaVars, g, cur, subRoutinePendingList,
                 subRoutineDoneList, numSubRoutine, keepOut, leaked, jumps, k,
                 sections>>
-----------------------------------------------------------------------------
HWBegin == 32   \* bytes that set up a hardware loop

\* Mutant: nothing is kept for what ends the loop.
HWBody_Whole(size) == {n \in LengthDraw \cup {size} : 8 + 24 <= n /\ n <= size}

HWBody(size) == {n \in LengthDraw : 8 + 24 <= n /\ n <= size - 32}

IsHWLoop(a) ==
  g.hw /\ Len(subRoutineDoneList) + 1 = g.maxSub /\ a % 8 = 0

\* FillSubroutine, up to its loop.
Start(a, size, isr) ==
  LET new == [NoSub EXCEPT !.addr = a, !.size = size, !.isr = isr] IN
  /\ IF IsHWLoop(a)
     THEN /\ keepOut' = keepOut \cup {"branch"}
          /\ IF 8 + 24 < size - 32
             THEN /\ failed' = failed
                  /\ \E n \in HWBody(size), len \in 8..16 :
                       /\ len \in LengthDraw
                       /\ cur' = [new EXCEPT !.hw = TRUE, !.len = len,
                                    !.limit = size - n, !.used = HWBegin]
             ELSE failed' = "loop_body" /\ cur' = new
     ELSE /\ cur' = [new EXCEPT !.limit = size - 8]
          /\ UNCHANGED <<keepOut, failed>>
  /\ phase' = "fill"
  /\ UNCHANGED <<fRangeListForFetch, fRangeListForLS, check_set,
                 fLSFillRangeList, fLoadNotSafeRangeList, fAccessMem, dmaVars, g,
                 subRoutinePendingList, subRoutineDoneList, numSubRoutine,
                 leaked, jumps, k, sections>>

NextSubroutine ==
  /\ phase = "idle" /\ subRoutinePendingList # <<>> /\ failed = "no"
  /\ Start(Head(subRoutinePendingList), sSize, FALSE)

\* Mutant: the body may grow until the section is full.
MoreToFill_Full ==
  cur.i < cur.limit + 8 /\ ~cur.done /\ fRangeListForFetch # {}

MoreToFill == cur.i < cur.limit /\ ~cur.done /\ fRangeListForFetch # {}

\* Mutant: an instruction is left out, and another one drawn, for ever.
Advance_Stuck(size) == 0

Advance(size) == size

\* An instruction of size bytes; in a hardware loop its last two are marked.
Put(size) ==
  [cur EXCEPT
     !.i = @ + Advance(size),
     !.count = IF cur.hw THEN @ + 1 ELSE 0,
     !.used = (IF cur.hw /\ cur.count + 1 = cur.len THEN Align8(@) ELSE @)
                  + Advance(size),
     !.done = cur.hw /\ cur.count = cur.len]

MayBranch(out) == "branch" \notin out /\ cur.branches < 2

Filling == phase = "fill" /\ MoreToFill /\ failed = "no"

\* InstrSel gives up branches for good when there are enough subroutines.
KeepOut ==
  IF numSubRoutine >= g.maxSub THEN keepOut \cup {"branch"} ELSE keepOut

\* How far the body gets with an instruction of size bytes and the plain ones
\* up to where something else may happen.
Onward(size) ==
  LET stops == {p \in g.pauses \cup {cur.limit} :
                  cur.i + size <= p /\ p <= cur.limit}
  IN IF cur.hw \/ stops = {} THEN {size} ELSE {p - cur.i : p \in stops}

\* Data processing and register move instructions.
Plain ==
  /\ Filling /\ ~leaked /\ ~g.fp
  /\ \E n \in Onward(4) : cur' = Put(n)
  /\ keepOut' = KeepOut
  /\ UNCHANGED <<memVars, dmaVars, g, phase, subRoutinePendingList,
                 subRoutineDoneList, numSubRoutine, leaked, jumps, k, sections>>

\* Mutant: a load may leave its memory free though a DMA or an interrupt
\* routine may use it.
MayShare_Always == TRUE
MayShare == ~g.dma /\ ~g.inter

\* A load or a store; one that finds no place is left out altogether.
LoadStore ==
  /\ Filling /\ ~leaked /\ ~g.fp /\ "ls" \notin keepOut
  /\ \E a \in g.data :
       \/ \E isLoad \in BOOLEAN : ClaimLS(a, isLoad)
       \/ MayShare /\ AddLoadMultiUseRange(a)
  /\ \E n \in Onward(4) : cur' = Put(n)
  /\ keepOut' = KeepOut
  /\ UNCHANGED <<dmaVars, g, phase, subRoutinePendingList, subRoutineDoneList,
                 numSubRoutine, leaked, jumps, k, sections>>

\* A floating point macro, which ends in a store.
MegaInstr ==
  /\ Filling /\ g.fp
  /\ \/ \E a \in g.data : ClaimLS(a, FALSE)
     \/ /\ failed' = "no_store"
        /\ UNCHANGED <<fRangeListForFetch, fRangeListForLS, check_set,
                       fLSFillRangeList, fLoadNotSafeRangeList, fAccessMem>>
  /\ cur' = Put(MegaBytes)
  /\ keepOut' = KeepOut
  /\ UNCHANGED <<dmaVars, g, phase, subRoutinePendingList, subRoutineDoneList,
                 numSubRoutine, leaked, jumps, k, sections>>

\* The first half of a branch that claims twice: the position of the free
\* range, taken for a register number, is too large for one.
LeakingBranch ==
  /\ phase = "start" \/ (Filling /\ ~g.fp /\ MayBranch(KeepOut))
  /\ \E t \in Targets : RegisterFound(t) /\ Index(t) >= NREGS
  /\ leaked' = TRUE
  /\ UNCHANGED <<dmaVars, g, phase, cur, subRoutinePendingList,
                 subRoutineDoneList, numSubRoutine, keepOut, jumps, k, sections>>

BranchInstr ==
  /\ phase = "fill" /\ failed = "no" /\ ~g.fp
  /\ leaked \/ (MoreToFill /\ MayBranch(KeepOut))
  /\ \E t \in Targets, size \in Sizes :
       /\ Branch(cur.addr + cur.i, t, size)
       /\ \E n \in Onward(size) : cur' = [Put(n) EXCEPT !.branches = @ + 1]
       /\ jumps' = jumps \cup {t}
       /\ subRoutinePendingList' = Append(subRoutinePendingList, t)
  /\ numSubRoutine' = numSubRoutine + 1
  /\ keepOut' = KeepOut
  /\ UNCHANGED <<dmaVars, g, phase, subRoutineDoneList, k, sections>>

\* Mutant: a subroutine that is added while another is filled gets lost.
Rest_Dropped(q) == IF Len(q) > 2 THEN Tail(Tail(q)) ELSE Tail(q)
Rest(q) == Tail(q)

\* Bytes printed after the body: the loop, and the jump to what comes next.
Ending ==
  IF g.fp THEN 0
  ELSE IF ~cur.hw THEN LoopBytes
  ELSE IF cur.done THEN 0
  ELSE Align8(cur.used) + 8 - cur.used

\* The end of FillSubroutine and the jump its caller adds.
EndSubroutine ==
  /\ phase = "fill" /\ failed = "no" /\ ~leaked /\ ~MoreToFill
  /\ failed' = IF ~g.fp /\ cur.hw /\ ~cur.done /\ cur.count <= 7
               THEN "loop_count" ELSE failed
  /\ subRoutineDoneList' =
       Append(subRoutineDoneList,
              [addr |-> cur.addr, used |-> cur.used + Ending + JumpBytes])
  /\ subRoutinePendingList' =
       IF cur.isr THEN subRoutinePendingList ELSE Rest(subRoutinePendingList)
  /\ phase' = IF cur.isr THEN "isr" ELSE "idle"
  /\ k' = IF cur.isr THEN k + 1 ELSE k
  /\ cur' = NoSub
  /\ UNCHANGED <<fRangeListForFetch, fRangeListForLS, check_set,
                 fLSFillRangeList, fLoadNotSafeRangeList, fAccessMem, dmaVars, g,
                 numSubRoutine, keepOut, leaked, jumps, sections>>
-----------------------------------------------------------------------------
\* GenerateRandomISR: a routine for each interrupt, shorter than others and
\* without branches; only the first, of the software interrupt, has loads and
\* stores.
ISRKeepOut == keepOut \cup {"branch"} \cup (IF k > 0 THEN {"ls"} ELSE {})

ClaimISR ==
  /\ phase = "isr" /\ g.inter /\ k < MAX_NUM_INTER
  /\ \E f \in Draw :
       /\ GetGenRangebyJump(f)
       /\ cur' = [NoSub EXCEPT !.addr = Even(f)] /\ jumps' = jumps \cup {Even(f)}
  /\ phase' = "isr_claimed" /\ keepOut' = ISRKeepOut
  /\ UNCHANGED <<dmaVars, g, subRoutinePendingList, subRoutineDoneList,
                 numSubRoutine, leaked, k, sections>>

FillISR == phase = "isr_claimed" /\ Start(cur.addr, ISRSize, TRUE)

NoISRMemory ==
  /\ phase = "isr" /\ g.inter /\ k < MAX_NUM_INTER
  /\ fRangeListForFetch = {}
  /\ k' = k + 1 /\ keepOut' = ISRKeepOut
  /\ UNCHANGED <<memVars, dmaVars, g, phase, cur, subRoutinePendingList,
                 subRoutineDoneList, numSubRoutine, leaked, jumps, sections>>

WorklistDone ==
  /\ phase = "idle" /\ subRoutinePendingList = <<>> /\ failed = "no"
  /\ phase' = "isr"
  /\ UNCHANGED <<memVars, dmaVars, g, cur, subRoutinePendingList,
                 subRoutineDoneList, numSubRoutine, keepOut, leaked, jumps, k,
                 sections>>

\* GenerateRegularDMA
StartDMA ==
  /\ phase = "isr" /\ (g.inter => k = MAX_NUM_INTER)
  /\ IF g.dma
     THEN /\ \E fetch \in SortedBy(CompareRangeAddr(fRangeListForFetch)),
               ls \in SortedBy(CompareRangeAddr(fRangeListForLS)) :
               Redistribute(fetch \o ls)
          /\ fRangeListForFetch' = {} /\ fRangeListForLS' = {}
          /\ phase' = "dma" /\ collecting' = TRUE
     ELSE /\ phase' = "print"
          /\ UNCHANGED <<collecting, fetchList, lsList, fRangeListForFetch,
                         fRangeListForLS>>
  /\ UNCHANGED <<check_set, fLSFillRangeList, fLoadNotSafeRangeList, fAccessMem,
                 failed, engine, fDescrList, g, cur, subRoutinePendingList,
                 subRoutineDoneList, numSubRoutine, keepOut, leaked, jumps, k,
                 sections>>

DMA ==
  /\ phase = "dma" /\ failed = "no"
  /\ \/ /\ AllocateTCB(g)
        /\ UNCHANGED <<phase, fLSFillRangeList, fAccessMem>>
     \/ /\ UpdateFields
        /\ phase' = IF engine = 1 THEN "print" ELSE phase
  /\ UNCHANGED <<fRangeListForFetch, fRangeListForLS, check_set,
                 fLoadNotSafeRangeList, g, cur, subRoutinePendingList,
                 subRoutineDoneList, numSubRoutine, keepOut, leaked, jumps, k,
                 sections>>

\* Mutant: sections are merged in the order in which they were added.
Before_Reverse(r, s) == r[2] > s[2] \/ (r[2] = s[2] /\ r[1] > s[1])

Before(r, s) == r[1] < s[1] \/ (r[1] = s[1] /\ r[2] < s[2])

\* UnifyLSList: a section that starts inside an earlier one, or where it ends,
\* is merged with it.
UnifyLSList(S) ==
  LET firsts == {r \in S : \A q \in S : Before(q, r) => q[2] < r[1]}
      Merged(f) ==
        {q \in S : /\ q = f \/ Before(f, q)
                   /\ \A h \in firsts : Before(f, h) => q # h /\ ~Before(h, q)}
  IN {<<f[1], Max({q[2] : q \in Merged(f)})>> : f \in firsts}

PrintAssemlySections ==
  /\ phase = "print" /\ failed = "no"
  /\ sections' = UnifyLSList(fLSFillRangeList \cup fLoadNotSafeRangeList)
  /\ phase' = "done"
  /\ UNCHANGED <<memVars, dmaVars, g, cur, subRoutinePendingList,
                 subRoutineDoneList, numSubRoutine, keepOut, leaked, jumps, k>>

Next ==
  \/ FirstBranch \/ NoBranch \/ NextSubroutine
  \/ Plain \/ LoadStore \/ MegaInstr \/ LeakingBranch \/ BranchInstr
  \/ EndSubroutine \/ WorklistDone
  \/ ClaimISR \/ FillISR \/ NoISRMemory
  \/ StartDMA \/ DMA \/ PrintAssemlySections

Spec == Init /\ [][Next]_vars
FairSpec == Spec /\ WF_vars(Next)
-----------------------------------------------------------------------------
\* The assertions of the allocator hold, and that of the DMA engine about the
\* size of a range; those about a hardware loop and about the store of a
\* floating point macro may fail.
GeneratorAsserts == AssertionsHold /\ failed # "dma_range"

\* The bytes a routine prints: of the worklist, of an interrupt, or of a DMA
\* interrupt (at most eight instructions).
CodeArea(s) == <<s.addr, s.addr + s.used - 1>>
Written == {n \in 1..Len(subRoutineDoneList) : subRoutineDoneList[n].addr # NoTarget}
Code == {CodeArea(subRoutineDoneList[n]) : n \in Written}
DmaISRs == {<<t.isr, t.isr + 31>> : t \in {u \in TCBs(0) \cup TCBs(1) : u.isr # 0}}

\* Every routine, with its loop and the jump that ends it, stays within the
\* memory claimed for it: the odd address moved up, the branch that sets a
\* register and the alignment of a hardware loop included.
SubroutineFits ==
  \A c \in Code : \E m \in check_set : m[1] <= c[1] /\ c[2] <= m[2]

\* No byte of the linked test belongs to two routines, or to a routine and a
\* data section.
LinksWithoutOverlap ==
  phase = "done" =>
    /\ \A m, n \in Written :
         m # n => ~Meet(CodeArea(subRoutineDoneList[m]), CodeArea(subRoutineDoneList[n]))
    /\ \A c \in Code \cup DmaISRs, s \in sections : ~Meet(c, <<s[1], s[2] - 1>>)
    /\ \A c \in Code, i \in DmaISRs : ~Meet(c, i)

\* The addresses of the routines that are in the test.
Starts == {subRoutineDoneList[n].addr : n \in Written}

\* Which branches of a test lead nowhere.  The worklist loses none: in a test
\* with routines every branch and every interrupt goes to the start of one,
\* but for branches that took an unset variable for a register (NoTarget).
\* A test without routines has no branch but the first, which is lost: it has
\* taken the last of the memory.
OnlyFirstBranchLost ==
  phase = "done" =>
    /\ subRoutineDoneList # <<>> => jumps \ {NoTarget} \subseteq Starts
    /\ subRoutineDoneList = <<>> => \A s, t \in jumps : s = t /\ t # NoTarget

\* The printed sections hold every byte of the sections asked for and no
\* other, and no two of them touch.
SectionsMerged ==
  LET asked == fLSFillRangeList \cup fLoadNotSafeRangeList IN
  phase = "done" =>
    /\ \A r, s \in sections : r # s => r[2] < s[1] \/ s[2] < r[1]
    /\ \A a \in asked : \E s \in sections : s[1] <= a[1] /\ a[2] <= s[2]
    /\ \A s \in sections :
         /\ \E a \in asked : a[1] = s[1]
         /\ \A a \in asked : s[1] <= a[1] /\ a[2] < s[2] =>
              \E b \in asked : b[1] <= a[2] /\ a[2] < b[2]

\* The transfers of engine 0 share no byte with anything else of the test;
\* those of engine 1 may share data, with each other only.
TransfersApart ==
  LET Own(t) == Data(t) \cup {Descriptor(t)}
      zero == UNION {Own(t) : t \in TCBs(0)}
      one == UNION {Own(t) : t \in TCBs(1)}
  IN /\ \A e \in 0..1 : \A m, n \in 1..Len(fDescrList[e]) : m # n =>
          LET t == fDescrList[e][m]  u == fDescrList[e][n] IN
          \A a \in Own(t), b \in (IF e = 0 THEN Own(u) ELSE {Descriptor(u)}) :
            ~Meet(a, b)
     /\ \A a \in zero, b \in one : ~Meet(a, b)
     /\ \A a \in zero \cup one, m \in check_set : ~Meet(a, m)

\* A transfer stays within the two ranges that were taken for it, whatever the
\* strides, the counts and the direction drawn.
TransferInside ==
  \A t \in TCBs(0) \cup TCBs(1) :
    /\ t.from[1] <= t.src /\ t.src + t.max <= t.from[2]
    /\ t.to[1] <= t.dst /\ t.dst + t.max <= t.to[2]
    /\ phase = "done" =>
         \A s \in Shapes(t) : s.inner > 0 => Reach(s, t) <= Down(t.max, t.size)

\* SimulateDMA: every TCB but the last goes on to the next, whose descriptor
\* lies in the chip's own low memory, and the last goes nowhere.
ChainEnds ==
  \A e \in 0..1 : ~(collecting /\ engine = e) =>
    LET list == fDescrList[e] IN
    \A n \in 1..Len(list) :
      IF n = Len(list) THEN list[n].link = "last"
      ELSE /\ list[n].link # "last"
           /\ list[n].next = list[n + 1].loc /\ list[n].next < MAX_CHAIN_ADDRESS

\* When a TCB with an interrupt routine is done, the interrupt vector holds
\* the address of that routine and not of an earlier one.
VectorFollows ==
  \A e \in 0..1 : \A n \in 1..Len(fDescrList[e]) :
    fDescrList[e][n].isr # 0 => Vector(fDescrList[e], n) = fDescrList[e][n].isr

\* The generator comes to an end.
Finishes == <>(phase = "done" \/ failed # "no")

\* FillSubroutine's assertions about a hardware loop fail in two cases only:
\* the one about the room for its body, when an interrupt routine is taken for
\* the loop; the one about its more than seven instructions, when the memory
\* for code is used up.
LoopsFit ==
  /\ failed = "loop_body" => cur.isr
  /\ failed = "loop_count" => fRangeListForFetch = {}

\* CreateProgram prints its first branch as the "jump to code", and the branch
\* instruction makes a label when it finds no register: every branch of a test
\* that is finished goes to the start of a routine that is in the test.
BranchesLeadToCode == phase = "done" => jumps \subseteq Starts
=============================================================================

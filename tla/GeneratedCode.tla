---------------------------- MODULE GeneratedCode -----------------------------
(***************************************************************************)
(* What the generator believes of the registers (igen/regs.h), and a core  *)
(* that runs what was generated.                                           *)
(*                                                                         *)
(* While it draws the instructions of a routine the generator simulates    *)
(* them: it keeps the registers whose values it knows, to choose addresses *)
(* from, and the order in which registers were changed, for the interrupt  *)
(* routines to save and restore.  The core runs the body of the routine    *)
(* several times, and an interrupt may come between any two instructions.  *)
(*                                                                         *)
(* A register holds a small number; sums are taken modulo 2, and of the    *)
(* flags there is only zero.                                               *)
(***************************************************************************)
EXTENDS Integers, FiniteSets, SequencesExt

CONSTANTS
  NREGS, MAX_NUM_INTER,
  LoopIterations,  \* what MAXLOOP_IT may be
  FirstIndices,    \* bound: what Init draws for fMemRegInd1
  MainMenu, ISRMenu,   \* bound: the instructions that are drawn
  MainLength, ISRLength,  \* bounds: of the bodies
  MaxInterrupts    \* bound: the interrupts that come

Main == MAX_NUM_INTER    \* the routine that is not of an interrupt
Routines == 0..Main
Values == 0..1
Address == 2        \* in a register: some address of code or data
Frame == 3          \* ISR_SAVE_RESTORE_SPACE
Random == 5         \* what a register holds first

ASSUME NREGSAssumption ==
  NREGS \in Nat /\ NREGS >= 5 /\ FirstIndices \subseteq 2..NREGS - 2

ASSUME BoundsAssumption ==
  {MAX_NUM_INTER, MainLength, ISRLength} \cup LoopIterations \subseteq Nat

Registers == 0..NREGS - 1

\* Moves, data processing, a load through a register and one that moves the
\* pointer on.
Instructions ==
  [op : {"MOV_IMM"}, rd : Registers, val : Nat]
    \cup [op : {"MOV_REG"}, cond : {"always", "EQ", "NE", "BEQ"},
          rd : Registers, rn : Registers]
    \cup [op : {"DATA_P"}, rd : Registers, rn : Registers, rm : Registers]
    \cup [op : {"READ"}, rd : Registers]
    \cup [op : {"POSTMOD"}, rd : Registers, rn : Registers, val : Nat]

ASSUME MenuAssumption == MainMenu \cup ISRMenu \subseteq Instructions

VARIABLES
  phase,       \* setting up, filling routines, running them
  todo,        \* the routines still to fill, the first of them being filled
  fMemRegInd1, fMemRegInd2, fLoopCountReg, MAXLOOP_IT,
  fConstRegs,  \* the pointers: registers that keep their value
  fRF,         \* the known registers and their values
  fAZ,         \* the zero flag: the set of its value, or empty if not known
  fModifiedRegs,
  body, beliefs,  \* the routine being filled; what was known before each step
  code,        \* the routines that are filled
  \* the core: registers, zero flag, where it is, the hardware's return address
  \* and interrupt disable, the interrupts in service, the words at Frame
  rf, az, pc, iret, gid, inService, slots,
  was,         \* history: registers, flag and place at each interrupt
  coming       \* the interrupts that may still come

genVars == <<todo, fMemRegInd1, fMemRegInd2, fLoopCountReg, MAXLOOP_IT,
             fConstRegs, fRF, fAZ, fModifiedRegs, body, beliefs, code>>
coreVars == <<rf, az, pc, iret, gid, inService, slots, was, coming>>
vars == <<phase, genVars, coreVars>>

fIntFrameReg == fLoopCountReg + 1

\* The registers as the generator sees them.
regM == [rf |-> fRF, az |-> fAZ, mod |-> fModifiedRegs]
-----------------------------------------------------------------------------
\* The register manager

RecordChangedReg(m, ind) ==
  [m EXCEPT !.mod = IF ind \in ToSet(@) THEN @ ELSE Append(@, ind)]

SetReg(m, ind, val) ==
  RecordChangedReg([m EXCEPT !.rf = [r \in DOMAIN @ \cup {ind} |->
                                       IF r = ind THEN val ELSE @[r]]], ind)

InvalidateReg(m, ind) ==
  RecordChangedReg([m EXCEPT !.rf = [r \in DOMAIN @ \ {ind} |-> @[r]]], ind)

InvalidateAllFlags(m) == [m EXCEPT !.az = {}]

Known(m, ind) == ind \in DOMAIN m.rf

\* At the start of a routine.
InvalidateAllRegs == [rf |-> fConstRegs, az |-> {}, mod |-> <<>>]

\* An instruction changes neither the pointers nor the registers between them.
Dests == Registers \ (fMemRegInd1..fMemRegInd2)
-----------------------------------------------------------------------------
\* What an instruction does to the generator's registers.

\* Data processing: the result is known if the operands are and, in a loop, do
\* not change with it.
Sum(a, b) == (a + b) % 2

Result(m, i) ==
  IF /\ MAXLOOP_IT = 0 \/ i.rd \notin {i.rn, i.rm}
     /\ Known(m, i.rn) /\ Known(m, i.rm)
  THEN LET v == Sum(m.rf[i.rn], m.rf[i.rm])
       IN [SetReg(m, i.rd, v) EXCEPT !.az = IF v = 0 THEN {1} ELSE {0}]
  ELSE InvalidateReg(m, i.rd)

\* Mutant: the flags are set when they are known and not forgotten otherwise.
DataP_KeepsFlags(m, i) == Result(m, i)

DataP(m, i) == Result(InvalidateAllFlags(m), i)

\* Whether a condition holds when the zero flag is z.
Holds(cond, z) ==
  \/ cond = "always"
  \/ cond = "EQ" /\ z = 1
  \/ cond = "NE" /\ z = 0

\* A move on a condition: one known not to hold changes nothing, and of one on
\* the flags of floating point ("BEQ") nothing is known.
MovReg(m, i) ==
  IF Known(m, i.rn) /\ (i.cond = "always" \/ (m.az # {} /\ i.cond # "BEQ"))
  THEN IF i.cond = "always" \/ \E z \in m.az : Holds(i.cond, z)
       THEN SetReg(m, i.rd, m.rf[i.rn])
       ELSE m
  ELSE InvalidateReg(m, i.rd)

\* A load whose pointer is moved on; what it loads was put there for it.
PostMod(m, i) ==
  LET n == IF MAXLOOP_IT = 0
           THEN SetReg(m, i.rn, Sum(m.rf[i.rn], 1))
           ELSE InvalidateReg(m, i.rn)
  IN SetReg(n, i.rd, i.val)

Simulate(m, i) ==
  CASE i.op = "MOV_IMM" -> SetReg(m, i.rd, i.val)
    [] i.op = "MOV_REG" -> MovReg(m, i)
    [] i.op = "DATA_P"  -> DataP(m, i)
    [] i.op = "READ"    -> InvalidateReg(m, i.rd)
    [] i.op = "POSTMOD" -> PostMod(m, i)

\* Whether i may be drawn for routine c: only the first interrupt routine has
\* loads, and the pointer of one that is moved on is known.
MayDraw(c, i) ==
  /\ i.rd \in Dests
  /\ i.op = "POSTMOD" =>
       /\ c \in {0, Main}
       /\ Known(regM, i.rn) /\ i.rn \in Dests /\ i.rn # i.rd
-----------------------------------------------------------------------------
\* Generating the routines.

\* The registers an interrupt routine changes beside those of its body.
\* Mutant: they are recorded before the body, whose start forgets them.
ISRRegs_Early(m) == m
ISRRegs(m) ==
  SetReg(SetReg(SetReg(m, 0, 0), 1, 0), fLoopCountReg, 1 + MAXLOOP_IT)

Menu(c) == IF c = Main THEN MainMenu ELSE ISRMenu
Length(c) == IF c = Main THEN MainLength ELSE ISRLength

Current == Head(todo)

Believe(m) == fRF' = m.rf /\ fAZ' = m.az /\ fModifiedRegs' = m.mod

Unfilled == [body |-> <<>>, beliefs |-> <<>>, saved |-> <<>>, filled |-> FALSE]
Place(c, n) == [who |-> c, at |-> n]
IsReturn(w) == w % NREGS = NREGS - 1

Init ==
  /\ phase = "setup" /\ todo = <<Main>> \o [n \in 1..MAX_NUM_INTER |-> n - 1]
  /\ fMemRegInd1 \in FirstIndices /\ fLoopCountReg = fMemRegInd1
  /\ fMemRegInd2 = fMemRegInd1 + 2
  /\ MAXLOOP_IT \in LoopIterations
  /\ fConstRegs = <<>>
  /\ fRF = [r \in Registers \ {fLoopCountReg, fIntFrameReg} |-> Random]
  /\ fAZ = {} /\ fModifiedRegs = <<>>
  /\ body = <<>> /\ beliefs = <<>>
  /\ code = [c \in Routines |-> Unfilled]
  /\ rf = [r \in Registers |-> 0]
  /\ az = 0
  /\ pc = Place(Main, 0) /\ iret = Place(Main, 0) /\ gid = FALSE
  /\ inService = {} /\ was = <<>> /\ coming = MaxInterrupts
  /\ slots = [w \in 0..MAX_NUM_INTER * NREGS - 1 |->
                IF IsReturn(w) THEN Place(Main, 0) ELSE Address]

\* CreateProgram may set registers aside to hold addresses of data: those after
\* the loop and the frame register or, if there are none, those before them.
CreateSetMemPointerReg ==
  LET ind == IF fMemRegInd2 = NREGS THEN fMemRegInd1 - 1 ELSE fMemRegInd2
      m == SetReg(regM, ind, Address)
  IN
  /\ phase = "setup" /\ Cardinality(DOMAIN fConstRegs) < NREGS \div 4
  /\ IF fMemRegInd2 = NREGS
     THEN fMemRegInd1' = ind /\ fMemRegInd2' = fMemRegInd2
     ELSE fMemRegInd1' = fMemRegInd1 /\ fMemRegInd2' = fMemRegInd2 + 1
  /\ fConstRegs' = [r \in DOMAIN fConstRegs \cup {ind} |-> m.rf[r]]
  /\ Believe(m)
  /\ UNCHANGED <<phase, todo, fLoopCountReg, MAXLOOP_IT, body, beliefs, code,
                 coreVars>>

\* The program sets all registers before it jumps to the first routine.
BeginSubroutines ==
  /\ phase = "setup" /\ phase' = "fill"
  /\ rf' = [r \in DOMAIN rf |-> CASE r = fLoopCountReg -> 1 + MAXLOOP_IT
                                  [] r = fIntFrameReg  -> Frame
                                  [] OTHER             -> fRF[r]]
  /\ Believe(InvalidateAllRegs)
  /\ UNCHANGED <<todo, fMemRegInd1, fMemRegInd2, fLoopCountReg, MAXLOOP_IT,
                 fConstRegs, body, beliefs, code, az, pc, iret, gid, inService,
                 slots, was, coming>>

\* Once there is no memory for the body of an interrupt routine, there is none
\* for the next either.
Memory == \A i \in Routines : Current # Main /\ i < Current => code[i].filled

Belief == [rf |-> fRF, az |-> fAZ]

Instruction ==
  /\ phase = "fill" /\ Len(body) < Length(Current) /\ Memory
  /\ \E i \in Menu(Current) :
       /\ MayDraw(Current, i)
       /\ body' = Append(body, i) /\ Believe(Simulate(regM, i))
  /\ beliefs' = Append(beliefs, Belief)
  /\ UNCHANGED <<phase, todo, fMemRegInd1, fMemRegInd2, fLoopCountReg,
                 MAXLOOP_IT, fConstRegs, code, coreVars>>

\* The end of a routine whose registers are m, and the start of the next.
Close(m, filled) ==
  /\ code' = [code EXCEPT ![Current] =
                [body |-> body, beliefs |-> Append(beliefs, Belief),
                 saved |-> m.mod, filled |-> filled]]
  /\ todo' = Tail(todo)
  /\ phase' = IF Len(todo) = 1 THEN "run" ELSE phase
  /\ body' = <<>> /\ beliefs' = <<>>
  /\ Believe(InvalidateAllRegs)
  /\ UNCHANGED <<fMemRegInd1, fMemRegInd2, fLoopCountReg, MAXLOOP_IT,
                 fConstRegs, coreVars>>

EndSubroutine ==
  LET m == SetReg(regM, fLoopCountReg, 0) IN
  /\ phase = "fill" /\ body # <<>>
  /\ Close(IF Current = Main THEN m ELSE ISRRegs(m), TRUE)

\* There is no memory left for the body of an interrupt routine.
NoISRMemory ==
  /\ phase = "fill" /\ Current # Main /\ body = <<>>
  /\ Close(ISRRegs(regM), FALSE)
-----------------------------------------------------------------------------
\* The core runs the routines.

Routine == code[pc.who]
\* A routine is entered; its body starts; the loop around it: subtract, branch
\* and set the counter again; its end.
Entry == -1
Tail0 == Len(Routine.body)
End(c) == Len(code[c].body) + 3

Running == phase = "run"
At(n) == Running /\ pc.at = n
Go(n) == pc' = [pc EXCEPT !.at = n]
Quiet == UNCHANGED <<phase, genVars, iret, gid, inService, slots, was, coming>>

\* The registers and the flag after instruction i.
Effects(i) ==
  LET Written(r, v) == [rf EXCEPT ![r] = v] IN
  CASE i.op = "MOV_IMM" -> {<<Written(i.rd, i.val), az>>}
    [] i.op = "MOV_REG" ->
         IF i.cond = "BEQ" THEN {<<rf, az>>, <<Written(i.rd, rf[i.rn]), az>>}
         ELSE {<<IF Holds(i.cond, az) THEN Written(i.rd, rf[i.rn]) ELSE rf, az>>}
    [] i.op = "DATA_P"  ->
         LET v == Sum(rf[i.rn], rf[i.rm])
         IN {<<Written(i.rd, v), IF v = 0 THEN 1 ELSE 0>>}
    [] i.op = "READ"    -> {<<Written(i.rd, v), az>> : v \in Values}
    [] i.op = "POSTMOD" ->
         {<<[rf EXCEPT ![i.rn] = Sum(@, 1), ![i.rd] = i.val], az>>}

Execute ==
  /\ Running /\ pc.at \in 0..Len(Routine.body) - 1
  /\ \E e \in Effects(Routine.body[pc.at + 1]) : rf' = e[1] /\ az' = e[2]
  /\ Go(pc.at + 1) /\ Quiet

Subtract ==
  /\ At(Tail0)
  /\ rf' = [rf EXCEPT ![fLoopCountReg] = @ - 1]
  /\ az' = IF rf'[fLoopCountReg] = 0 THEN 1 ELSE 0
  /\ Go(Tail0 + 1) /\ Quiet

LoopBack ==
  /\ At(Tail0 + 1)
  /\ Go(IF az = 0 THEN 0 ELSE Tail0 + 2)
  /\ UNCHANGED <<rf, az>> /\ Quiet

SetCounter ==
  /\ At(Tail0 + 2)
  /\ rf' = [rf EXCEPT ![fLoopCountReg] = 1 + MAXLOOP_IT]
  /\ Go(Tail0 + 3) /\ UNCHANGED az /\ Quiet

\* The hardware serves timers before the software interrupt, and a routine only
\* gives way to one served before it.
Rank(i) == IF i = 0 THEN MAX_NUM_INTER ELSE i

isNestedAllowed(i) == i # 0

SaveArea(i, n) == i * NREGS + n
StatusSlot(i) == SaveArea(i, NREGS - 2)
IretSlot(i) == SaveArea(i, NREGS - 1)

\* The words at Frame when the registers q are saved.
Saved(i, q) ==
  [w \in DOMAIN slots |->
     IF w = IretSlot(i) /\ isNestedAllowed(i) THEN pc
     ELSE IF w = StatusSlot(i) THEN az
     ELSE IF \E n \in 1..Len(q) : w = SaveArea(i, n - 1)
     THEN rf[q[w - SaveArea(i, 0) + 1]]
     ELSE slots[w]]

\* An interrupt comes and its routine saves what it is going to change; a timer
\* routine, when it has saved the return address too, lets others in.
Interrupt(i) ==
  /\ Running /\ coming > 0 /\ pc # Place(Main, End(Main))
  /\ ~gid /\ \A j \in inService : Rank(i) < Rank(j)
  /\ slots' = Saved(i, code[i].saved)
  /\ rf' = [rf EXCEPT ![0] = az, ![1] = IF isNestedAllowed(i) THEN Address ELSE @]
  /\ iret' = pc /\ pc' = Place(i, Entry)
  /\ gid' = ~isNestedAllowed(i)
  /\ inService' = inService \cup {i}
  /\ was' = Append(was, [rf |-> rf, az |-> az, pc |-> pc])
  /\ coming' = coming - 1
  /\ UNCHANGED <<phase, genVars, az>>

\* The routine of a timer counts; then comes the jump to the body, or to the
\* end where there is none.
Enter ==
  /\ At(Entry)
  /\ rf' = [rf EXCEPT ![0] = Address, ![fLoopCountReg] = 1 + MAXLOOP_IT,
                      ![1] = IF pc.who > 0 THEN Address ELSE @]
  /\ IF pc.who > 0 THEN az' \in Values ELSE az' = az
  /\ Go(IF Routine.filled THEN 0 ELSE End(pc.who))
  /\ Quiet

\* Restoring: interrupts are disabled, and the return address, the flags and
\* the registers are loaded again.
Return ==
  LET q == Routine.saved
      i == pc.who
      Scratch == [rf EXCEPT ![0] = slots[StatusSlot(i)],
                            ![1] = IF isNestedAllowed(i) THEN Address ELSE @]
  IN
  /\ Running /\ i # Main /\ pc.at = End(i)
  /\ rf' = [r \in DOMAIN rf |->
              IF \E n \in 1..Len(q) : q[n] = r
              THEN slots[SaveArea(i, (CHOOSE n \in 1..Len(q) : q[n] = r) - 1)]
              ELSE Scratch[r]]
  /\ az' = slots[StatusSlot(i)]
  /\ iret' = IF isNestedAllowed(i) THEN slots[IretSlot(i)] ELSE iret
  /\ pc' = iret' /\ gid' = FALSE
  /\ inService' = inService \ {i}
  /\ was' = Front(was)
  /\ UNCHANGED <<phase, genVars, slots, coming>>

Next ==
  \/ CreateSetMemPointerReg \/ BeginSubroutines
  \/ Instruction \/ EndSubroutine \/ NoISRMemory
  \/ Execute \/ Subtract \/ LoopBack \/ SetCounter
  \/ (\E i \in 0..MAX_NUM_INTER - 1 : Interrupt(i))
  \/ Enter \/ Return

Spec == Init /\ [][Next]_vars
-----------------------------------------------------------------------------
\* The generator takes addresses from the registers it knows: before every
\* instruction, in every iteration, and whatever interrupts came since, a known
\* register has the value the generator knew when it drew the instruction, the
\* zero flag too, and the frame register leads to the words reserved.
BeliefsHold ==
  (Running /\ pc.at \in 0..Len(Routine.body)) =>
    LET b == Routine.beliefs[pc.at + 1] IN
    /\ \A r \in DOMAIN b.rf : rf[r] = b.rf[r]
    /\ \A z \in b.az : az = z
    /\ rf[fIntFrameReg] = Frame

\* An interrupt routine leaves no trace: when it returns, every register, the
\* flag and the place are those of the routine it interrupted, also if it was
\* itself interrupted in between.
ReturnsAsItWas ==
  [][Len(was') < Len(was) =>
       rf' = Last(was).rf /\ az' = Last(was).az /\ pc' = Last(was).pc]_vars
=============================================================================

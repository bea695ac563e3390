------------------------- MODULE GeneratedCodeProofs --------------------------
(***************************************************************************)
(* Theorems about GeneratedCode, for any number of registers, interrupts   *)
(* and instructions: what the generator believes of the registers is true  *)
(* of the core, and an interrupt routine leaves no trace.                  *)
(***************************************************************************)
EXTENDS GeneratedCode, SequenceTheorems, FiniteSetTheorems, TLAPS

\* What may be known of the registers, and of them and the zero flag.
Knowledge == UNION {[D -> Int] : D \in SUBSET Registers}
Beliefs == [rf : Knowledge, az : SUBSET Values]
-----------------------------------------------------------------------------
(***************************************************************************)
(* An instruction, as the generator simulates it and as the core runs it.  *)
(***************************************************************************)
Manager(a, z, s) == [rf |-> a, az |-> z, mod |-> s]

With(a, ind, val) ==
  [r \in DOMAIN a \cup {ind} |-> IF r = ind THEN val ELSE a[r]]
Without(a, ind) == [r \in DOMAIN a \ {ind} |-> a[r]]
Recorded(s, ind) == IF ind \in ToSet(s) THEN s ELSE Append(s, ind)

\* The core's registers q and flag x are as b has them.
Agrees(b, q, x) ==
  (\A r \in DOMAIN b.rf : q[r] = b.rf[r]) /\ (\A y \in b.az : x = y)

\* An instruction drawn when the generator believed b.
Drawn(b, i) ==
  /\ i \in Instructions /\ i.rd \in Dests
  /\ i.op = "POSTMOD" => i.rn \in Dests \cap DOMAIN b.rf /\ i.rn # i.rd

LEMMA KnowledgeOf ==
  ASSUME NEW f, f = [r \in DOMAIN f |-> f[r]], DOMAIN f \subseteq Registers,
         \A r \in DOMAIN f : f[r] \in Int
  PROVE  f \in Knowledge
<1>1. f \in [DOMAIN f -> Int] OBVIOUS
<1>2. QED BY <1>1 DEF Knowledge

LEMMA KnowledgeIs ==
  ASSUME NEW f \in Knowledge
  PROVE  /\ f = [r \in DOMAIN f |-> f[r]] /\ DOMAIN f \subseteq Registers
         /\ \A r \in DOMAIN f : f[r] \in Int
<1>1. PICK D \in SUBSET Registers : f \in [D -> Int] BY DEF Knowledge
<1>2. QED BY <1>1

LEMMA WithIs ==
  ASSUME NEW a \in Knowledge, NEW ind \in Registers, NEW val \in Int
  PROVE  With(a, ind, val) \in Knowledge
<1> DEFINE w == With(a, ind, val)
<1>1. /\ w = [r \in DOMAIN w |-> w[r]] /\ DOMAIN w \subseteq Registers
      /\ \A r \in DOMAIN w : w[r] \in Int
  BY KnowledgeIs DEF With
<1>2. QED BY <1>1, KnowledgeOf

LEMMA WithoutIs ==
  ASSUME NEW a \in Knowledge, NEW ind PROVE Without(a, ind) \in Knowledge
<1> DEFINE w == Without(a, ind)
<1>1. /\ w = [r \in DOMAIN w |-> w[r]] /\ DOMAIN w \subseteq Registers
      /\ \A r \in DOMAIN w : w[r] \in Int
  BY KnowledgeIs DEF Without
<1>2. QED BY <1>1, KnowledgeOf

\* A changed register is recorded once.
LEMMA RecordedIs ==
  ASSUME NEW s \in Seq(Registers), NEW ind \in Registers
  PROVE  /\ Recorded(s, ind) \in Seq(Registers)
         /\ ToSet(Recorded(s, ind)) = ToSet(s) \cup {ind}
         /\ Len(Recorded(s, ind)) <= Len(s) + 1
         /\ ind \in ToSet(s) => Recorded(s, ind) = s
         /\ IsInjective(s) => IsInjective(Recorded(s, ind))
<1>1. CASE ind \in ToSet(s) BY <1>1, LenProperties DEF Recorded
<1>2. CASE ind \notin ToSet(s)
  <2>1. Recorded(s, ind) = Append(s, ind) BY <1>2 DEF Recorded
  <2>2. /\ Append(s, ind) \in Seq(Registers) /\ Len(Append(s, ind)) = Len(s) + 1
        /\ \A n \in 1..Len(s) : Append(s, ind)[n] = s[n]
        /\ Append(s, ind)[Len(s) + 1] = ind
        /\ DOMAIN Append(s, ind) = 1..Len(s) + 1 /\ DOMAIN s = 1..Len(s)
        /\ Len(s) \in Nat
    BY AppendProperties, LenProperties
  <2>3. ToSet(Append(s, ind)) = ToSet(s) \cup {ind}
    BY <2>2 DEF ToSet
  <2>4. Len(Append(s, ind)) <= Len(s) + 1 BY <2>2
  <2>5. \A n \in 1..Len(s) : s[n] # ind BY <1>2, <2>2 DEF ToSet
  <2>6. IsInjective(s) => IsInjective(Append(s, ind))
    BY <2>2, <2>5 DEF IsInjective
  <2>7. QED BY <1>2, <2>1, <2>2, <2>3, <2>4, <2>6, Zenon
<1>3. QED BY <1>1, <1>2, Zenon

LEMMA RecordChangedRegIs ==
  ASSUME NEW a, NEW z, NEW s, NEW ind
  PROVE  RecordChangedReg(Manager(a, z, s), ind) = Manager(a, z, Recorded(s, ind))
<1>1. Manager(a, z, s).mod = s BY DEF Manager
<1>2. RecordChangedReg(Manager(a, z, s), ind) =
        [Manager(a, z, s) EXCEPT !.mod = Recorded(s, ind)]
  BY <1>1 DEF RecordChangedReg, Recorded
<1>3. QED BY <1>2 DEF Manager

LEMMA SetRegIs ==
  ASSUME NEW a, NEW z, NEW s, NEW ind, NEW val
  PROVE  SetReg(Manager(a, z, s), ind, val) =
           Manager(With(a, ind, val), z, Recorded(s, ind))
<1> DEFINE n == [Manager(a, z, s) EXCEPT !.rf = [r \in DOMAIN @ \cup {ind} |->
                                                  IF r = ind THEN val ELSE @[r]]]
<1>1. Manager(a, z, s).rf = a BY DEF Manager
<1>2. n = [Manager(a, z, s) EXCEPT !.rf = With(a, ind, val)]
  BY <1>1 DEF With
<1>3. n = Manager(With(a, ind, val), z, s) BY <1>2 DEF Manager
<1>4. SetReg(Manager(a, z, s), ind, val) = RecordChangedReg(n, ind)
  BY DEF SetReg
<1>5. QED BY <1>3, <1>4, RecordChangedRegIs

LEMMA InvalidateRegIs ==
  ASSUME NEW a, NEW z, NEW s, NEW ind
  PROVE  InvalidateReg(Manager(a, z, s), ind) =
           Manager(Without(a, ind), z, Recorded(s, ind))
<1> DEFINE n == [Manager(a, z, s) EXCEPT !.rf = [r \in DOMAIN @ \ {ind} |-> @[r]]]
<1>1. Manager(a, z, s).rf = a BY DEF Manager
<1>2. n = [Manager(a, z, s) EXCEPT !.rf = Without(a, ind)]
  BY <1>1 DEF Without
<1>3. n = Manager(Without(a, ind), z, s) BY <1>2 DEF Manager
<1>4. InvalidateReg(Manager(a, z, s), ind) = RecordChangedReg(n, ind)
  BY DEF InvalidateReg
<1>5. QED BY <1>3, <1>4, RecordChangedRegIs

\* Instruction i makes of belief b the knowledge a and z, and changes of the
\* registers, at most, those of w: in the generator, where what was recorded
\* before only matters for what is to be recorded, and in the core.
Generates(b, i, a, z, w) ==
  /\ a \in Knowledge /\ z \in SUBSET Values /\ w \subseteq Registers \cap Dests
  /\ \A s \in Seq(Registers) : \E t \in Seq(Registers) :
       /\ Simulate(Manager(b.rf, b.az, s), i) = Manager(a, z, t)
       /\ ToSet(t) = ToSet(s) \cup w /\ Len(t) <= Len(s) + 2
       /\ w \subseteq ToSet(s) => t = s
       /\ IsInjective(s) => IsInjective(t)

Executes(b, i, a, z, w) ==
  (rf \in [Registers -> Int] /\ az \in Values /\ Agrees(b, rf, az)) =>
    \A e \in Effects(i) :
      /\ e[1] \in [Registers -> Int] /\ e[2] \in Values
      /\ Agrees([rf |-> a, az |-> z], e[1], e[2])
      /\ \A r \in Registers \ w : e[1][r] = rf[r]

Sound(b, i) ==
  \E a, z, w : Generates(b, i, a, z, w) /\ Executes(b, i, a, z, w)

LEMMA DestsAreRegisters == Dests \subseteq Registers BY DEF Dests


\* What is recorded of one changed register, of two, and of none.
LEMMA OneRecorded ==
  ASSUME NEW b \in Beliefs, NEW i, NEW a \in Knowledge, NEW z \in SUBSET Values,
         NEW r \in Registers \cap Dests,
         \A s \in Seq(Registers) : Simulate(Manager(b.rf, b.az, s), i) =
                                     Manager(a, z, Recorded(s, r))
  PROVE  Generates(b, i, a, z, {r})
<1>1. ASSUME NEW s \in Seq(Registers)
      PROVE  \E t \in Seq(Registers) :
               /\ Simulate(Manager(b.rf, b.az, s), i) = Manager(a, z, t)
               /\ ToSet(t) = ToSet(s) \cup {r} /\ Len(t) <= Len(s) + 2
               /\ {r} \subseteq ToSet(s) => t = s
               /\ IsInjective(s) => IsInjective(t)
  <2> DEFINE t == Recorded(s, r)
  <2>1. /\ t \in Seq(Registers) /\ ToSet(t) = ToSet(s) \cup {r}
        /\ Len(t) <= Len(s) + 1 /\ (r \in ToSet(s) => t = s)
        /\ IsInjective(s) => IsInjective(t)
    BY RecordedIs
  <2>2. Len(t) <= Len(s) + 2 BY <2>1, LenProperties
  <2> HIDE DEF t
  <2>3. QED BY <2>1, <2>2, Zenon DEF t
<1>2. QED BY <1>1 DEF Generates

LEMMA TwoRecorded ==
  ASSUME NEW b \in Beliefs, NEW i, NEW a \in Knowledge, NEW z \in SUBSET Values,
         NEW r \in Registers \cap Dests, NEW v \in Registers \cap Dests,
         \A s \in Seq(Registers) :
           Simulate(Manager(b.rf, b.az, s), i) =
             Manager(a, z, Recorded(Recorded(s, r), v))
  PROVE  Generates(b, i, a, z, {r, v})
<1>1. ASSUME NEW s \in Seq(Registers)
      PROVE  \E t \in Seq(Registers) :
               /\ Simulate(Manager(b.rf, b.az, s), i) = Manager(a, z, t)
               /\ ToSet(t) = ToSet(s) \cup {r, v} /\ Len(t) <= Len(s) + 2
               /\ {r, v} \subseteq ToSet(s) => t = s
               /\ IsInjective(s) => IsInjective(t)
  <2> DEFINE u == Recorded(s, r)
             t == Recorded(u, v)
  <2>1. /\ u \in Seq(Registers) /\ ToSet(u) = ToSet(s) \cup {r}
        /\ Len(u) <= Len(s) + 1 /\ (r \in ToSet(s) => u = s)
        /\ IsInjective(s) => IsInjective(u)
    BY RecordedIs
  <2>2. /\ t \in Seq(Registers) /\ ToSet(t) = ToSet(u) \cup {v}
        /\ Len(t) <= Len(u) + 1 /\ (v \in ToSet(u) => t = u)
        /\ IsInjective(u) => IsInjective(t)
    <3> HIDE DEF u
    <3>1. QED BY <2>1, RecordedIs
  <2>3. Simulate(Manager(b.rf, b.az, s), i) = Manager(a, z, t) OBVIOUS
  <2> HIDE DEF t, u
  <2>4. Len(t) <= Len(s) + 2 BY <2>1, <2>2, LenProperties
  <2>5. ToSet(t) = ToSet(s) \cup {r, v} BY <2>1, <2>2
  <2>6. {r, v} \subseteq ToSet(s) => t = s BY <2>1, <2>2, Zenon
  <2>7. IsInjective(s) => IsInjective(t) BY <2>1, <2>2
  <2>8. QED BY <2>2, <2>3, <2>4, <2>5, <2>6, <2>7, Zenon
<1>2. QED BY <1>1 DEF Generates

LEMMA NoneRecorded ==
  ASSUME NEW b \in Beliefs, NEW i, NEW a \in Knowledge, NEW z \in SUBSET Values,
         \A s \in Seq(Registers) :
           Simulate(Manager(b.rf, b.az, s), i) = Manager(a, z, s)
  PROVE  Generates(b, i, a, z, {})
<1>1. \A s \in Seq(Registers) : Len(s) <= Len(s) + 2 BY LenProperties
<1>2. QED BY <1>1, Zenon DEF Generates

LEMMA MovImmSound ==
  ASSUME NEW b \in Beliefs, NEW i, Drawn(b, i), i.op = "MOV_IMM"
  PROVE  Sound(b, i)
<1> DEFINE a == With(b.rf, i.rd, i.val)
<1>1. i.rd \in Registers /\ i.val \in Int /\ i.rd \in Dests
  BY DestsAreRegisters DEF Drawn, Instructions
<1>2. b.rf \in Knowledge /\ b.az \in SUBSET Values BY DEF Beliefs
<1>3. Generates(b, i, a, b.az, {i.rd})
  <2>1. a \in Knowledge BY <1>1, <1>2, WithIs
  <2>2. \A s \in Seq(Registers) : Simulate(Manager(b.rf, b.az, s), i) =
                                    Manager(a, b.az, Recorded(s, i.rd))
    BY SetRegIs DEF Simulate
  <2>3. QED BY <1>1, <1>2, <2>1, <2>2, OneRecorded
<1>4. Executes(b, i, a, b.az, {i.rd})
  BY <1>1, <1>2, KnowledgeIs DEF Executes, Effects, Agrees, With
<1>5. QED BY <1>3, <1>4 DEF Sound

LEMMA ReadSound ==
  ASSUME NEW b \in Beliefs, NEW i, Drawn(b, i), i.op = "READ"
  PROVE  Sound(b, i)
<1> DEFINE a == Without(b.rf, i.rd)
<1>1. i.rd \in Registers /\ i.rd \in Dests
  BY DestsAreRegisters DEF Drawn, Instructions
<1>2. b.rf \in Knowledge /\ b.az \in SUBSET Values BY DEF Beliefs
<1>3. Generates(b, i, a, b.az, {i.rd})
  <2>1. a \in Knowledge BY <1>2, WithoutIs
  <2>2. \A s \in Seq(Registers) : Simulate(Manager(b.rf, b.az, s), i) =
                                    Manager(a, b.az, Recorded(s, i.rd))
    BY InvalidateRegIs DEF Simulate
  <2>3. QED BY <1>1, <1>2, <2>1, <2>2, OneRecorded
<1>4. Executes(b, i, a, b.az, {i.rd})
  BY <1>1, <1>2, KnowledgeIs DEF Executes, Effects, Agrees, Without, Values
<1>5. QED BY <1>3, <1>4 DEF Sound

LEMMA MovRegSound ==
  ASSUME NEW b \in Beliefs, NEW i, Drawn(b, i), i.op = "MOV_REG"
  PROVE  Sound(b, i)
<1>1. i.rd \in Registers /\ i.rd \in Dests /\ i.rn \in Registers
  BY DestsAreRegisters DEF Drawn, Instructions
<1>2. b.rf \in Knowledge /\ b.az \in SUBSET Values BY DEF Beliefs
<1>3. \A s : Simulate(Manager(b.rf, b.az, s), i) = MovReg(Manager(b.rf, b.az, s), i)
  BY DEF Simulate
<1> DEFINE known == i.rn \in DOMAIN b.rf
             /\ (i.cond = "always" \/ (b.az # {} /\ i.cond # "BEQ"))
           moves == i.cond = "always" \/ \E x \in b.az : Holds(i.cond, x)
<1>4. CASE known /\ moves
  <2> DEFINE a == With(b.rf, i.rd, b.rf[i.rn])
  <2>1. b.rf[i.rn] \in Int BY <1>2, <1>4, KnowledgeIs
  <2>2. a \in Knowledge BY <1>1, <1>2, <2>1, WithIs
  <2>3. \A s \in Seq(Registers) : Simulate(Manager(b.rf, b.az, s), i) =
                                    Manager(a, b.az, Recorded(s, i.rd))
    BY <1>3, <1>4, SetRegIs DEF MovReg, Known, Manager
  <2>4. Generates(b, i, a, b.az, {i.rd}) BY <1>1, <1>2, <2>2, <2>3, OneRecorded
  <2>5. ASSUME Agrees(b, rf, az)
        PROVE Effects(i) = {<<[rf EXCEPT ![i.rd] = rf[i.rn]], az>>}
    <3>1. Holds(i.cond, az) BY <1>4, <2>5 DEF Agrees, Holds
    <3>2. i.cond # "BEQ" BY <1>4
    <3>3. QED BY <3>1, <3>2 DEF Effects
  <2>6. Executes(b, i, a, b.az, {i.rd})
    BY <1>1, <1>2, <1>4, <2>5, KnowledgeIs DEF Executes, Agrees, With
  <2>7. QED BY <2>4, <2>6 DEF Sound
<1>5. CASE known /\ ~moves
  <2>1. \A s \in Seq(Registers) :
          Simulate(Manager(b.rf, b.az, s), i) = Manager(b.rf, b.az, s)
    BY <1>3, <1>5 DEF MovReg, Known, Manager
  <2>2. Generates(b, i, b.rf, b.az, {}) BY <1>2, <2>1, NoneRecorded
  <2>3. ASSUME Agrees(b, rf, az) PROVE Effects(i) = {<<rf, az>>}
    <3>1. ~Holds(i.cond, az) BY <1>5, <2>3 DEF Agrees, Holds
    <3>2. i.cond # "BEQ" BY <1>5
    <3>3. QED BY <3>1, <3>2 DEF Effects
  <2>4. Executes(b, i, b.rf, b.az, {}) BY <2>3 DEF Executes, Agrees
  <2>5. QED BY <2>2, <2>4 DEF Sound
<1>6. CASE ~known
  <2> DEFINE a == Without(b.rf, i.rd)
  <2>1. a \in Knowledge BY <1>2, WithoutIs
  <2>2. \A s \in Seq(Registers) : Simulate(Manager(b.rf, b.az, s), i) =
                                    Manager(a, b.az, Recorded(s, i.rd))
    BY <1>3, <1>6, InvalidateRegIs DEF MovReg, Known, Manager
  <2>3. Generates(b, i, a, b.az, {i.rd}) BY <1>1, <1>2, <2>1, <2>2, OneRecorded
  <2>4. Effects(i) \subseteq {<<rf, az>>, <<[rf EXCEPT ![i.rd] = rf[i.rn]], az>>}
    BY DEF Effects
  <2>5. Executes(b, i, a, b.az, {i.rd})
    BY <1>1, <1>2, <2>4, KnowledgeIs DEF Executes, Agrees, Without
  <2>6. QED BY <2>3, <2>5 DEF Sound
<1>7. QED BY <1>4, <1>5, <1>6

LEMMA SumInValues == ASSUME NEW v \in Int, NEW u \in Int PROVE Sum(v, u) \in Values
BY DEF Sum, Values

LEMMA DataPSound ==
  ASSUME NEW b \in Beliefs, NEW i, Drawn(b, i), i.op = "DATA_P"
  PROVE  Sound(b, i)
<1>1. i.rd \in Registers /\ i.rd \in Dests /\ i.rn \in Registers /\ i.rm \in Registers
  BY DestsAreRegisters DEF Drawn, Instructions
<1>2. b.rf \in Knowledge /\ b.az \in SUBSET Values BY DEF Beliefs
<1>3. \A s : Simulate(Manager(b.rf, b.az, s), i) = Result(Manager(b.rf, {}, s), i)
  BY DEF Simulate, DataP, InvalidateAllFlags, Manager
<1> DEFINE known == (MAXLOOP_IT = 0 \/ i.rd \notin {i.rn, i.rm})
                    /\ i.rn \in DOMAIN b.rf /\ i.rm \in DOMAIN b.rf
           v == Sum(b.rf[i.rn], b.rf[i.rm])
           z == IF v = 0 THEN {1} ELSE {0}
           u == Sum(rf[i.rn], rf[i.rm])
<1>4. Effects(i) = {<<[rf EXCEPT ![i.rd] = u], IF u = 0 THEN 1 ELSE 0>>}
  BY DEF Effects
<1>5. CASE known
  <2> DEFINE a == With(b.rf, i.rd, v)
  <2>1. v \in Int BY <1>2, <1>5, KnowledgeIs, SumInValues DEF Values
  <2>2. a \in Knowledge BY <1>1, <1>2, <2>1, WithIs
  <2>3. ASSUME NEW s \in Seq(Registers)
        PROVE  Simulate(Manager(b.rf, b.az, s), i) = Manager(a, z, Recorded(s, i.rd))
    <3>1. Manager(b.rf, {}, s).rf = b.rf BY DEF Manager
    <3>2. Result(Manager(b.rf, {}, s), i) =
            [SetReg(Manager(b.rf, {}, s), i.rd, v) EXCEPT !.az = z]
      BY <1>5, <3>1 DEF Result, Known
    <3>3. SetReg(Manager(b.rf, {}, s), i.rd, v) = Manager(a, {}, Recorded(s, i.rd))
      BY SetRegIs
    <3> HIDE DEF a, z, v
    <3>4. [Manager(a, {}, Recorded(s, i.rd)) EXCEPT !.az = z] =
            Manager(a, z, Recorded(s, i.rd))
      BY DEF Manager
    <3>5. QED BY <1>3, <3>2, <3>3, <3>4
  <2>4. Generates(b, i, a, z, {i.rd})
    BY <1>1, <2>2, <2>3, OneRecorded DEF Values
  <2>5. ASSUME rf \in [Registers -> Int], Agrees(b, rf, az) PROVE u = v
    BY <1>1, <1>5, <2>5 DEF Agrees
  <2>6. Executes(b, i, a, z, {i.rd})
    <3> HIDE DEF u, v
    <3>1. QED BY <1>1, <1>2, <1>4, <2>1, <2>5, KnowledgeIs
          DEF Executes, Agrees, With, Values
  <2>7. QED BY <2>4, <2>6 DEF Sound
<1>6. CASE ~known
  <2> DEFINE a == Without(b.rf, i.rd)
  <2>1. a \in Knowledge BY <1>2, WithoutIs
  <2>2. ASSUME NEW s \in Seq(Registers)
        PROVE  Simulate(Manager(b.rf, b.az, s), i) = Manager(a, {}, Recorded(s, i.rd))
    <3>1. Manager(b.rf, {}, s).rf = b.rf BY DEF Manager
    <3>2. Result(Manager(b.rf, {}, s), i) = InvalidateReg(Manager(b.rf, {}, s), i.rd)
      BY <1>6, <3>1 DEF Result, Known
    <3>3. QED BY <1>3, <3>2, InvalidateRegIs
  <2>3. Generates(b, i, a, {}, {i.rd}) BY <1>1, <2>1, <2>2, OneRecorded
  <2>4. rf \in [Registers -> Int] => u \in Int BY <1>1, SumInValues DEF Values
  <2>5. Executes(b, i, a, {}, {i.rd})
    <3> HIDE DEF u
    <3>1. QED BY <1>1, <1>2, <1>4, <2>4, KnowledgeIs
          DEF Executes, Agrees, Without, Values
  <2>6. QED BY <2>3, <2>5 DEF Sound
<1>7. QED BY <1>5, <1>6

LEMMA PostModSound ==
  ASSUME NEW b \in Beliefs, NEW i, Drawn(b, i), i.op = "POSTMOD"
  PROVE  Sound(b, i)
<1>1. /\ i.rd \in Registers /\ i.rd \in Dests /\ i.val \in Int
      /\ i.rn \in Registers /\ i.rn \in Dests /\ i.rn \in DOMAIN b.rf /\ i.rn # i.rd
  BY DestsAreRegisters DEF Drawn, Instructions
<1>2. b.rf \in Knowledge /\ b.az \in SUBSET Values BY DEF Beliefs
<1> DEFINE v == Sum(b.rf[i.rn], 1)
           n == IF MAXLOOP_IT = 0 THEN With(b.rf, i.rn, v) ELSE Without(b.rf, i.rn)
           a == With(n, i.rd, i.val)
           u == Sum(rf[i.rn], 1)
<1>3. v \in Int BY <1>1, <1>2, KnowledgeIs, SumInValues DEF Values
<1>4. n \in Knowledge BY <1>1, <1>2, <1>3, WithIs, WithoutIs
<1>5. a \in Knowledge BY <1>1, <1>4, WithIs
<1>6. ASSUME NEW s \in Seq(Registers)
      PROVE  Simulate(Manager(b.rf, b.az, s), i) =
               Manager(a, b.az, Recorded(Recorded(s, i.rn), i.rd))
  <2>1. Manager(b.rf, b.az, s).rf = b.rf BY DEF Manager
  <2>2. (IF MAXLOOP_IT = 0 THEN SetReg(Manager(b.rf, b.az, s), i.rn, v)
         ELSE InvalidateReg(Manager(b.rf, b.az, s), i.rn)) =
          Manager(n, b.az, Recorded(s, i.rn))
    BY SetRegIs, InvalidateRegIs
  <2>3. Simulate(Manager(b.rf, b.az, s), i) =
          SetReg(Manager(n, b.az, Recorded(s, i.rn)), i.rd, i.val)
    BY <2>1, <2>2 DEF Simulate, PostMod
  <2>4. QED BY <2>3, SetRegIs
<1>7. Generates(b, i, a, b.az, {i.rn, i.rd})
  BY <1>1, <1>2, <1>5, <1>6, TwoRecorded
<1>8. Effects(i) = {<<[rf EXCEPT ![i.rn] = u, ![i.rd] = i.val], az>>}
  BY DEF Effects
<1>9. ASSUME rf \in [Registers -> Int], Agrees(b, rf, az) PROVE u = v /\ u \in Int
  BY <1>1, <1>3, <1>9 DEF Agrees
<1>10. Executes(b, i, a, b.az, {i.rn, i.rd})
  <2> HIDE DEF u, v
  <2>1. QED BY <1>1, <1>2, <1>8, <1>9, KnowledgeIs DEF Executes, Agrees, With, Without
<1>11. QED BY <1>7, <1>10 DEF Sound

\* Whatever is drawn, the generator and the core agree about it.
LEMMA InstructionSound ==
  ASSUME NEW b \in Beliefs, NEW i, Drawn(b, i) PROVE Sound(b, i)
<1>1. i.op \in {"MOV_IMM", "MOV_REG", "DATA_P", "READ", "POSTMOD"}
  BY DEF Drawn, Instructions
<1>2. QED BY <1>1, MovImmSound, MovRegSound, DataPSound, ReadSound, PostModSound
-----------------------------------------------------------------------------
(***************************************************************************)
(* A routine that is generated.                                            *)
(***************************************************************************)
\* Instruction i brings the generator from belief b to d, and s has all the
\* registers it changes.
Follows(b, i, d, s) ==
  Simulate(Manager(b.rf, b.az, s), i) = Manager(d.rf, d.az, s)

LEMMA FollowsIs ==
  ASSUME NEW b, NEW i, NEW d, NEW s \in Seq(Registers), NEW a, NEW z, NEW w,
         Generates(b, i, a, z, w), Follows(b, i, d, s)
  PROVE  a = d.rf /\ z = d.az /\ w \subseteq ToSet(s)
<1>1. PICK t \in Seq(Registers) :
        Manager(d.rf, d.az, s) = Manager(a, z, t) /\ ToSet(t) = ToSet(s) \cup w
  BY Zenon DEF Generates, Follows
<1>2. d.rf = a /\ d.az = z /\ s = t BY <1>1 DEF Manager
<1>3. ToSet(s) = ToSet(s) \cup w BY <1>1, <1>2, Zenon
<1>4. QED BY <1>2, <1>3

\* It does so too when more registers are recorded.
LEMMA FollowsMore ==
  ASSUME NEW b \in Beliefs, NEW i, NEW d, NEW s \in Seq(Registers),
         NEW u \in Seq(Registers),
         Drawn(b, i), Follows(b, i, d, s), ToSet(s) \subseteq ToSet(u)
  PROVE  Follows(b, i, d, u)
<1>1. PICK a, z, w : Generates(b, i, a, z, w) BY InstructionSound DEF Sound
<1>2. a = d.rf /\ z = d.az /\ w \subseteq ToSet(s) BY <1>1, FollowsIs
<1>3. PICK t \in Seq(Registers) :
        /\ Simulate(Manager(b.rf, b.az, u), i) = Manager(a, z, t)
        /\ w \subseteq ToSet(u) => t = u
  BY <1>1, Zenon DEF Generates
<1>4. w \subseteq ToSet(u) BY <1>2, Zenon
<1>5. QED BY <1>2, <1>3, <1>4 DEF Follows

\* What the generator has after an instruction.
LEMMA SimulateIs ==
  ASSUME NEW b \in Beliefs, NEW i, NEW s \in Seq(Registers), NEW m, Drawn(b, i),
         m = Simulate(Manager(b.rf, b.az, s), i)
  PROVE  /\ m.rf \in Knowledge /\ m.az \in SUBSET Values
         /\ m.mod \in Seq(Registers) /\ ToSet(s) \subseteq ToSet(m.mod)
         /\ Len(m.mod) <= Len(s) + 2 /\ (IsInjective(s) => IsInjective(m.mod))
         /\ ToSet(m.mod) \subseteq ToSet(s) \cup Dests
         /\ Follows(b, i, [rf |-> m.rf, az |-> m.az], m.mod)
<1>1. PICK a, z, w : Generates(b, i, a, z, w) BY InstructionSound DEF Sound
<1>2. PICK t \in Seq(Registers) :
        /\ m = Manager(a, z, t)
        /\ ToSet(t) = ToSet(s) \cup w /\ Len(t) <= Len(s) + 2
        /\ IsInjective(s) => IsInjective(t)
  BY <1>1, Zenon DEF Generates
<1>3. m.rf = a /\ m.az = z /\ m.mod = t BY <1>2 DEF Manager
<1>4. a \in Knowledge /\ z \in SUBSET Values BY <1>1 DEF Generates
<1>5. PICK v \in Seq(Registers) :
        /\ Simulate(Manager(b.rf, b.az, t), i) = Manager(a, z, v)
        /\ w \subseteq ToSet(t) => v = t
  BY <1>1, Zenon DEF Generates
<1>6. v = t BY <1>2, <1>5, Zenon
<1>7. Follows(b, i, [rf |-> m.rf, az |-> m.az], m.mod)
  BY <1>3, <1>5, <1>6 DEF Follows
<1>8. ToSet(s) \subseteq ToSet(t) BY <1>2, Zenon
<1>9. ToSet(t) \subseteq ToSet(s) \cup Dests BY <1>1, <1>2 DEF Generates
<1>10. QED BY <1>2, <1>3, <1>4, <1>7, <1>8, <1>9

\* What the core has after it.
LEMMA EffectsHold ==
  ASSUME NEW b \in Beliefs, NEW i, NEW d \in Beliefs, NEW s \in Seq(Registers),
         Drawn(b, i), Follows(b, i, d, s),
         rf \in [Registers -> Int], az \in Values, Agrees(b, rf, az),
         NEW e \in Effects(i)
  PROVE  /\ e[1] \in [Registers -> Int] /\ e[2] \in Values
         /\ Agrees(d, e[1], e[2])
         /\ \A r \in Registers : r \notin Dests \/ r \notin ToSet(s) => e[1][r] = rf[r]
<1>1. PICK a, z, w : Generates(b, i, a, z, w) /\ Executes(b, i, a, z, w)
  BY InstructionSound DEF Sound
<1>2. a = d.rf /\ z = d.az /\ w \subseteq ToSet(s) BY <1>1, FollowsIs
<1>3. w \subseteq Dests BY <1>1 DEF Generates
<1>4. /\ e[1] \in [Registers -> Int] /\ e[2] \in Values
      /\ Agrees([rf |-> a, az |-> z], e[1], e[2])
      /\ \A r \in Registers \ w : e[1][r] = rf[r]
  BY <1>1 DEF Executes
<1>5. Agrees(d, e[1], e[2]) BY <1>2, <1>4 DEF Agrees
<1>6. ASSUME NEW r \in Registers, r \notin Dests \/ r \notin ToSet(s)
      PROVE  e[1][r] = rf[r]
  BY <1>2, <1>3, <1>4, <1>6, Zenon
<1>7. QED BY <1>4, <1>5, <1>6

\* A body bd, the beliefs bl before each of its instructions and at its end,
\* and the registers s that are saved for it.
Simulated(bd, bl, s) ==
  /\ bd \in Seq(Instructions) /\ bl \in Seq(Beliefs) /\ s \in Seq(Registers)
  /\ Len(bl) = Len(bd) + 1
  /\ bl[1] = [rf |-> fConstRegs, az |-> {}]
  /\ \A n \in 1..Len(bd) :
       Drawn(bl[n], bd[n]) /\ Follows(bl[n], bd[n], bl[n + 1], s)

LEMMA SimulatedMore ==
  ASSUME NEW bd, NEW bl, NEW s, NEW u \in Seq(Registers),
         Simulated(bd, bl, s), ToSet(s) \subseteq ToSet(u)
  PROVE  Simulated(bd, bl, u)
<1>1. ASSUME NEW n \in 1..Len(bd)
      PROVE  Follows(bl[n], bd[n], bl[n + 1], u)
  <2>1. bl[n] \in Beliefs
    BY LenProperties, ElementOfSeq DEF Simulated
  <2>2. Drawn(bl[n], bd[n]) /\ Follows(bl[n], bd[n], bl[n + 1], s)
    BY DEF Simulated
  <2>3. s \in Seq(Registers) BY DEF Simulated
  <2>4. QED BY <2>1, <2>2, <2>3, FollowsMore
<1>2. QED BY <1>1 DEF Simulated

LEMMA EmptySimulated ==
  ASSUME fConstRegs \in Knowledge
  PROVE  Simulated(<<>>, <<[rf |-> fConstRegs, az |-> {}]>>, <<>>)
<1>1. [rf |-> fConstRegs, az |-> {}] \in Beliefs BY DEF Beliefs
<1>2. QED BY <1>1 DEF Simulated

\* A body with one instruction more.
LEMMA SimulatedNext ==
  ASSUME NEW bd, NEW bl, NEW s, NEW u \in Seq(Registers), NEW i, NEW d \in Beliefs,
         Simulated(bd, bl, s), ToSet(s) \subseteq ToSet(u),
         Drawn(bl[Len(bl)], i), Follows(bl[Len(bl)], i, d, u)
  PROVE  Simulated(Append(bd, i), Append(bl, d), u)
<1> DEFINE e == Append(bd, i)
           l == Append(bl, d)
<1>1. Simulated(bd, bl, u) BY SimulatedMore
<1>2. i \in Instructions BY DEF Drawn
<1>3. /\ bd \in Seq(Instructions) /\ bl \in Seq(Beliefs)
      /\ Len(bd) \in Nat /\ Len(bl) = Len(bd) + 1
  BY LenProperties DEF Simulated
<1>4. /\ e \in Seq(Instructions) /\ Len(e) = Len(bd) + 1 /\ e[Len(bd) + 1] = i
      /\ \A n \in 1..Len(bd) : e[n] = bd[n]
  BY <1>2, <1>3, AppendProperties
<1>5. /\ l \in Seq(Beliefs) /\ Len(l) = Len(bl) + 1 /\ l[Len(bl) + 1] = d
      /\ \A n \in 1..Len(bl) : l[n] = bl[n]
  BY <1>3, AppendProperties
<1> HIDE DEF e, l
<1>6. ASSUME NEW n \in 1..Len(e)
      PROVE  Drawn(l[n], e[n]) /\ Follows(l[n], e[n], l[n + 1], u)
  <2>1. CASE n = Len(e)
    <3>1. e[n] = i /\ l[n] = bl[Len(bl)] /\ l[n + 1] = d
      BY <1>3, <1>4, <1>5, <2>1
    <3>2. QED BY <3>1
  <2>2. CASE n \in 1..Len(bd)
    <3>1. e[n] = bd[n] /\ l[n] = bl[n] /\ l[n + 1] = bl[n + 1]
      BY <1>3, <1>4, <1>5, <2>2
    <3>2. QED BY <1>1, <2>2, <3>1 DEF Simulated
  <2>3. QED BY <1>3, <1>4, <2>1, <2>2
<1>7. l[1] = [rf |-> fConstRegs, az |-> {}] BY <1>3, <1>5 DEF Simulated
<1>8. Simulated(e, l, u) BY <1>3, <1>4, <1>5, <1>6, <1>7 DEF Simulated
<1>9. QED BY <1>8 DEF e, l

\* Running the code does not change what is simulated.
LEMMA SimulatedStays ==
  ASSUME UNCHANGED <<fMemRegInd1, fMemRegInd2, MAXLOOP_IT, fConstRegs>>,
         NEW bd, NEW bl, NEW s
  PROVE  Simulated(bd, bl, s)' <=> Simulated(bd, bl, s)
<1>1. Dests' = Dests BY DEF Dests
<1>2. \A m, i : Simulate(m, i)' = Simulate(m, i)
  BY DEF Simulate, MovReg, DataP, Result, PostMod
<1>3. \A b, i, d : Follows(b, i, d, s)' <=> Follows(b, i, d, s)
  BY <1>2 DEF Follows
<1>4. \A b, i : Drawn(b, i)' <=> Drawn(b, i)
  BY <1>1 DEF Drawn
<1>5. QED BY <1>3, <1>4 DEF Simulated
-----------------------------------------------------------------------------
(***************************************************************************)
(* The generator.                                                          *)
(***************************************************************************)
\* The registers set aside lie around the loop and the frame register.
Pointers ==
  /\ fLoopCountReg \in FirstIndices /\ fLoopCountReg \in 2..NREGS - 2
  /\ fMemRegInd1 \in 2..fLoopCountReg
  /\ fMemRegInd2 \in fLoopCountReg + 2..NREGS
  /\ DOMAIN fConstRegs =
       (fMemRegInd1..fMemRegInd2 - 1) \ {fLoopCountReg, fIntFrameReg}
  /\ IsFiniteSet(DOMAIN fConstRegs)
  /\ Cardinality(DOMAIN fConstRegs) = fMemRegInd2 - fMemRegInd1 - 2

GenTypes ==
  /\ phase \in {"setup", "fill", "run"}
  /\ todo \in Seq(Routines) /\ (phase = "run" <=> todo = <<>>)
  /\ MAXLOOP_IT \in Nat
  /\ fConstRegs \in Knowledge
  /\ fRF \in Knowledge /\ fAZ \in SUBSET Values /\ fModifiedRegs \in Seq(Registers)
  /\ DOMAIN code = Routines

Setup ==
  phase = "setup" =>
    /\ body = <<>> /\ beliefs = <<>>
    /\ \A r \in DOMAIN fConstRegs : r \in DOMAIN fRF /\ fRF[r] = fConstRegs[r]
    /\ DOMAIN fRF = Registers \ {fLoopCountReg, fIntFrameReg}
    /\ Routines \subseteq ToSet(todo)

\* An instruction changes two registers at most, and none of those set aside.
Filling ==
  phase = "fill" =>
    /\ beliefs \in Seq(Beliefs)
    /\ Simulated(body, Append(beliefs, Belief), fModifiedRegs)
    /\ Len(body) <= Length(Current)
    /\ Len(fModifiedRegs) <= 2 * Len(body)
    /\ IsInjective(fModifiedRegs) /\ ToSet(fModifiedRegs) \subseteq Dests

(***************************************************************************)
(* The status is saved behind the registers (NREGS-2), and nothing in the  *)
(* code keeps the registers before it.  They are: when the routines are    *)
(* short, or when Init draws anything but the last index for the loop      *)
(* register, since then three registers are never changed.                 *)
(***************************************************************************)
SaveSpace == 2 * ISRLength + 3 <= NREGS - 2 \/ NREGS - 2 \notin FirstIndices

\* What an interrupt routine saves: the registers it uses itself too, and no
\* more than find place beside the status and the return address.
SavesEnough(s) ==
  {0, 1, fLoopCountReg} \subseteq ToSet(s) /\ Len(s) <= NREGS - 2

Filled ==
  \A c \in Routines : c \notin ToSet(todo) =>
    /\ Simulated(code[c].body, code[c].beliefs, code[c].saved)
    /\ c # Main => SavesEnough(code[c].saved)

GenInv == GenTypes /\ Pointers /\ Setup /\ Filling /\ Filled

LEMMA Bounds ==
  /\ NREGS \in Nat /\ NREGS >= 5 /\ MAX_NUM_INTER \in Nat
  /\ MainLength \in Nat /\ ISRLength \in Nat
  /\ Main \in Routines
BY NREGSAssumption, BoundsAssumption DEF Main, Routines

LEMMA GenInit == Init => GenInv
<1> SUFFICES ASSUME Init PROVE GenInv OBVIOUS
<1> DEFINE isrs == [n \in 1..MAX_NUM_INTER |-> n - 1]
<1>1. /\ isrs \in Seq(Routines) /\ Len(isrs) = MAX_NUM_INTER
      /\ <<Main>> \in Seq(Routines) /\ Len(<<Main>>) = 1
  BY Bounds DEF Routines, Main
<1>2. /\ todo \in Seq(Routines) /\ Len(todo) = MAX_NUM_INTER + 1
      /\ todo[1] = Main /\ \A n \in 1..MAX_NUM_INTER : todo[n + 1] = n - 1
  <2>1. todo = <<Main>> \o isrs BY DEF Init
  <2>2. /\ todo \in Seq(Routines) /\ Len(todo) = 1 + MAX_NUM_INTER
        /\ \A n \in 1..Len(todo) :
             todo[n] = IF n <= 1 THEN <<Main>>[n] ELSE isrs[n - 1]
    <3> HIDE DEF isrs
    <3>1. QED BY <1>1, <2>1, ConcatProperties
  <2>3. Len(todo) = MAX_NUM_INTER + 1 /\ todo[1] = Main
    <3>1. Len(todo) = MAX_NUM_INTER + 1 /\ 1 \in 1..Len(todo) BY <2>2, Bounds
    <3>2. todo[1] = IF 1 <= 1 THEN <<Main>>[1] ELSE isrs[1 - 1]
      BY <2>2, <3>1, Zenon
    <3>3. QED BY <3>1, <3>2
  <2>4. ASSUME NEW n \in 1..MAX_NUM_INTER PROVE todo[n + 1] = n - 1
    <3> DEFINE k == n + 1
    <3>1. k \in 1..Len(todo) /\ ~(k <= 1) /\ k - 1 = n
      BY <2>3, Bounds
    <3> HIDE DEF k, isrs
    <3>2. todo[k] = IF k <= 1 THEN <<Main>>[k] ELSE isrs[k - 1]
      BY <2>2, <3>1, Zenon
    <3>3. todo[k] = isrs[n] BY <3>1, <3>2, Zenon
    <3>4. QED BY <3>3 DEF isrs, k
  <2>5. QED BY <2>2, <2>3, <2>4
<1>3. \A c \in Routines : c \in ToSet(todo)
  <2> TAKE c \in Routines
  <2>1. DOMAIN todo = 1..MAX_NUM_INTER + 1 BY <1>2, LenProperties
  <2>2. CASE c = Main
    <3>1. todo[1] = c /\ 1 \in DOMAIN todo BY <1>2, <2>1, <2>2, Bounds
    <3>2. QED BY <3>1 DEF ToSet
  <2>3. CASE c # Main
    <3>1. c + 1 \in 1..MAX_NUM_INTER BY <2>3, Bounds DEF Routines, Main
    <3>2. todo[(c + 1) + 1] = (c + 1) - 1 BY <1>2, <3>1
    <3>3. (c + 1) + 1 \in DOMAIN todo /\ (c + 1) - 1 = c
      BY <2>1, <3>1, Bounds DEF Routines, Main
    <3>4. QED BY <3>2, <3>3 DEF ToSet
  <2>4. QED BY <2>2, <2>3
<1>4. fMemRegInd1 \in 2..NREGS - 2 /\ fLoopCountReg = fMemRegInd1
        /\ fMemRegInd2 = fMemRegInd1 + 2
  BY NREGSAssumption DEF Init
<1>5. Pointers
  <2>1. DOMAIN fConstRegs = {} BY DEF Init
  <2>2. (fMemRegInd1..fMemRegInd2 - 1) \ {fLoopCountReg, fIntFrameReg} = {}
    BY <1>4, Bounds DEF fIntFrameReg
  <2>3. Cardinality({}) = 0 /\ IsFiniteSet({}) BY FS_EmptySet
  <2>4. fMemRegInd2 - fMemRegInd1 - 2 = 0 BY <1>4, Bounds
  <2>5. fLoopCountReg \in FirstIndices BY DEF Init
  <2>6. QED BY <1>4, <2>1, <2>2, <2>3, <2>4, <2>5, Bounds DEF Pointers
<1>6. GenTypes
  <2>1. fConstRegs \in Knowledge
    <3>1. <<>> \in Seq(Int) /\ Len(<<>>) = 0 OBVIOUS
    <3>2. <<>> \in [1..0 -> Int] BY <3>1, LenProperties
    <3>3. 1..0 \in SUBSET Registers OBVIOUS
    <3>4. QED BY <3>2, <3>3 DEF Knowledge, Init
  <2>2. fRF \in Knowledge BY KnowledgeOf DEF Init, Random
  <2>3. todo # <<>> BY <1>2, Bounds
  <2>4. MAXLOOP_IT \in Nat BY BoundsAssumption DEF Init
  <2>5. QED BY <1>2, <2>1, <2>2, <2>3, <2>4 DEF GenTypes, Init
<1>7. Setup
  <2>1. fConstRegs = <<>> /\ body = <<>> /\ beliefs = <<>>
        /\ DOMAIN fRF = Registers \ {fLoopCountReg, fIntFrameReg}
    BY DEF Init
  <2>2. QED BY <1>3, <2>1 DEF Setup
<1>8. Filling BY DEF Filling, Init
<1>9. Filled BY <1>3 DEF Filled
<1>10. QED BY <1>5, <1>6, <1>7, <1>8, <1>9 DEF GenInv

\* A pointer more: the set grows at one end, and never down to registers 0
\* and 1, which the interrupt routines use.
LEMMA GenPointer == ASSUME GenInv, CreateSetMemPointerReg PROVE GenInv'
<1> DEFINE ind == IF fMemRegInd2 = NREGS THEN fMemRegInd1 - 1 ELSE fMemRegInd2
           D == DOMAIN fConstRegs
<1>1. Pointers /\ GenTypes /\ Setup /\ Filled /\ phase = "setup"
  BY DEF GenInv, CreateSetMemPointerReg
<1>2. /\ fMemRegInd1 \in Nat /\ fMemRegInd2 \in Nat /\ fLoopCountReg \in Nat
      /\ fMemRegInd2 - fMemRegInd1 - 2 < NREGS \div 4 /\ NREGS \in Nat
      /\ 4 * (NREGS \div 4) <= NREGS /\ NREGS \div 4 \in Nat
  <2>1. fMemRegInd2 - fMemRegInd1 - 2 < NREGS \div 4
    BY <1>1 DEF Pointers, CreateSetMemPointerReg
  <2>2. QED BY <1>1, <2>1, Bounds DEF Pointers
<1>3. fMemRegInd2 = NREGS => fMemRegInd1 > 2
  BY <1>2, Bounds
<1>4. /\ fMemRegInd1' = IF fMemRegInd2 = NREGS THEN ind ELSE fMemRegInd1
      /\ fMemRegInd2' = IF fMemRegInd2 = NREGS THEN fMemRegInd2 ELSE fMemRegInd2 + 1
      /\ UNCHANGED <<phase, todo, fLoopCountReg, MAXLOOP_IT, body, beliefs, code>>
  BY DEF CreateSetMemPointerReg
<1>5. ind \in Registers /\ ind \notin {fLoopCountReg, fIntFrameReg} /\ ind \notin D
  BY <1>1, <1>2, <1>3 DEF Pointers, Registers, fIntFrameReg
<1>6. regM = Manager(fRF, fAZ, fModifiedRegs) BY DEF regM, Manager
<1> DEFINE m == Manager(With(fRF, ind, Address), fAZ, Recorded(fModifiedRegs, ind))
<1>7. SetReg(regM, ind, Address) = m BY <1>6, SetRegIs
<1>8. /\ fRF' = With(fRF, ind, Address) /\ fAZ' = fAZ
      /\ fModifiedRegs' = Recorded(fModifiedRegs, ind)
      /\ fConstRegs' = [r \in D \cup {ind} |-> With(fRF, ind, Address)[r]]
  <2>1. Believe(m) /\ fConstRegs' = [r \in D \cup {ind} |-> m.rf[r]]
    BY <1>7 DEF CreateSetMemPointerReg
  <2>2. QED BY <2>1 DEF Believe, Manager
<1>9. fRF' \in Knowledge /\ fModifiedRegs' \in Seq(Registers)
  BY <1>1, <1>5, <1>8, WithIs, RecordedIs DEF GenTypes, Address
<1>10. \A r \in DOMAIN fConstRegs' : r \in DOMAIN fRF' /\ fRF'[r] = fConstRegs'[r]
  BY <1>1, <1>8 DEF Setup, With
<1>11. fConstRegs' \in Knowledge
  <2>1. DOMAIN fConstRegs' \subseteq Registers
    BY <1>9, <1>10, KnowledgeIs
  <2>2. \A r \in DOMAIN fConstRegs' : fConstRegs'[r] \in Int
    BY <1>9, <1>10, KnowledgeIs
  <2>3. fConstRegs' = [r \in DOMAIN fConstRegs' |-> fConstRegs'[r]]
    BY <1>8
  <2>4. QED BY <2>1, <2>2, <2>3, KnowledgeOf
<1>12. GenTypes' BY <1>1, <1>4, <1>8, <1>9, <1>11 DEF GenTypes
<1>13. Setup' BY <1>1, <1>4, <1>5, <1>8, <1>10 DEF Setup, With, fIntFrameReg
<1>14. Pointers'
  <2>1. DOMAIN fConstRegs' = D \cup {ind} BY <1>8
  <2>2. /\ IsFiniteSet(D \cup {ind})
        /\ Cardinality(D \cup {ind}) = Cardinality(D) + 1
    BY <1>1, <1>5, FS_AddElement DEF Pointers
  <2>3. Cardinality(D) + 1 = fMemRegInd2' - fMemRegInd1' - 2
    BY <1>1, <1>2, <1>4 DEF Pointers
  <2>4. D \cup {ind} =
          (fMemRegInd1'..fMemRegInd2' - 1) \ {fLoopCountReg, fLoopCountReg + 1}
    BY <1>1, <1>2, <1>3, <1>4 DEF Pointers, fIntFrameReg
  <2>5. /\ fMemRegInd1' \in 2..fLoopCountReg
        /\ fMemRegInd2' \in fLoopCountReg + 2..NREGS
    BY <1>1, <1>2, <1>3, <1>4 DEF Pointers
  <2>6. /\ fLoopCountReg \in 2..NREGS - 2 /\ fLoopCountReg \in FirstIndices
        /\ fLoopCountReg' = fLoopCountReg
    BY <1>1, <1>4 DEF Pointers
  <2> HIDE DEF ind, D
  <2>7. QED BY <2>1, <2>2, <2>3, <2>4, <2>5, <2>6 DEF Pointers, fIntFrameReg
<1>15. Filling' BY <1>1, <1>4 DEF Filling
<1>16. Filled'
  <2>1. \A c \in Routines : c \in ToSet(todo) BY <1>1 DEF Setup
  <2>2. ToSet(todo') = ToSet(todo) BY <1>4
  <2>3. QED BY <2>1, <2>2 DEF Filled
<1>17. QED BY <1>12, <1>13, <1>14, <1>15, <1>16 DEF GenInv

\* As long as the pointers stay, so do the routines that are filled.
LEMMA FilledStays ==
  ASSUME Filled, UNCHANGED <<fMemRegInd1, fMemRegInd2, fLoopCountReg, MAXLOOP_IT,
                             fConstRegs>>,
         NEW c \in Routines, c \notin ToSet(todo), code'[c] = code[c]
  PROVE  /\ Simulated(code[c].body, code[c].beliefs, code[c].saved)'
         /\ c # Main => SavesEnough(code[c].saved)'
BY SimulatedStays DEF Filled, SavesEnough

LEMMA GenBegin == ASSUME GenInv, BeginSubroutines PROVE GenInv'
<1>1. /\ GenTypes /\ Pointers /\ Setup /\ Filled
      /\ phase = "setup" /\ phase' = "fill" /\ Believe(InvalidateAllRegs)
      /\ UNCHANGED <<todo, fMemRegInd1, fMemRegInd2, fLoopCountReg, MAXLOOP_IT,
                     fConstRegs, body, beliefs, code>>
  BY DEF GenInv, BeginSubroutines
<1>2. fRF' = fConstRegs /\ fAZ' = {} /\ fModifiedRegs' = <<>>
  BY <1>1 DEF Believe, InvalidateAllRegs
<1>3. fConstRegs \in Knowledge BY <1>1 DEF GenTypes
<1>4. GenTypes' BY <1>1, <1>2 DEF GenTypes
<1>5. Pointers' BY <1>1 DEF Pointers, fIntFrameReg
<1>6. Filled'
  <2>1. ToSet(todo') = ToSet(todo) BY <1>1
  <2>2. \A c \in Routines : c \in ToSet(todo) BY <1>1 DEF Setup
  <2>3. QED BY <2>1, <2>2 DEF Filled
<1>7. Filling'
  <2>1. body' = <<>> /\ beliefs' = <<>> BY <1>1 DEF Setup
  <2>2. Append(beliefs', Belief') = <<[rf |-> fConstRegs, az |-> {}]>>
    BY <1>2, <2>1 DEF Belief
  <2>3. Simulated(<<>>, <<[rf |-> fConstRegs, az |-> {}]>>, <<>>)'
    BY <1>1, <1>3, EmptySimulated, SimulatedStays
  <2>4. Simulated(body, Append(beliefs, Belief), fModifiedRegs)'
    BY <1>1, <1>2, <2>1, <2>2, <2>3
  <2>5. Len(body') <= Length(Current') /\ Len(fModifiedRegs') <= 2 * Len(body')
    BY <1>2, <2>1, Bounds DEF Length
  <2>6. beliefs' \in Seq(Beliefs) BY <2>1
  <2>7. IsInjective(fModifiedRegs') /\ ToSet(fModifiedRegs') \subseteq Dests'
    BY <1>2 DEF IsInjective, ToSet
  <2>8. QED BY <2>4, <2>5, <2>6, <2>7 DEF Filling
<1>8. Setup' BY <1>1 DEF Setup
<1>9. QED BY <1>4, <1>5, <1>6, <1>7, <1>8 DEF GenInv

LEMMA GenInstruction == ASSUME GenInv, Instruction PROVE GenInv'
<1>1. /\ GenTypes /\ Pointers /\ Filling /\ Filled
      /\ phase = "fill" /\ Len(body) < Length(Current)
      /\ beliefs' = Append(beliefs, Belief)
      /\ UNCHANGED <<phase, todo, fMemRegInd1, fMemRegInd2, fLoopCountReg,
                     MAXLOOP_IT, fConstRegs, code>>
  BY DEF GenInv, Instruction
<1>2. PICK i \in Menu(Current) :
        /\ MayDraw(Current, i)
        /\ body' = Append(body, i) /\ Believe(Simulate(regM, i))
  BY DEF Instruction
<1> DEFINE m == Simulate(regM, i)
           d == [rf |-> m.rf, az |-> m.az]
<1>3. regM = Manager(Belief.rf, Belief.az, fModifiedRegs)
  BY DEF regM, Manager, Belief
<1>4. Belief \in Beliefs /\ fModifiedRegs \in Seq(Registers)
  BY <1>1 DEF GenTypes, Belief, Beliefs
<1>5. Drawn(Belief, i)
  <2>1. i \in Instructions BY MenuAssumption DEF Menu
  <2>2. QED BY <1>2, <2>1 DEF MayDraw, Drawn, Known, Belief, regM
<1>6. /\ m.rf \in Knowledge /\ m.az \in SUBSET Values
      /\ m.mod \in Seq(Registers) /\ ToSet(fModifiedRegs) \subseteq ToSet(m.mod)
      /\ Len(m.mod) <= Len(fModifiedRegs) + 2
      /\ IsInjective(fModifiedRegs) => IsInjective(m.mod)
      /\ ToSet(m.mod) \subseteq ToSet(fModifiedRegs) \cup Dests
      /\ Follows(Belief, i, d, m.mod)
  BY <1>3, <1>4, <1>5, SimulateIs
<1>7. fRF' = m.rf /\ fAZ' = m.az /\ fModifiedRegs' = m.mod
  BY <1>2 DEF Believe
<1> HIDE DEF m
<1>8. GenTypes' BY <1>1, <1>6, <1>7 DEF GenTypes
<1>9. Pointers' BY <1>1 DEF Pointers, fIntFrameReg
<1>10. Filled'
  <2>1. ToSet(todo') = ToSet(todo) BY <1>1
  <2>2. QED BY <1>1, <2>1, FilledStays DEF Filled
<1>11. /\ beliefs \in Seq(Beliefs) /\ body \in Seq(Instructions)
       /\ Simulated(body, Append(beliefs, Belief), fModifiedRegs)
  BY <1>1 DEF Filling, Simulated
<1>12. Filling'
  <2>1. /\ Append(beliefs, Belief) \in Seq(Beliefs)
        /\ Append(beliefs, Belief)[Len(Append(beliefs, Belief))] = Belief
    <3>1. /\ Append(beliefs, Belief) \in Seq(Beliefs)
          /\ Len(Append(beliefs, Belief)) = Len(beliefs) + 1
          /\ Append(beliefs, Belief)[Len(beliefs) + 1] = Belief
      BY <1>4, <1>11, AppendProperties
    <3>2. QED BY <3>1
  <2>2. d \in Beliefs BY <1>6 DEF Beliefs
  <2>3. Simulated(Append(body, i), Append(beliefs', d), m.mod)
    BY <1>1, <1>5, <1>6, <1>11, <2>1, <2>2, SimulatedNext
  <2>4. \A bd, bl, s : Simulated(bd, bl, s) => Simulated(bd, bl, s)'
    BY <1>1, SimulatedStays
  <2>5. Append(beliefs, Belief)' = Append(beliefs', d) BY <1>7 DEF Belief
  <2>6. Simulated(body, Append(beliefs, Belief), fModifiedRegs)'
    BY <1>2, <1>7, <2>3, <2>4, <2>5
  <2>7. Len(body') = Len(body) + 1 /\ Len(body) \in Nat
    BY <1>2, <1>5, <1>11, AppendProperties, LenProperties DEF Drawn
  <2>8. Len(body') <= Length(Current)'
    BY <1>1, <2>7, Bounds DEF Length, Current
  <2>9. Len(fModifiedRegs') <= 2 * Len(body')
    <3>1. Len(m.mod) \in Nat /\ Len(fModifiedRegs) \in Nat
          /\ Len(fModifiedRegs) <= 2 * Len(body)
      BY <1>1, <1>4, <1>6, LenProperties DEF Filling
    <3>2. QED BY <1>6, <1>7, <2>7, <3>1
  <2>10. beliefs' \in Seq(Beliefs) BY <1>1, <2>1
  <2>11. IsInjective(fModifiedRegs') /\ ToSet(fModifiedRegs') \subseteq Dests'
    <3>1. Dests' = Dests BY <1>1 DEF Dests
    <3>2. IsInjective(fModifiedRegs) /\ ToSet(fModifiedRegs) \subseteq Dests
      BY <1>1 DEF Filling
    <3>3. IsInjective(m.mod) /\ ToSet(m.mod) \subseteq Dests BY <1>6, <3>2
    <3>4. QED BY <1>7, <3>1, <3>3, Zenon
  <2>12. QED BY <2>6, <2>8, <2>9, <2>10, <2>11 DEF Filling
<1>13. Setup' BY <1>1 DEF Setup
<1>14. QED BY <1>8, <1>9, <1>10, <1>12, <1>13 DEF GenInv

\* A routine is closed with what it saves, and the next one starts anew.
LEMMA GenClose ==
  ASSUME GenInv, phase = "fill", NEW m, NEW filled, Close(m, filled),
         m.mod \in Seq(Registers), ToSet(fModifiedRegs) \subseteq ToSet(m.mod),
         Current # Main => SavesEnough(m.mod)
  PROVE  GenInv'
<1>1. /\ GenTypes /\ Pointers /\ Filling /\ Filled
      /\ todo' = Tail(todo) /\ phase' = IF Len(todo) = 1 THEN "run" ELSE phase
      /\ body' = <<>> /\ beliefs' = <<>> /\ Believe(InvalidateAllRegs)
      /\ UNCHANGED <<fMemRegInd1, fMemRegInd2, fLoopCountReg, MAXLOOP_IT,
                     fConstRegs>>
  BY DEF GenInv, Close
<1>2. fRF' = fConstRegs /\ fAZ' = {} /\ fModifiedRegs' = <<>>
  BY <1>1 DEF Believe, InvalidateAllRegs
<1>3. fConstRegs \in Knowledge BY <1>1 DEF GenTypes
<1>4. /\ todo \in Seq(Routines) /\ todo # <<>> /\ Len(todo) \in Nat \ {0}
      /\ DOMAIN todo = 1..Len(todo) /\ Current \in Routines /\ Current = todo[1]
  BY <1>1, LenProperties, EmptySeq, HeadTailProperties DEF GenTypes, Current
<1>5. /\ todo' \in Seq(Routines) /\ Len(todo') = Len(todo) - 1
      /\ \A n \in 1..Len(todo') : todo'[n] = todo[n + 1]
  BY <1>1, <1>4, HeadTailProperties
<1>6. phase' \in {"fill", "run"} /\ (phase' = "run" <=> todo' = <<>>)
  <2>1. todo' = <<>> <=> Len(todo') = 0 BY <1>5, EmptySeq
  <2>2. QED BY <1>1, <1>4, <1>5, <2>1
<1>7. /\ DOMAIN code' = Routines
      /\ code'[Current] = [body |-> body, beliefs |-> Append(beliefs, Belief),
                           saved |-> m.mod, filled |-> filled]
      /\ \A c \in Routines \ {Current} : code'[c] = code[c]
  BY <1>1, <1>4 DEF Close, GenTypes
<1>8. GenTypes' BY <1>1, <1>2, <1>5, <1>6, <1>7 DEF GenTypes
<1>9. Pointers' BY <1>1 DEF Pointers, fIntFrameReg
<1>10. Setup' BY <1>6 DEF Setup
<1>11. Filling'
  <2>1. Append(beliefs', Belief') = <<[rf |-> fConstRegs, az |-> {}]>>
    BY <1>1, <1>2 DEF Belief
  <2>2. Simulated(<<>>, <<[rf |-> fConstRegs, az |-> {}]>>, <<>>)'
    BY <1>1, <1>3, EmptySimulated, SimulatedStays
  <2>3. Simulated(body, Append(beliefs, Belief), fModifiedRegs)'
    BY <1>1, <1>2, <2>1, <2>2
  <2>4. Len(body') <= Length(Current') /\ Len(fModifiedRegs') <= 2 * Len(body')
    BY <1>1, <1>2, Bounds DEF Length
  <2>5. IsInjective(fModifiedRegs') /\ ToSet(fModifiedRegs') \subseteq Dests'
    BY <1>2 DEF IsInjective, ToSet
  <2>6. QED BY <1>1, <2>3, <2>4, <2>5 DEF Filling
<1>12. Filled'
  <2>1. SUFFICES ASSUME NEW c \in Routines, c \notin ToSet(todo')
                 PROVE  /\ Simulated(code[c].body, code[c].beliefs, code[c].saved)'
                        /\ c # Main => SavesEnough(code[c].saved)'
    BY DEF Filled
  <2>2. CASE c = Current
    <3>1. Simulated(body, Append(beliefs, Belief), m.mod)
      BY <1>1, SimulatedMore DEF Filling
    <3>2. \A bd, bl, s : Simulated(bd, bl, s) => Simulated(bd, bl, s)'
      BY <1>1, SimulatedStays
    <3>3. /\ code'[c].body = body /\ code'[c].beliefs = Append(beliefs, Belief)
          /\ code'[c].saved = m.mod
      BY <1>7, <2>2
    <3>4. Simulated(code[c].body, code[c].beliefs, code[c].saved)'
      BY <3>1, <3>2, <3>3
    <3>5. SavesEnough(m.mod) => SavesEnough(code[c].saved)'
      BY <1>1, <3>3 DEF SavesEnough
    <3>6. QED BY <2>2, <3>4, <3>5
  <2>3. CASE c # Current
    <3>1. c \notin ToSet(todo)
      <4>1. SUFFICES ASSUME NEW n \in 1..Len(todo), todo[n] = c PROVE FALSE
        BY <1>4 DEF ToSet
      <4>2. n # 1 BY <1>4, <2>3, <4>1
      <4>3. n - 1 \in 1..Len(todo') /\ todo'[n - 1] = c
        BY <1>4, <1>5, <4>1, <4>2
      <4>4. DOMAIN todo' = 1..Len(todo') BY <1>5, LenProperties
      <4>5. QED BY <2>1, <4>3, <4>4 DEF ToSet
    <3>2. QED BY <1>1, <1>7, <2>3, <3>1, FilledStays
  <2>4. QED BY <2>2, <2>3
<1>13. QED BY <1>8, <1>9, <1>10, <1>11, <1>12 DEF GenInv

\* Registers that are recorded once and not set aside are NREGS - 2 at most.
LEMMA DistinctFit ==
  ASSUME Pointers, fLoopCountReg <= NREGS - 3, NEW s \in Seq(Registers),
         IsInjective(s), ToSet(s) \subseteq Dests \cup {fLoopCountReg}
  PROVE  Len(s) <= NREGS - 2
<1> DEFINE first == fLoopCountReg + 1
           second == fLoopCountReg + 2
           Left == (Registers \ {first}) \ {second}
<1>1. /\ NREGS \in Nat /\ fLoopCountReg \in Nat /\ Len(s) \in Nat
      /\ DOMAIN s = 1..Len(s)
  BY Bounds, LenProperties DEF Pointers
<1>2. first \in Registers /\ second \in Registers /\ first # second
  BY <1>1 DEF Registers
<1>3. IsFiniteSet(Registers) /\ Cardinality(Registers) = NREGS
  BY <1>1, FS_Interval, Bounds DEF Registers
<1>4. IsFiniteSet(Left) /\ Cardinality(Left) = NREGS - 2
  <2>1. /\ IsFiniteSet(Registers \ {first})
        /\ Cardinality(Registers \ {first}) = NREGS - 1
    BY <1>2, <1>3, FS_RemoveElement
  <2>2. second \in Registers \ {first} BY <1>2
  <2> HIDE DEF first, second
  <2>3. /\ IsFiniteSet(Left)
        /\ Cardinality(Left) = Cardinality(Registers \ {first}) - 1
    BY <2>1, <2>2, FS_RemoveElement, Zenon
  <2>4. QED BY <1>1, <2>1, <2>3
<1>5. ToSet(s) \subseteq Left
  <2>1. first \notin Dests /\ second \notin Dests
    BY <1>1 DEF Pointers, Dests
  <2>2. first # fLoopCountReg /\ second # fLoopCountReg BY <1>1
  <2>3. Dests \subseteq Registers /\ fLoopCountReg \in Registers
    BY <1>1 DEF Dests, Registers, Pointers
  <2> HIDE DEF first, second
  <2>4. QED BY <2>1, <2>2, <2>3
<1> HIDE DEF Left
<1>6. s \in Injection(1..Len(s), Left)
  <2>1. s \in [1..Len(s) -> Registers] BY <1>1
  <2>2. \A n \in 1..Len(s) : s[n] \in Left BY <1>1, <1>5 DEF ToSet
  <2>3. s \in [1..Len(s) -> Left] BY <2>1, <2>2
  <2>4. QED BY <1>1, <2>3 DEF IsInjective, Injection
<1>7. Cardinality(1..Len(s)) <= Cardinality(Left) BY <1>4, <1>6, FS_Injection
<1>8. Cardinality(1..Len(s)) = Len(s) BY <1>1, FS_Interval
<1>9. QED BY <1>4, <1>7, <1>8

\* What an interrupt routine saves: two registers for each of its instructions
\* at most, and the three it uses itself.
LEMMA ISRSaves ==
  ASSUME SaveSpace, GenInv, phase = "fill", NEW s \in Seq(Registers),
         IsInjective(s), ToSet(s) \subseteq Dests \cup {fLoopCountReg},
         ToSet(fModifiedRegs) \subseteq ToSet(s), Len(s) <= Len(fModifiedRegs) + 1,
         fLoopCountReg \in ToSet(s) \/ (s = fModifiedRegs /\ body = <<>>),
         Current # Main, NEW a, NEW z, NEW m, m = ISRRegs(Manager(a, z, s))
  PROVE  /\ m.mod \in Seq(Registers) /\ ToSet(fModifiedRegs) \subseteq ToSet(m.mod)
         /\ SavesEnough(m.mod)
<1> DEFINE u == Recorded(s, 0)
           v == Recorded(u, 1)
           w == Recorded(v, fLoopCountReg)
<1>1. /\ 0 \in Registers /\ 1 \in Registers /\ fLoopCountReg \in Registers
  BY Bounds DEF GenInv, Pointers, Registers
<1>2. m.mod = w
  <2> DEFINE x == With(With(a, 0, 0), 1, 0)
  <2>1. SetReg(SetReg(Manager(a, z, s), 0, 0), 1, 0) = Manager(x, z, v)
    BY SetRegIs
  <2>2. m = Manager(With(x, fLoopCountReg, 1 + MAXLOOP_IT), z, w)
    BY <2>1, SetRegIs DEF ISRRegs
  <2>3. QED BY <2>2 DEF Manager
<1>3. /\ u \in Seq(Registers) /\ ToSet(u) = ToSet(s) \cup {0} /\ Len(u) <= Len(s) + 1
      /\ IsInjective(u)
  BY <1>1, RecordedIs
<1> HIDE DEF u
<1>4. /\ v \in Seq(Registers) /\ ToSet(v) = ToSet(u) \cup {1} /\ Len(v) <= Len(u) + 1
      /\ IsInjective(v)
  BY <1>1, <1>3, RecordedIs
<1> HIDE DEF v
<1>5. /\ w \in Seq(Registers) /\ ToSet(w) = ToSet(v) \cup {fLoopCountReg}
      /\ Len(w) <= Len(v) + 1 /\ (fLoopCountReg \in ToSet(v) => w = v)
      /\ IsInjective(w)
  BY <1>1, <1>4, RecordedIs
<1> HIDE DEF w
<1>6. /\ ToSet(w) = ToSet(s) \cup {0, 1, fLoopCountReg}
  BY <1>3, <1>4, <1>5
<1>7. Len(w) <= NREGS - 2
  <2>1. /\ Len(body) <= ISRLength /\ Len(fModifiedRegs) <= 2 * Len(body)
        /\ Len(body) \in Nat /\ Len(fModifiedRegs) \in Nat
        /\ body = <<>> => Len(body) = 0
    BY LenProperties, EmptySeq DEF GenInv, GenTypes, Filling, Simulated, Length
  <2>2. Len(s) \in Nat /\ Len(u) \in Nat /\ Len(v) \in Nat /\ Len(w) \in Nat
    BY <1>3, <1>4, <1>5, LenProperties
  <2>3. CASE 2 * ISRLength + 3 <= NREGS - 2 /\ fLoopCountReg \in ToSet(s)
    <3>1. fLoopCountReg \in ToSet(v) BY <1>3, <1>4, <2>3, Zenon
    <3>2. w = v BY <1>5, <3>1
    <3>3. Len(w) <= Len(fModifiedRegs) + 3 BY <1>3, <1>4, <2>1, <2>2, <3>2
    <3>4. QED BY <2>1, <2>2, <2>3, <3>3, Bounds
  <2>4. CASE s = fModifiedRegs /\ body = <<>>
    <3>1. Len(s) = 0 BY <2>1, <2>4
    <3>2. QED BY <1>3, <1>4, <1>5, <2>2, <3>1, Bounds
  <2>5. CASE NREGS - 2 \notin FirstIndices
    <3>1. Pointers /\ fLoopCountReg <= NREGS - 3
      BY <2>5, Bounds DEF GenInv, Pointers
    <3>2. 0 \in Dests /\ 1 \in Dests BY <3>1, Bounds DEF Pointers, Dests, Registers
    <3>3. ToSet(w) \subseteq Dests \cup {fLoopCountReg} BY <1>6, <3>2
    <3>4. QED BY <1>5, <3>1, <3>3, DistinctFit
  <2>6. QED BY <2>3, <2>4, <2>5 DEF SaveSpace
<1>8. QED BY <1>2, <1>5, <1>6, <1>7, Zenon DEF SavesEnough

LEMMA GenEnd == ASSUME SaveSpace, GenInv, EndSubroutine PROVE GenInv'
<1> DEFINE s == Recorded(fModifiedRegs, fLoopCountReg)
           m == SetReg(regM, fLoopCountReg, 0)
           n == IF Current = Main THEN m ELSE ISRRegs(m)
<1>1. phase = "fill" /\ Close(n, TRUE) BY DEF EndSubroutine
<1>2. m = Manager(With(fRF, fLoopCountReg, 0), fAZ, s)
  BY SetRegIs DEF regM, Manager
<1>3. fLoopCountReg \in Registers /\ fModifiedRegs \in Seq(Registers)
  BY Bounds DEF GenInv, Pointers, GenTypes, Registers
<1>4. /\ s \in Seq(Registers) /\ ToSet(s) = ToSet(fModifiedRegs) \cup {fLoopCountReg}
      /\ Len(s) <= Len(fModifiedRegs) + 1
      /\ IsInjective(fModifiedRegs) => IsInjective(s)
  BY <1>3, RecordedIs
<1>5. /\ n.mod \in Seq(Registers) /\ ToSet(fModifiedRegs) \subseteq ToSet(n.mod)
      /\ Current # Main => SavesEnough(n.mod)
  <2> HIDE DEF s
  <2>1. CASE Current = Main
    <3>1. n.mod = s BY <1>2, <2>1 DEF Manager
    <3>2. QED BY <1>4, <2>1, <3>1, Zenon
  <2>2. CASE Current # Main
    <3>1. fLoopCountReg \in ToSet(s) /\ ToSet(fModifiedRegs) \subseteq ToSet(s)
      BY <1>4, Zenon
    <3>2. n = ISRRegs(Manager(With(fRF, fLoopCountReg, 0), fAZ, s))
      BY <1>2, <2>2
    <3> HIDE DEF n
    <3>3. IsInjective(fModifiedRegs) /\ ToSet(fModifiedRegs) \subseteq Dests
      BY <1>1 DEF GenInv, Filling
    <3>4. IsInjective(s) /\ ToSet(s) \subseteq Dests \cup {fLoopCountReg}
      BY <1>4, <3>3
    <3>5. QED BY <1>1, <1>4, <2>2, <3>1, <3>2, <3>4, ISRSaves
  <2>3. QED BY <2>1, <2>2
<1> HIDE DEF n
<1>6. QED BY <1>1, <1>5, GenClose

LEMMA GenNoMemory == ASSUME SaveSpace, GenInv, NoISRMemory PROVE GenInv'
<1> DEFINE n == ISRRegs(regM)
<1>1. phase = "fill" /\ Current # Main /\ body = <<>> /\ Close(n, FALSE)
  BY DEF NoISRMemory
<1>2. fModifiedRegs \in Seq(Registers) BY DEF GenInv, GenTypes
<1>3. regM = Manager(fRF, fAZ, fModifiedRegs) BY DEF regM, Manager
<1>4. Len(fModifiedRegs) <= Len(fModifiedRegs) + 1 BY <1>2, LenProperties
<1>5. n = ISRRegs(Manager(fRF, fAZ, fModifiedRegs)) BY <1>3
<1> HIDE DEF n
<1>6. IsInjective(fModifiedRegs)
      /\ ToSet(fModifiedRegs) \subseteq Dests \cup {fLoopCountReg}
  BY <1>1 DEF GenInv, Filling
<1>7. /\ n.mod \in Seq(Registers) /\ ToSet(fModifiedRegs) \subseteq ToSet(n.mod)
      /\ SavesEnough(n.mod)
  BY <1>1, <1>2, <1>4, <1>5, <1>6, ISRSaves
<1>8. QED BY <1>1, <1>7, GenClose

\* The core does not touch what the generator has made.
LEMMA GenStays == ASSUME GenInv, UNCHANGED <<phase, genVars>> PROVE GenInv'
<1>1. /\ GenTypes' /\ Pointers' /\ Setup'
  BY DEF GenInv, GenTypes, Pointers, Setup, genVars, fIntFrameReg
<1>2. UNCHANGED <<fMemRegInd1, fMemRegInd2, fLoopCountReg, MAXLOOP_IT, fConstRegs>>
  BY DEF genVars
<1>3. Filled'
  <2>1. ToSet(todo') = ToSet(todo) /\ code' = code BY DEF genVars
  <2>2. QED BY <1>2, <2>1, FilledStays DEF Filled, GenInv
<1>4. Filling'
  <2>1. /\ body' = body /\ Append(beliefs', Belief') = Append(beliefs, Belief)
        /\ fModifiedRegs' = fModifiedRegs /\ Current' = Current /\ phase' = phase
        /\ beliefs' = beliefs
    BY DEF genVars, Belief, Current
  <2>2. \A bd, bl, s : Simulated(bd, bl, s) => Simulated(bd, bl, s)'
    BY <1>2, SimulatedStays
  <2>3. Simulated(body, Append(beliefs, Belief), fModifiedRegs)
          => Simulated(body, Append(beliefs, Belief), fModifiedRegs)'
    BY <2>1, <2>2
  <2>4. Dests' = Dests BY DEF Dests, genVars
  <2>5. QED BY <2>1, <2>3, <2>4 DEF GenInv, Filling, Length
<1>5. QED BY <1>1, <1>3, <1>4 DEF GenInv
-----------------------------------------------------------------------------
(***************************************************************************)
(* The core.                                                               *)
(***************************************************************************)
Places == [who : Routines, at : Int]
Contexts == [rf : [Registers -> Int], az : Values, pc : Places]

\* The routines begun and not ended, from the first on, each with the
\* registers, the flag and the place it goes on with.
Now == [rf |-> rf, az |-> az, pc |-> pc]
Context(k) == IF k = Len(was) THEN Now ELSE was[k + 1]
Who(k) == Context(k).pc.who

PointersHold(x) ==
  /\ x.rf[fIntFrameReg] = Frame
  /\ \A r \in DOMAIN fConstRegs : x.rf[r] = fConstRegs[r]

BeliefHolds(x) ==
  x.pc.at \in 0..Len(code[x.pc.who].body) =>
    Agrees(code[x.pc.who].beliefs[x.pc.at + 1], x.rf, x.az)

\* Routine i, now in context x, has kept what it needs to go back to w: in its
\* words at the frame or, for the return address of the one that lets no other
\* in, in the hardware; and what it has not saved it has not changed.
Kept(i, w, x) ==
  LET q == code[i].saved IN
  /\ slots[StatusSlot(i)] = w.az
  /\ \A n \in 1..Len(q) : slots[SaveArea(i, n - 1)] = w.rf[q[n]]
  /\ w.pc = IF isNestedAllowed(i) THEN slots[IretSlot(i)] ELSE iret
  /\ \A r \in Registers \ ToSet(q) : x.rf[r] = w.rf[r]

CoreTypes ==
  /\ Now \in Contexts /\ was \in Seq(Contexts)
  /\ DOMAIN slots = 0..MAX_NUM_INTER * NREGS - 1

Idle == phase # "run" => was = <<>> /\ pc = Place(Main, 0) /\ ~gid

Nested ==
  /\ \A k \in 0..Len(was) :
       (Who(k) = Main <=> k = 0) /\ (k = 0 => Context(k).pc.at >= 0)
  /\ \A k \in 1..Len(was) : Who(k) \in inService /\ (Who(k) = 0 => k = Len(was))
  /\ \A j, k \in 0..Len(was) : Who(j) = Who(k) => j = k
  /\ gid <=> was # <<>> /\ pc.who = 0

Contextual ==
  \A k \in 0..Len(was) :
    /\ phase # "setup" => PointersHold(Context(k))
    /\ phase = "run" => BeliefHolds(Context(k))

Preserved ==
  \A k \in 1..Len(was) : Kept(Who(k), Context(k - 1), Context(k))

CoreInv == CoreTypes /\ Idle /\ Nested /\ Contextual /\ Preserved

\* The words of the routines at the frame lie apart.
LEMMA SaveAreasApart ==
  ASSUME NEW i \in 0..MAX_NUM_INTER - 1, NEW n \in 0..NREGS - 1
  PROVE  /\ SaveArea(i, n) \in 0..MAX_NUM_INTER * NREGS - 1
         /\ \A j \in 0..MAX_NUM_INTER - 1, k \in 0..NREGS - 1 :
              SaveArea(i, n) = SaveArea(j, k) => i = j /\ n = k
<1>1. NREGS \in Nat /\ MAX_NUM_INTER \in Nat /\ i \in Nat /\ n \in Nat
  BY Bounds
<1>2. \A j \in Nat : j * NREGS \in Nat BY <1>1
<1>3. \A j, k \in Nat : j < k => j * NREGS + NREGS <= k * NREGS
  <2>1. SUFFICES ASSUME NEW j \in Nat, NEW k \in Nat, j < k
                 PROVE  j * NREGS + NREGS <= k * NREGS
    OBVIOUS
  <2>2. k - j - 1 \in Nat BY <2>1
  <2>3. (k - j - 1) * NREGS >= 0 BY <1>1, <2>2
  <2>4. (k - j - 1) * NREGS = k * NREGS - j * NREGS - NREGS BY <1>1
  <2>5. k * NREGS \in Nat /\ j * NREGS \in Nat BY <1>2
  <2>6. QED BY <1>1, <2>3, <2>4, <2>5
<1>4. i * NREGS + NREGS <= MAX_NUM_INTER * NREGS BY <1>1, <1>3
<1>5. SaveArea(i, n) \in 0..MAX_NUM_INTER * NREGS - 1
  BY <1>1, <1>2, <1>4 DEF SaveArea
<1>6. ASSUME NEW j \in 0..MAX_NUM_INTER - 1, NEW k \in 0..NREGS - 1,
             SaveArea(i, n) = SaveArea(j, k)
      PROVE  i = j /\ n = k
  <2>1. j \in Nat /\ k \in Nat BY <1>1
  <2>2. i * NREGS + n = j * NREGS + k BY <1>6 DEF SaveArea
  <2>3. i * NREGS \in Nat /\ j * NREGS \in Nat BY <1>1, <1>2, <2>1
  <2>4. ~(i < j)
    <3>1. i < j => i * NREGS + NREGS <= j * NREGS BY <1>1, <1>3, <2>1
    <3>2. QED BY <1>1, <2>1, <2>2, <2>3, <3>1
  <2>5. ~(j < i)
    <3>1. j < i => j * NREGS + NREGS <= i * NREGS BY <1>1, <1>3, <2>1
    <3>2. QED BY <1>1, <2>1, <2>2, <2>3, <3>1
  <2>6. i = j BY <1>1, <2>1, <2>4, <2>5
  <2>7. QED BY <1>1, <2>1, <2>2, <2>3, <2>6
<1>7. QED BY <1>5, <1>6

\* What holds of the routines when they run.
LEMMA RunningRoutines ==
  ASSUME GenInv, phase = "run", NEW c \in Routines
  PROVE  /\ Simulated(code[c].body, code[c].beliefs, code[c].saved)
         /\ c # Main => SavesEnough(code[c].saved)
         /\ code[c].saved \in Seq(Registers) /\ Len(code[c].saved) \in Nat
         /\ Len(code[c].body) \in Nat
         /\ code[c].beliefs[1] = [rf |-> fConstRegs, az |-> {}]
<1>1. todo = <<>> BY DEF GenInv, GenTypes
<1>2. c \notin ToSet(todo) BY <1>1 DEF ToSet
<1>3. /\ Simulated(code[c].body, code[c].beliefs, code[c].saved)
      /\ c # Main => SavesEnough(code[c].saved)
  BY <1>2 DEF GenInv, Filled
<1>4. QED BY <1>3, LenProperties DEF Simulated

\* The pointers and the frame register are no destinations, and none of the
\* registers that loops and interrupt routines use.
LEMMA PointersApart ==
  ASSUME GenInv
  PROVE  /\ fIntFrameReg \in Registers \ {0, 1, fLoopCountReg}
         /\ fIntFrameReg \notin Dests
         /\ DOMAIN fConstRegs \subseteq Registers \ {0, 1, fLoopCountReg}
         /\ DOMAIN fConstRegs \cap Dests = {}
         /\ {0, 1, fLoopCountReg} \subseteq Registers
BY Bounds DEF GenInv, Pointers, Registers, Dests, fIntFrameReg

LEMMA CoreInit == Init => CoreInv
<1> SUFFICES ASSUME Init PROVE CoreInv OBVIOUS
<1>1. was = <<>> /\ Len(was) = 0 /\ pc = Place(Main, 0) /\ ~gid /\ phase = "setup"
  BY DEF Init
<1>2. CoreTypes
  BY Bounds DEF Init, CoreTypes, Now, Contexts, Places, Place, Values, Routines, Main
<1>3. Nested
  BY <1>1 DEF Nested, Who, Context, Now, Place
<1>4. QED BY <1>1, <1>2, <1>3 DEF CoreInv, Idle, Contextual, Preserved

\* While the routines are made the core waits.
LEMMA CoreWaits ==
  ASSUME CoreInv, phase # "run", UNCHANGED <<az, pc, iret, gid, inService, slots, was>>,
         rf' \in [Registers -> Int],
         phase' # "setup" => PointersHold(Now)',
         phase' = "run" => BeliefHolds(Now)'
  PROVE  CoreInv'
<1>1. was = <<>> /\ Len(was) = 0 /\ pc = Place(Main, 0) /\ ~gid
  BY DEF CoreInv, Idle
<1>2. CoreTypes' BY DEF CoreInv, CoreTypes, Now, Contexts
<1>3. Idle' BY <1>1 DEF Idle
<1>4. Nested' BY <1>1 DEF Nested, Who, Context, Now, Place
<1>5. Contextual' BY <1>1 DEF Contextual, Context
<1>6. Preserved' BY <1>1 DEF Preserved
<1>7. QED BY <1>2, <1>3, <1>4, <1>5, <1>6 DEF CoreInv

LEMMA CoreGenerates ==
  ASSUME GenInv, GenInv', CoreInv,
         CreateSetMemPointerReg \/ BeginSubroutines \/ Instruction
           \/ EndSubroutine \/ NoISRMemory
  PROVE  CoreInv'
<1>1. rf \in [Registers -> Int] /\ (was = <<>> \/ phase = "run")
  BY DEF CoreInv, CoreTypes, Now, Contexts, Idle
<1>2. CASE CreateSetMemPointerReg
  BY <1>1, <1>2, CoreWaits DEF CreateSetMemPointerReg, coreVars
<1>3. CASE BeginSubroutines
  <2>1. /\ phase = "setup" /\ phase' = "fill"
        /\ UNCHANGED <<fLoopCountReg, fConstRegs, az, pc, iret, gid, inService, slots, was>>
        /\ rf' = [r \in DOMAIN rf |-> CASE r = fLoopCountReg -> 1 + MAXLOOP_IT
                                        [] r = fIntFrameReg  -> Frame
                                        [] OTHER             -> fRF[r]]
    BY <1>3 DEF BeginSubroutines
  <2>2. DOMAIN rf = Registers BY <1>1, <2>1
  <2>3. rf' \in [Registers -> Int]
    <3>1. DOMAIN fRF = Registers \ {fLoopCountReg, fIntFrameReg} /\ fRF \in Knowledge
      BY <2>1 DEF GenInv, Setup, GenTypes
    <3>2. \A r \in DOMAIN fRF : fRF[r] \in Int BY <3>1, KnowledgeIs
    <3>3. MAXLOOP_IT \in Nat BY DEF GenInv, GenTypes
    <3>4. QED BY <2>1, <2>2, <3>1, <3>2, <3>3 DEF Frame
  <2>4. PointersHold(Now)'
    <3>1. \A r \in DOMAIN fConstRegs : fRF[r] = fConstRegs[r]
      BY <2>1 DEF GenInv, Setup
    <3>2. rf'[fIntFrameReg] = Frame
      BY <2>1, <2>2, PointersApart
    <3>3. \A r \in DOMAIN fConstRegs : rf'[r] = fConstRegs[r]
      <4> TAKE r \in DOMAIN fConstRegs
      <4>1. r \in Registers /\ r # fLoopCountReg /\ r # fIntFrameReg
        BY PointersApart DEF GenInv, Pointers
      <4>2. QED BY <2>1, <2>2, <3>1, <4>1
    <3>4. QED BY <2>1, <3>2, <3>3 DEF PointersHold, Now, fIntFrameReg
  <2>5. QED BY <2>1, <2>3, <2>4, CoreWaits
<1>4. CASE Instruction \/ EndSubroutine \/ NoISRMemory
  <2>1. phase = "fill" /\ UNCHANGED <<fLoopCountReg, fConstRegs, coreVars>>
    BY <1>4 DEF Instruction, EndSubroutine, NoISRMemory, Close
  <2>2. was = <<>> /\ Len(was) = 0 /\ pc = Place(Main, 0)
    BY <2>1 DEF CoreInv, Idle
  <2>3. rf' \in [Registers -> Int] BY <1>1, <2>1, <2>2 DEF coreVars
  <2>4. PointersHold(Now)
    BY <2>1, <2>2 DEF CoreInv, Contextual, Context
  <2>5. PointersHold(Now)'
    BY <2>1, <2>4 DEF PointersHold, Now, coreVars, fIntFrameReg
  <2>6. ASSUME phase' = "run" PROVE BeliefHolds(Now)'
    <3>1. (code[Main].beliefs)'[1] = [rf |-> fConstRegs', az |-> {}]
      BY <2>6, RunningRoutines, Bounds DEF Filled, GenInv, GenTypes, Simulated, ToSet
    <3>2. (\A r \in DOMAIN fConstRegs : rf[r] = fConstRegs[r])'
      BY <2>5 DEF PointersHold, Now
    <3>3. pc' = Place(Main, 0) BY <2>1, <2>2 DEF coreVars
    <3>4. QED BY <3>1, <3>2, <3>3 DEF BeliefHolds, Now, Place, Agrees
  <2>7. QED BY <2>1, <2>3, <2>5, <2>6, CoreWaits DEF coreVars
<1>5. QED BY <1>2, <1>3, <1>4

\* A step of the routine that runs: the routines under it do not notice.
LEMMA CoreStep ==
  ASSUME GenInv, CoreInv, phase = "run",
         UNCHANGED <<phase, genVars, iret, gid, inService, slots, was>>,
         rf' \in [Registers -> Int], az' \in Values, pc' \in Places,
         pc'.who = pc.who, pc.at >= 0 => pc'.at >= 0,
         PointersHold(Now)', BeliefHolds(Now)',
         pc.who # Main =>
           \A r \in Registers \ ToSet(code[pc.who].saved) : rf'[r] = rf[r]
  PROVE  CoreInv'
<1>1. /\ was' = was /\ code' = code /\ slots' = slots /\ iret' = iret
      /\ gid' = gid /\ inService' = inService /\ phase' = phase
      /\ fConstRegs' = fConstRegs /\ fLoopCountReg' = fLoopCountReg
  BY DEF genVars
<1>2. \A k \in 0..Len(was) : k # Len(was) => Context(k)' = Context(k)
  BY <1>1 DEF Context
<1>3. \A k \in 0..Len(was) : Who(k)' = Who(k)
  BY <1>1 DEF Context, Who, Now
<1>4. CoreTypes'
  BY <1>1 DEF CoreInv, CoreTypes, Now, Contexts
<1>5. Idle' BY <1>1 DEF Idle
<1>6. Len(was) \in Nat /\ was \in Seq(Contexts)
  BY LenProperties DEF CoreInv, CoreTypes
<1>7. Nested'
  <2>1. \A k \in 0..Len(was) : k = 0 => Context(k)'.pc.at >= 0
    BY <1>1 DEF CoreInv, Nested, Context, Now
  <2>2. QED BY <1>1, <1>3, <2>1 DEF CoreInv, Nested
<1>8. Contextual'
  <2>1. \A x : PointersHold(x)' <=> PointersHold(x)
    BY <1>1 DEF PointersHold, fIntFrameReg
  <2>2. \A x : BeliefHolds(x)' <=> BeliefHolds(x)
    BY <1>1 DEF BeliefHolds
  <2>3. ASSUME NEW k \in 0..Len(was)
        PROVE  PointersHold(Context(k))' /\ BeliefHolds(Context(k))'
    <3>1. CASE k = Len(was)
      <4>1. Context(k)' = Now' BY <1>1, <3>1 DEF Context
      <4>2. QED BY <4>1 DEF PointersHold, BeliefHolds
    <3>2. CASE k # Len(was)
      <4>1. PointersHold(Context(k)) /\ BeliefHolds(Context(k))
        BY DEF CoreInv, Contextual
      <4>2. Context(k)' = Context(k) BY <1>2, <3>2
      <4>3. QED BY <2>1, <2>2, <4>1, <4>2
    <3>3. QED BY <3>1, <3>2
  <2>4. QED BY <1>1, <2>3 DEF Contextual
<1>9. Preserved'
  <2>1. \A i, w, x : Kept(i, w, x)' <=> Kept(i, w, x)
    BY <1>1 DEF Kept, StatusSlot, IretSlot, SaveArea, isNestedAllowed
  <2>2. ASSUME NEW k \in 1..Len(was)
        PROVE  Kept(Who(k), Context(k - 1), Context(k))'
    <3>1. Kept(Who(k), Context(k - 1), Context(k)) BY DEF CoreInv, Preserved
    <3>2. Who(k)' = Who(k) /\ Context(k - 1)' = Context(k - 1)
      BY <1>2, <1>3, <1>6
    <3>3. CASE k # Len(was)
      BY <1>2, <2>1, <3>1, <3>2, <3>3
    <3>4. CASE k = Len(was)
      <4>1. Context(k) = Now /\ Context(k)' = Now' BY <1>1, <3>4 DEF Context
      <4>2. Who(k) = pc.who /\ pc.who # Main
        BY <1>6, <3>4, <4>1 DEF Who, Now, CoreInv, Nested
      <4>3. \A r \in Registers \ ToSet(code[Who(k)].saved) : rf'[r] = rf[r]
        BY <4>2
      <4>4. ASSUME Kept(Who(k), Context(k - 1), Now)
            PROVE  Kept(Who(k), Context(k - 1), Now')
        BY <4>3, <4>4 DEF Kept, Now
      <4>5. QED BY <2>1, <3>1, <3>2, <4>1, <4>4
    <3>5. QED BY <3>3, <3>4
  <2>3. QED BY <1>1, <2>2 DEF Preserved
<1>10. QED BY <1>4, <1>5, <1>7, <1>8, <1>9 DEF CoreInv

\* The routine that runs.
LEMMA CoreNow ==
  ASSUME CoreInv
  PROVE  /\ rf \in [Registers -> Int] /\ az \in Values /\ pc \in Places
         /\ Len(was) \in Nat /\ was \in Seq(Contexts)
         /\ phase # "setup" => PointersHold(Now)
         /\ phase = "run" => BeliefHolds(Now)
         /\ pc.who = Main <=> was = <<>>
         /\ pc.who = Main => pc.at >= 0
<1>1. Now \in Contexts /\ Len(was) \in Nat /\ was \in Seq(Contexts)
  BY LenProperties DEF CoreInv, CoreTypes
<1>2. Context(Len(was)) = Now /\ Len(was) \in 0..Len(was)
  BY <1>1 DEF Context
<1>3. Len(was) = 0 <=> was = <<>> BY <1>1, EmptySeq
<1>4. pc.who = Main <=> Len(was) = 0
  BY <1>2 DEF CoreInv, Nested, Who, Now
<1>5. Len(was) = 0 => pc.at >= 0
  BY <1>2 DEF CoreInv, Nested, Now
<1>6. PointersHold(Now) \/ phase = "setup"
  BY <1>2 DEF CoreInv, Contextual
<1>7. BeliefHolds(Now) \/ phase # "run"
  BY <1>2 DEF CoreInv, Contextual
<1>8. QED BY <1>1, <1>3, <1>4, <1>5, <1>6, <1>7 DEF Now, Contexts

LEMMA CoreExecutes == ASSUME GenInv, CoreInv, Execute PROVE CoreInv'
<1> DEFINE c == pc.who
           bl == code[c].beliefs
           bd == code[c].body
           s == code[c].saved
           n == pc.at + 1
<1>1. /\ phase = "run" /\ pc.at \in 0..Len(bd) - 1
      /\ pc' = [pc EXCEPT !.at = n]
      /\ UNCHANGED <<phase, genVars, iret, gid, inService, slots, was>>
  BY DEF Execute, Running, Routine, Go, Quiet
<1>2. PICK e \in Effects(bd[n]) : rf' = e[1] /\ az' = e[2]
  BY DEF Execute, Routine
<1>3. c \in Routines /\ pc.at \in Nat /\ pc \in Places
  BY <1>1, CoreNow DEF Places
<1>4. Simulated(bd, bl, s) /\ s \in Seq(Registers) /\ Len(bd) \in Nat
  BY <1>1, <1>3, RunningRoutines
<1>5. n \in 1..Len(bd) BY <1>1, <1>4
<1>6. bl[n] \in Beliefs /\ bl[n + 1] \in Beliefs
  <2>1. bl \in Seq(Beliefs) /\ Len(bl) = Len(bd) + 1 BY <1>4 DEF Simulated
  <2>2. n \in 1..Len(bl) /\ n + 1 \in 1..Len(bl) BY <1>4, <1>5, <2>1
  <2>3. QED BY <2>1, <2>2, ElementOfSeq
<1>7. Drawn(bl[n], bd[n]) /\ Follows(bl[n], bd[n], bl[n + 1], s)
  BY <1>4, <1>5 DEF Simulated
<1>8. Agrees(bl[n], rf, az)
  <2>1. BeliefHolds(Now) BY <1>1, CoreNow
  <2>2. QED BY <1>1, <1>4, <2>1 DEF BeliefHolds, Now
<1>9. /\ rf' \in [Registers -> Int] /\ az' \in Values
      /\ Agrees(bl[n + 1], rf', az')
      /\ \A r \in Registers : r \notin Dests \/ r \notin ToSet(s) => rf'[r] = rf[r]
  <2>1. rf \in [Registers -> Int] /\ az \in Values BY CoreNow
  <2> HIDE DEF n, bl, bd, s
  <2>2. QED BY <1>2, <1>4, <1>6, <1>7, <1>8, <2>1, EffectsHold
<1>10. UNCHANGED <<code, fConstRegs, fLoopCountReg>> BY <1>1 DEF genVars
<1>11. PointersHold(Now)'
  <2>1. PointersHold(Now) BY <1>1, CoreNow
  <2>2. \A r \in DOMAIN fConstRegs \cup {fIntFrameReg} : rf'[r] = rf[r]
    BY <1>9, PointersApart
  <2>3. QED BY <1>10, <2>1, <2>2 DEF PointersHold, Now, fIntFrameReg
<1>12. pc'.who = c /\ pc'.at = n /\ pc' \in Places
  BY <1>1, <1>3 DEF Places
<1>13. BeliefHolds(Now)'
  BY <1>9, <1>10, <1>12 DEF BeliefHolds, Now
<1>14. n >= 0 BY <1>3
<1>15. \A r \in Registers \ ToSet(s) : rf'[r] = rf[r] BY <1>9
<1>16. QED BY <1>1, <1>9, <1>11, <1>12, <1>13, <1>14, <1>15, CoreStep

\* Around the body: what changes are the registers that every interrupt routine
\* saves, and at the start of a body only the pointers are believed.
LEMMA CoreAround ==
  ASSUME GenInv, CoreInv, phase = "run",
         UNCHANGED <<phase, genVars, iret, gid, inService, slots, was>>,
         rf' \in [Registers -> Int], az' \in Values,
         NEW n \in Int, pc' = [pc EXCEPT !.at = n],
         pc.at >= 0 => n >= 0, n = 0 \/ n > Len(code[pc.who].body),
         \A r \in Registers \ {0, 1, fLoopCountReg} : rf'[r] = rf[r],
         pc.who = Main => \A r \in Registers \ {fLoopCountReg} : rf'[r] = rf[r]
  PROVE  CoreInv'
<1>1. pc \in Places /\ pc.who \in Routines BY CoreNow DEF Places
<1>2. pc'.who = pc.who /\ pc'.at = n /\ pc' \in Places BY <1>1 DEF Places
<1>3. UNCHANGED <<code, fConstRegs, fLoopCountReg>> BY DEF genVars
<1>4. PointersHold(Now)'
  <2>1. PointersHold(Now) BY CoreNow
  <2>2. \A r \in DOMAIN fConstRegs \cup {fIntFrameReg} : rf'[r] = rf[r]
    BY PointersApart
  <2>3. QED BY <1>3, <2>1, <2>2 DEF PointersHold, Now, fIntFrameReg
<1>5. BeliefHolds(Now)'
  <2>1. CASE n = 0
    <3>1. code[pc.who].beliefs[1] = [rf |-> fConstRegs, az |-> {}]
      BY <1>1, RunningRoutines
    <3>2. \A r \in DOMAIN fConstRegs : rf'[r] = fConstRegs[r]
      BY <1>3, <1>4 DEF PointersHold, Now
    <3>3. Agrees(code[pc.who].beliefs[1], rf', az') BY <3>1, <3>2 DEF Agrees
    <3>4. pc'.at + 1 = 1 BY <1>2, <2>1
    <3>5. code'[pc'.who].beliefs[pc'.at + 1] = code[pc.who].beliefs[1]
      BY <1>2, <1>3, <3>4
    <3>6. Agrees(code'[pc'.who].beliefs[pc'.at + 1], rf', az')
      BY <3>3, <3>5, Zenon
    <3>7. QED BY <3>6 DEF BeliefHolds, Now
  <2>2. CASE n > Len(code[pc.who].body)
    <3>1. Len(code[pc.who].body) \in Nat BY <1>1, RunningRoutines
    <3>2. n \notin 0..Len(code[pc.who].body) BY <2>2, <3>1
    <3>3. QED BY <1>2, <1>3, <3>2 DEF BeliefHolds, Now
  <2>3. QED BY <2>1, <2>2
<1>6. ASSUME pc.who # Main
      PROVE  \A r \in Registers \ ToSet(code[pc.who].saved) : rf'[r] = rf[r]
  BY <1>1, <1>6, RunningRoutines DEF SavesEnough
<1>7. QED BY <1>2, <1>4, <1>5, <1>6, CoreStep

LEMMA CoreLoops ==
  ASSUME GenInv, CoreInv, Subtract \/ LoopBack \/ SetCounter PROVE CoreInv'
<1> DEFINE l == Len(code[pc.who].body)
<1>1. /\ rf \in [Registers -> Int] /\ az \in Values /\ pc \in Places
      /\ pc.who \in Routines /\ phase = "run"
      /\ fLoopCountReg \in Registers /\ MAXLOOP_IT \in Nat
  BY CoreNow, PointersApart
  DEF Places, Subtract, LoopBack, SetCounter, At, Running, GenInv, GenTypes
<1>2. l \in Nat BY <1>1, RunningRoutines
<1>3. UNCHANGED <<phase, genVars, iret, gid, inService, slots, was>>
  BY DEF Subtract, LoopBack, SetCounter, Quiet
<1>4. CASE Subtract
  <2>1. /\ rf' = [rf EXCEPT ![fLoopCountReg] = @ - 1]
        /\ az' \in Values /\ pc' = [pc EXCEPT !.at = l + 1]
    BY <1>4 DEF Subtract, Go, Tail0, Routine, Values
  <2>2. rf' \in [Registers -> Int]
        /\ \A r \in Registers \ {fLoopCountReg} : rf'[r] = rf[r]
    BY <1>1, <2>1
  <2>3. l + 1 \in Int /\ l + 1 >= 0 /\ l + 1 > l BY <1>2
  <2>4. QED BY <1>1, <1>3, <2>1, <2>2, <2>3, CoreAround
<1>5. CASE LoopBack
  <2>1. /\ rf' = rf /\ az' = az
        /\ pc' = [pc EXCEPT !.at = IF az = 0 THEN 0 ELSE l + 2]
    BY <1>5 DEF LoopBack, Go, Tail0, Routine
  <2>2. l + 2 \in Int /\ l + 2 >= 0 /\ l + 2 > l BY <1>2
  <2>3. QED BY <1>1, <1>3, <2>1, <2>2, CoreAround
<1>6. CASE SetCounter
  <2>1. /\ rf' = [rf EXCEPT ![fLoopCountReg] = 1 + MAXLOOP_IT]
        /\ az' = az /\ pc' = [pc EXCEPT !.at = l + 3]
    BY <1>6 DEF SetCounter, Go, Tail0, Routine
  <2>2. rf' \in [Registers -> Int]
        /\ \A r \in Registers \ {fLoopCountReg} : rf'[r] = rf[r]
    BY <1>1, <2>1
  <2>3. l + 3 \in Int /\ l + 3 >= 0 /\ l + 3 > l BY <1>2
  <2>4. QED BY <1>1, <1>3, <2>1, <2>2, <2>3, CoreAround
<1>7. QED BY <1>4, <1>5, <1>6

LEMMA CoreEnters == ASSUME GenInv, CoreInv, Enter PROVE CoreInv'
<1>1. /\ rf \in [Registers -> Int] /\ az \in Values /\ pc \in Places
      /\ pc.who \in Routines /\ phase = "run" /\ pc.at = -1 /\ pc.who # Main
      /\ {0, 1, fLoopCountReg} \subseteq Registers /\ MAXLOOP_IT \in Nat
  BY CoreNow, PointersApart DEF Places, Enter, At, Running, Entry, GenInv, GenTypes
<1>2. UNCHANGED <<phase, genVars, iret, gid, inService, slots, was>>
  BY DEF Enter, Quiet
<1>3. Len(code[pc.who].body) \in Nat BY <1>1, RunningRoutines
<1>4. PICK n \in {0, Len(code[pc.who].body) + 3} : pc' = [pc EXCEPT !.at = n]
  BY DEF Enter, Go, End
<1>5. n \in Int /\ n >= 0 /\ (n = 0 \/ n > Len(code[pc.who].body)) BY <1>3
<1>6. rf' = [rf EXCEPT ![0] = Address, ![fLoopCountReg] = 1 + MAXLOOP_IT,
                       ![1] = IF pc.who > 0 THEN Address ELSE @]
  BY DEF Enter
<1>7. /\ rf' \in [Registers -> Int]
      /\ \A r \in Registers \ {0, 1, fLoopCountReg} : rf'[r] = rf[r]
  BY <1>1, <1>6 DEF Address
<1>8. az' \in Values BY <1>1 DEF Enter
<1>9. QED BY <1>1, <1>2, <1>4, <1>5, <1>7, <1>8, CoreAround

\* The routine that is interrupted becomes one of those to go back to.
LEMMA CoreInterrupt ==
  ASSUME GenInv, CoreInv, NEW i \in 0..MAX_NUM_INTER - 1, Interrupt(i)
  PROVE  CoreInv'
<1> DEFINE q == code[i].saved
<1>0. PICK L \in Nat : L = Len(was) BY CoreNow
<1>1. /\ phase = "run" /\ ~gid /\ (\A j \in inService : Rank(i) < Rank(j))
      /\ slots' = Saved(i, q)
      /\ rf' = [rf EXCEPT ![0] = az, ![1] = IF isNestedAllowed(i) THEN Address ELSE @]
      /\ iret' = pc /\ pc' = Place(i, -1) /\ gid' = ~isNestedAllowed(i)
      /\ inService' = inService \cup {i} /\ was' = Append(was, Now)
      /\ UNCHANGED <<phase, genVars, az>>
  BY DEF Interrupt, Running, Entry, Now
<1>2. /\ rf \in [Registers -> Int] /\ az \in Values /\ pc \in Places
      /\ L \in Nat /\ was \in Seq(Contexts) /\ Now \in Contexts
      /\ PointersHold(Now) /\ Len(was) = L
  BY <1>0, <1>1, CoreNow DEF CoreInv, CoreTypes
<1>3. /\ i \in Routines /\ i # Main /\ i \in Int /\ {0, 1} \subseteq Registers
  BY Bounds, PointersApart DEF Routines, Main
<1>4. /\ SavesEnough(q) /\ q \in Seq(Registers) /\ Len(q) \in Nat
  BY <1>1, <1>3, RunningRoutines
<1>5. /\ was' \in Seq(Contexts) /\ Len(was') = L + 1 /\ was'[L + 1] = Now
      /\ \A k \in 1..L : was'[k] = was[k]
  BY <1>1, <1>2, AppendProperties
<1>6. /\ Context(L + 1)' = Now'
      /\ \A k \in 0..L : Context(k)' = Context(k)
  <2>1. Context(L + 1)' = Now' BY <1>5 DEF Context
  <2>2. ASSUME NEW k \in 0..L PROVE Context(k)' = Context(k)
    <3>1. k # L + 1 BY <1>2
    <3>2. Context(k)' = was'[k + 1] BY <1>5, <3>1 DEF Context
    <3>3. CASE k = L BY <1>2, <1>5, <3>2, <3>3 DEF Context
    <3>4. CASE k # L
      <4>1. k + 1 \in 1..L BY <1>2, <3>4
      <4>2. QED BY <1>2, <1>5, <3>2, <3>4, <4>1 DEF Context
    <3>5. QED BY <3>3, <3>4
  <2>3. QED BY <2>1, <2>2
<1>7. /\ Who(L + 1)' = i /\ \A k \in 0..L : Who(k)' = Who(k)
  BY <1>1, <1>6 DEF Who, Now, Place
<1>8. \A k \in 1..L : Who(k) # 0 /\ Who(k) # i
  <2> SUFFICES ASSUME NEW k \in 1..L PROVE Who(k) # 0 /\ Who(k) # i
    OBVIOUS
  <2>1. Who(k) \in inService /\ (Who(k) = 0 => k = L) BY <1>2 DEF CoreInv, Nested
  <2>2. Who(k) # i
    <3>1. Rank(i) \in Int BY <1>3, Bounds DEF Rank
    <3>2. QED BY <1>1, <2>1, <3>1
  <2>3. Who(k) # 0
    <3>1. SUFFICES ASSUME Who(k) = 0 PROVE FALSE OBVIOUS
    <3>2. k = L /\ L # 0 BY <1>2, <2>1, <3>1
    <3>3. pc.who = 0 BY <1>2, <3>1, <3>2 DEF Who, Context, Now
    <3>4. was # <<>> BY <1>2, <3>2, EmptySeq
    <3>5. QED BY <1>1, <3>3, <3>4 DEF CoreInv, Nested
  <2>4. QED BY <2>2, <2>3
<1>9. \A k \in 0..L : Who(k) # i
  <2>1. Who(0) = Main BY <1>2 DEF CoreInv, Nested
  <2>2. QED BY <1>2, <1>3, <1>8, <2>1
<1>10. rf' \in [Registers -> Int] /\ \A r \in Registers \ {0, 1} : rf'[r] = rf[r]
  BY <1>1, <1>2, <1>3 DEF Address, Values
<1>11. CoreTypes'
  <2>1. Now' \in Contexts
    BY <1>1, <1>2, <1>3, <1>10 DEF Now, Contexts, Places, Place
  <2>2. DOMAIN slots' = DOMAIN slots BY <1>1 DEF Saved
  <2>3. QED BY <1>5, <2>1, <2>2 DEF CoreInv, CoreTypes
<1>12. Idle' BY <1>1 DEF Idle
<1>13. Nested'
  <2>1. \A k \in 0..L + 1 :
          (Who(k)' = Main <=> k = 0) /\ (k = 0 => Context(k)'.pc.at >= 0)
    <3> TAKE k \in 0..L + 1
    <3>1. CASE k = L + 1 BY <1>2, <1>3, <1>7, <3>1
    <3>2. CASE k \in 0..L BY <1>2, <1>6, <1>7, <3>2 DEF CoreInv, Nested
    <3>3. QED BY <1>2, <3>1, <3>2
  <2>2. \A k \in 1..L + 1 : Who(k)' \in inService' /\ (Who(k)' = 0 => k = L + 1)
    <3> TAKE k \in 1..L + 1
    <3>1. CASE k = L + 1 BY <1>1, <1>7, <3>1
    <3>2. CASE k \in 1..L
      <4>1. Who(k)' = Who(k) /\ Who(k) \in inService BY <1>2, <1>7, <3>2
            DEF CoreInv, Nested
      <4>2. QED BY <1>1, <1>8, <3>2, <4>1
    <3>3. QED BY <1>2, <3>1, <3>2
  <2>3. \A j, k \in 0..L + 1 : Who(j)' = Who(k)' => j = k
    <3> TAKE j, k \in 0..L + 1
    <3>1. CASE j \in 0..L /\ k \in 0..L BY <1>2, <1>7, <3>1 DEF CoreInv, Nested
    <3>2. CASE j = L + 1 \/ k = L + 1 BY <1>2, <1>7, <1>9, <3>2
    <3>3. QED BY <1>2, <3>1, <3>2
  <2>4. gid' <=> was' # <<>> /\ pc'.who = 0
    <3>1. was' # <<>> BY <1>2, <1>5, EmptySeq
    <3>2. QED BY <1>1, <3>1 DEF isNestedAllowed, Place
  <2>5. QED BY <1>5, <2>1, <2>2, <2>3, <2>4 DEF Nested
<1>14. /\ UNCHANGED <<code, fConstRegs, fLoopCountReg, phase>>
  BY <1>1 DEF genVars
<1>15. Contextual'
  <2>1. \A x : PointersHold(x)' <=> PointersHold(x)
    BY <1>14 DEF PointersHold, fIntFrameReg
  <2>2. \A x : BeliefHolds(x)' <=> BeliefHolds(x)
    BY <1>14 DEF BeliefHolds
  <2>3. PointersHold(Now)'
    <3>1. \A r \in DOMAIN fConstRegs \cup {fIntFrameReg} : rf'[r] = rf[r]
      BY <1>10, PointersApart
    <3>2. QED BY <1>2, <1>14, <3>1 DEF PointersHold, Now, fIntFrameReg
  <2>4. BeliefHolds(Now)'
    BY <1>1 DEF BeliefHolds, Now, Place
  <2>5. ASSUME NEW k \in 0..L + 1
        PROVE  PointersHold(Context(k))' /\ BeliefHolds(Context(k))'
    <3>1. CASE k = L + 1
      BY <1>6, <2>3, <2>4, <3>1 DEF PointersHold, BeliefHolds
    <3>2. CASE k \in 0..L
      <4>1. PointersHold(Context(k)) /\ BeliefHolds(Context(k))
        BY <1>1, <1>2, <3>2 DEF CoreInv, Contextual
      <4>2. Context(k)' = Context(k) BY <1>6, <3>2
      <4>3. QED BY <2>1, <2>2, <4>1, <4>2
    <3>3. QED BY <1>2, <3>1, <3>2
  <2>6. QED BY <1>5, <2>5 DEF Contextual
<1>16. \A w : w = Now => Kept(i, w, Now)'
  <2>1. /\ NREGS - 2 \in 0..NREGS - 1 /\ NREGS - 1 \in 0..NREGS - 1
        /\ \A n \in 1..Len(q) : n - 1 \in 0..NREGS - 3
    BY <1>4, Bounds DEF SavesEnough
  <2>2. DOMAIN slots = 0..MAX_NUM_INTER * NREGS - 1 BY DEF CoreInv, CoreTypes
  <2>3. slots'[StatusSlot(i)] = az
    <3>1. StatusSlot(i) \in DOMAIN slots /\ StatusSlot(i) # IretSlot(i)
      BY <2>1, <2>2, SaveAreasApart, Bounds DEF StatusSlot, IretSlot
    <3>2. QED BY <1>1, <3>1 DEF Saved
  <2>4. isNestedAllowed(i) => slots'[IretSlot(i)] = pc
    <3>1. IretSlot(i) \in DOMAIN slots
      BY <2>1, <2>2, SaveAreasApart DEF IretSlot
    <3>2. QED BY <1>1, <3>1 DEF Saved
  <2>5. ASSUME NEW n \in 1..Len(q) PROVE slots'[SaveArea(i, n - 1)] = rf[q[n]]
    <3> DEFINE m == n - 1
               w == SaveArea(i, m)
    <3>1. m \in 0..NREGS - 1 /\ m # NREGS - 2 /\ m # NREGS - 1
      BY <2>1, Bounds
    <3>2. w \in DOMAIN slots /\ w # StatusSlot(i) /\ w # IretSlot(i)
      <4> HIDE DEF m
      <4>1. QED BY <2>1, <2>2, <3>1, SaveAreasApart DEF StatusSlot, IretSlot
    <3>3. w - SaveArea(i, 0) + 1 = n
      <4>1. i * NREGS \in Int BY <1>3, Bounds
      <4>2. n \in Int BY <1>4
      <4>3. QED BY <4>1, <4>2 DEF SaveArea
    <3>4. slots'[w] = rf[q[w - SaveArea(i, 0) + 1]]
      BY <1>1, <3>2 DEF Saved
    <3>5. QED BY <3>3, <3>4
  <2>6. \A r \in Registers \ ToSet(q) : rf'[r] = rf[r]
    BY <1>4, <1>10 DEF SavesEnough
  <2>7. code' = code /\ iret' = pc BY <1>1, <1>14
  <2>8. QED BY <2>3, <2>4, <2>5, <2>6, <2>7
    DEF Kept, Now, StatusSlot, IretSlot, SaveArea, isNestedAllowed
<1>17. ASSUME NEW j \in 1..MAX_NUM_INTER - 1, j # i, NEW n \in 0..NREGS - 1
       PROVE  slots'[SaveArea(j, n)] = slots[SaveArea(j, n)]
  <2>1. j \in 0..MAX_NUM_INTER - 1 OBVIOUS
  <2>2. /\ SaveArea(j, n) \in 0..MAX_NUM_INTER * NREGS - 1
        /\ \A k \in 0..NREGS - 1 : SaveArea(j, n) # SaveArea(i, k)
    BY <1>17, <2>1, SaveAreasApart
  <2>3. /\ SaveArea(j, n) # IretSlot(i) /\ SaveArea(j, n) # StatusSlot(i)
        /\ \A k \in 1..Len(q) : SaveArea(j, n) # SaveArea(i, k - 1)
    <3>1. NREGS - 2 \in 0..NREGS - 1 /\ NREGS - 1 \in 0..NREGS - 1 BY Bounds
    <3>2. \A k \in 1..Len(q) : k - 1 \in 0..NREGS - 1
      BY <1>4, Bounds DEF SavesEnough
    <3>3. QED BY <2>2, <3>1, <3>2 DEF StatusSlot, IretSlot
  <2>4. SaveArea(j, n) \in DOMAIN slots BY <2>2 DEF CoreInv, CoreTypes
  <2>5. QED BY <1>1, <2>3, <2>4 DEF Saved
<1>18. Preserved'
  <2>1. ASSUME NEW k \in 1..L + 1
        PROVE  Kept(Who(k), Context(k - 1), Context(k))'
    <3>1. CASE k = L + 1
      <4>1. /\ Who(k)' = i /\ Context(k)' = Now'
            /\ Context(k - 1)' = Context(L) /\ Context(L) = Now
        BY <1>2, <1>6, <1>7, <3>1 DEF Context
      <4>2. Context(k - 1)' = Now BY <4>1
      <4>3. \A w : w = Now => Kept(Who(k), w, Context(k))'
        BY <1>16, <4>1 DEF Kept
      <4>4. QED BY <4>2, <4>3
    <3>2. CASE k \in 1..L
      <4> DEFINE j == Who(k)
                 w == Context(k - 1)
                 x == Context(k)
                 p == code[j].saved
      <4>1. Kept(j, w, x) BY <1>2, <3>2 DEF CoreInv, Preserved
      <4>2. j' = j /\ w' = w /\ x' = x
        BY <1>2, <1>6, <1>7, <3>2
      <4>3. j \in 1..MAX_NUM_INTER - 1 /\ j # i /\ j \in Routines /\ j # Main
        <5>1. j # 0 /\ j # i BY <1>8, <3>2
        <5>2. j # Main BY <1>2, <3>2 DEF CoreInv, Nested
        <5>3. x \in Contexts
          <6>1. k + 1 \in 1..Len(was) \/ k = Len(was) BY <1>2, <3>2
          <6>2. QED BY <1>2, <6>1, ElementOfSeq DEF Context
        <5>4. j \in Routines BY <5>3 DEF Who, Contexts, Places
        <5>5. QED BY <5>1, <5>2, <5>4, Bounds DEF Routines, Main
      <4>4. p \in Seq(Registers) /\ Len(p) \in Nat /\ Len(p) <= NREGS - 2
        BY <1>1, <4>3, RunningRoutines DEF SavesEnough
      <4> HIDE DEF j, w, x
      <4>5. slots'[StatusSlot(j)] = slots[StatusSlot(j)]
            /\ slots'[IretSlot(j)] = slots[IretSlot(j)]
        <5>1. NREGS - 2 \in 0..NREGS - 1 /\ NREGS - 1 \in 0..NREGS - 1 BY Bounds
        <5>2. QED BY <1>17, <4>3, <5>1 DEF StatusSlot, IretSlot
      <4>6. \A n \in 1..Len(p) : slots'[SaveArea(j, n - 1)] = slots[SaveArea(j, n - 1)]
        <5>1. \A n \in 1..Len(p) : n - 1 \in 0..NREGS - 1 BY <4>4, Bounds
        <5>2. QED BY <1>17, <4>3, <5>1
      <4>7. isNestedAllowed(j) BY <4>3 DEF isNestedAllowed
      <4>8. Kept(j, w, x)'
        BY <1>14, <4>1, <4>2, <4>5, <4>6, <4>7
        DEF Kept, StatusSlot, IretSlot, SaveArea, isNestedAllowed
      <4>9. QED BY <4>8 DEF j, w, x
    <3>3. QED BY <1>2, <3>1, <3>2
  <2>2. QED BY <1>5, <2>1 DEF Preserved
<1>19. QED BY <1>11, <1>12, <1>13, <1>15, <1>18 DEF CoreInv

\* Returning, a routine gives back what it has kept and has what it did not
\* change.
LEMMA ReturnsTo ==
  ASSUME GenInv, CoreInv, Return
  PROVE  /\ was # <<>> /\ rf' = Last(was).rf /\ az' = Last(was).az
         /\ pc' = Last(was).pc
<1> DEFINE i == pc.who
           q == code[i].saved
           w == Context(Len(was) - 1)
           Scratch == [rf EXCEPT ![0] = slots[StatusSlot(i)],
                                 ![1] = IF isNestedAllowed(i) THEN Address ELSE @]
<1>1. /\ phase = "run" /\ i # Main
      /\ rf' = [r \in DOMAIN rf |->
                  IF \E n \in 1..Len(q) : q[n] = r
                  THEN slots[SaveArea(i, (CHOOSE n \in 1..Len(q) : q[n] = r) - 1)]
                  ELSE Scratch[r]]
      /\ az' = slots[StatusSlot(i)]
      /\ iret' = IF isNestedAllowed(i) THEN slots[IretSlot(i)] ELSE iret
      /\ pc' = iret'
  BY DEF Return, Running, Routine
<1>2. /\ rf \in [Registers -> Int] /\ pc \in Places /\ i \in Routines
      /\ was \in Seq(Contexts) /\ Len(was) \in Nat /\ was # <<>>
  BY <1>1, CoreNow DEF Places
<1>3. Len(was) # 0 BY <1>2, EmptySeq
<1>4. Last(was) = w /\ w \in Contexts
  <2>1. Len(was) \in 1..Len(was) BY <1>2, <1>3
  <2>2. was[Len(was)] \in Contexts BY <1>2, <2>1, ElementOfSeq
  <2>3. w = was[(Len(was) - 1) + 1] BY <1>2, <1>3 DEF Context
  <2>4. (Len(was) - 1) + 1 = Len(was) BY <1>2
  <2>5. QED BY <2>2, <2>3, <2>4 DEF Last
<1>5. Kept(i, w, Now)
  <2>1. Len(was) \in 1..Len(was) BY <1>2, <1>3
  <2>2. Context(Len(was)) = Now /\ Who(Len(was)) = i BY DEF Context, Who, Now
  <2>3. QED BY <2>1, <2>2 DEF CoreInv, Preserved
<1>6. q \in Seq(Registers) /\ SavesEnough(q) /\ DOMAIN q = 1..Len(q)
  BY <1>1, <1>2, RunningRoutines, LenProperties
<1> HIDE DEF w
<1>7. \A r \in Registers : rf'[r] = w.rf[r]
  <2> TAKE r \in Registers
  <2>1. CASE \E n \in 1..Len(q) : q[n] = r
    <3> DEFINE n == CHOOSE n \in 1..Len(q) : q[n] = r
    <3>1. n \in 1..Len(q) /\ q[n] = r BY <2>1
    <3>2. rf'[r] = slots[SaveArea(i, n - 1)] BY <1>1, <1>2, <2>1
    <3> HIDE DEF n
    <3>3. slots[SaveArea(i, n - 1)] = w.rf[q[n]] BY <1>5, <3>1 DEF Kept
    <3>4. QED BY <3>1, <3>2, <3>3
  <2>2. CASE ~\E n \in 1..Len(q) : q[n] = r
    <3>1. r \notin ToSet(q) BY <1>6, <2>2 DEF ToSet
    <3>2. r # 0 /\ r # 1 BY <1>6, <3>1 DEF SavesEnough
    <3>3. rf'[r] = rf[r] BY <1>1, <1>2, <2>2, <3>2
    <3>4. rf[r] = w.rf[r] BY <1>5, <3>1 DEF Kept, Now
    <3>5. QED BY <3>3, <3>4
  <2>3. QED BY <2>1, <2>2
<1>8. rf' = w.rf
  <2>1. w.rf \in [Registers -> Int] BY <1>4 DEF Contexts
  <2>2. rf' = [r \in Registers |-> rf'[r]] BY <1>1, <1>2
  <2>3. w.rf = [r \in Registers |-> w.rf[r]] BY <2>1
  <2>4. QED BY <1>7, <2>2, <2>3
<1>9. az' = w.az BY <1>1, <1>5 DEF Kept
<1>10. pc' = w.pc BY <1>1, <1>5 DEF Kept
<1>11. QED BY <1>2, <1>4, <1>8, <1>9, <1>10

LEMMA CoreReturns == ASSUME GenInv, CoreInv, Return PROVE CoreInv'
<1>1. /\ phase = "run" /\ pc.who # Main /\ gid' = FALSE
      /\ iret' = IF isNestedAllowed(pc.who) THEN slots[IretSlot(pc.who)] ELSE iret
      /\ inService' = inService \ {pc.who} /\ was' = Front(was)
      /\ UNCHANGED <<phase, genVars, slots, coming>>
  BY DEF Return, Running
<1>2. /\ was # <<>> /\ rf' = Last(was).rf /\ az' = Last(was).az
      /\ pc' = Last(was).pc
  BY ReturnsTo
<1>3. PICK L \in Nat : Len(was) = L + 1
  <2>1. Len(was) \in Nat /\ Len(was) # 0 BY <1>2, CoreNow, EmptySeq
  <2>2. Len(was) - 1 \in Nat /\ Len(was) = (Len(was) - 1) + 1 BY <2>1
  <2>3. QED BY <2>2
<1>4. was \in Seq(Contexts) BY CoreNow
<1>5. /\ was' \in Seq(Contexts) /\ Len(was') = L
      /\ \A k \in 1..L : was'[k] = was[k]
  <2>1. was' = SubSeq(was, 1, L) BY <1>1, <1>3 DEF Front
  <2>2. /\ SubSeq(was, 1, L) \in Seq(Contexts) /\ Len(SubSeq(was, 1, L)) = L
        /\ \A k \in 1..L : SubSeq(was, 1, L)[k] = was[k]
    BY <1>3, <1>4, SubSeqProperties
  <2>3. QED BY <2>1, <2>2
<1>6. Now' = was[L + 1] /\ was[L + 1] \in Contexts
  <2>1. L + 1 \in 1..Len(was) BY <1>3
  <2>2. was[L + 1] \in Contexts BY <1>4, <2>1, ElementOfSeq
  <2>3. QED BY <1>2, <1>3, <2>2 DEF Last, Now, Contexts
<1>7. \A k \in 0..L : Context(k)' = Context(k)
  <2> TAKE k \in 0..L
  <2>1. Context(k) = was[k + 1] BY <1>3 DEF Context
  <2>2. CASE k = L BY <1>5, <1>6, <2>1, <2>2 DEF Context
  <2>3. CASE k # L
    <3>1. k + 1 \in 1..L BY <2>3
    <3>2. QED BY <1>5, <2>1, <2>3, <3>1 DEF Context
  <2>4. QED BY <2>2, <2>3
<1>8. \A k \in 0..L : Who(k)' = Who(k) BY <1>7 DEF Who
<1>9. /\ Who(L + 1) = pc.who /\ \A k \in 0..L : Who(k) # pc.who
  <2>1. Who(L + 1) = pc.who BY <1>3 DEF Who, Context, Now
  <2>2. ASSUME NEW k \in 0..L, Who(k) = pc.who PROVE FALSE
    <3>1. k \in 0..Len(was) /\ L + 1 \in 0..Len(was) /\ k # L + 1 BY <1>3
    <3>2. QED BY <2>1, <2>2, <3>1 DEF CoreInv, Nested
  <2>3. QED BY <2>1, <2>2
<1>10. UNCHANGED <<code, fConstRegs, fLoopCountReg>> BY <1>1 DEF genVars
<1>11. CoreTypes' BY <1>1, <1>5, <1>6 DEF CoreInv, CoreTypes
<1>12. Idle' BY <1>1 DEF Idle
<1>13. \A k \in 1..L : Who(k) # 0
  <2> TAKE k \in 1..L
  <2>1. k \in 1..Len(was) /\ k # Len(was) BY <1>3
  <2>2. QED BY <2>1 DEF CoreInv, Nested
<1>14. Nested'
  <2>1. \A k \in 0..L : k \in 0..Len(was) BY <1>3
  <2>2. \A k \in 0..L :
          (Who(k)' = Main <=> k = 0) /\ (k = 0 => Context(k)'.pc.at >= 0)
    BY <1>7, <1>8, <2>1 DEF CoreInv, Nested
  <2>3. \A k \in 1..L : Who(k)' \in inService' /\ (Who(k)' = 0 => k = L)
    <3> TAKE k \in 1..L
    <3>1. k \in 1..Len(was) BY <1>3
    <3>2. Who(k) \in inService BY <3>1 DEF CoreInv, Nested
    <3>3. QED BY <1>1, <1>8, <1>9, <1>13, <3>2
  <2>4. \A j, k \in 0..L : Who(j)' = Who(k)' => j = k
    BY <1>8, <2>1 DEF CoreInv, Nested
  <2>5. gid' <=> was' # <<>> /\ pc'.who = 0
    <3>1. was' # <<>> => L \in 1..L BY <1>5, EmptySeq
    <3>2. pc'.who = Who(L) BY <1>5, <1>8 DEF Who, Context, Now
    <3>3. QED BY <1>1, <1>13, <3>1, <3>2
  <2>6. QED BY <1>5, <2>2, <2>3, <2>4, <2>5 DEF Nested
<1>15. Contextual'
  <2>1. \A x : PointersHold(x)' <=> PointersHold(x)
    BY <1>10 DEF PointersHold, fIntFrameReg
  <2>2. \A x : BeliefHolds(x)' <=> BeliefHolds(x)
    BY <1>10 DEF BeliefHolds
  <2>3. ASSUME NEW k \in 0..L
        PROVE  PointersHold(Context(k))' /\ BeliefHolds(Context(k))'
    <3>1. k \in 0..Len(was) BY <1>3
    <3>2. PointersHold(Context(k)) /\ BeliefHolds(Context(k))
      BY <1>1, <3>1 DEF CoreInv, Contextual
    <3>3. Context(k)' = Context(k) BY <1>7
    <3>4. QED BY <2>1, <2>2, <3>2, <3>3
  <2>4. QED BY <1>5, <2>3 DEF Contextual
<1>16. Preserved'
  <2>1. ASSUME NEW k \in 1..L
        PROVE  Kept(Who(k), Context(k - 1), Context(k))'
    <3> DEFINE j == Who(k)
               w == Context(k - 1)
               x == Context(k)
    <3>1. k \in 1..Len(was) /\ k \in 0..L /\ k - 1 \in 0..L BY <1>3
    <3>2. Kept(j, w, x) BY <3>1 DEF CoreInv, Preserved
    <3>3. j' = j /\ w' = w /\ x' = x BY <1>7, <1>8, <3>1
    <3>4. j # 0 BY <1>13
    <3> HIDE DEF j, w, x
    <3>5. Kept(j, w, x)'
      BY <1>1, <1>10, <3>2, <3>3, <3>4
      DEF Kept, StatusSlot, IretSlot, SaveArea, isNestedAllowed
    <3>6. QED BY <3>5 DEF j, w, x
  <2>2. QED BY <1>5, <2>1 DEF Preserved
<1>17. QED BY <1>11, <1>12, <1>14, <1>15, <1>16 DEF CoreInv

LEMMA GenNext == ASSUME SaveSpace, GenInv, [Next]_vars PROVE GenInv'
<1>1. CASE CreateSetMemPointerReg BY <1>1, GenPointer
<1>2. CASE BeginSubroutines BY <1>2, GenBegin
<1>3. CASE Instruction BY <1>3, GenInstruction
<1>4. CASE EndSubroutine BY <1>4, GenEnd
<1>5. CASE NoISRMemory BY <1>5, GenNoMemory
<1>6. CASE UNCHANGED <<phase, genVars>> BY <1>6, GenStays
<1>7. CASE Execute \/ Subtract \/ LoopBack \/ SetCounter \/ Enter
  <2>1. UNCHANGED <<phase, genVars>>
    BY <1>7 DEF Execute, Subtract, LoopBack, SetCounter, Enter, Quiet
  <2>2. QED BY <2>1, GenStays
<1>8. CASE (\E i \in 0..MAX_NUM_INTER - 1 : Interrupt(i)) \/ Return
  <2>1. UNCHANGED <<phase, genVars>> BY <1>8 DEF Interrupt, Return
  <2>2. QED BY <2>1, GenStays
<1>9. CASE UNCHANGED vars BY <1>6, <1>9 DEF vars
<1>10. QED BY <1>1, <1>2, <1>3, <1>4, <1>5, <1>7, <1>8, <1>9 DEF Next

LEMMA CoreNext == ASSUME GenInv, GenInv', CoreInv, [Next]_vars PROVE CoreInv'
<1>1. CASE CreateSetMemPointerReg \/ BeginSubroutines \/ Instruction
             \/ EndSubroutine \/ NoISRMemory
  BY <1>1, CoreGenerates
<1>2. CASE Execute BY <1>2, CoreExecutes
<1>3. CASE Subtract \/ LoopBack \/ SetCounter BY <1>3, CoreLoops
<1>4. CASE Enter BY <1>4, CoreEnters
<1>5. CASE \E i \in 0..MAX_NUM_INTER - 1 : Interrupt(i) BY <1>5, CoreInterrupt
<1>6. CASE Return BY <1>6, CoreReturns
<1>7. CASE UNCHANGED vars
  <2>1. /\ UNCHANGED <<phase, genVars, az, pc, iret, gid, inService, slots, was>>
        /\ UNCHANGED <<code, fConstRegs, fLoopCountReg>> /\ rf' = rf
    BY <1>7 DEF vars, genVars, coreVars
  <2>2. /\ rf' \in [Registers -> Int] /\ az' \in Values /\ pc' \in Places
        /\ phase' # "setup" => PointersHold(Now)'
        /\ phase' = "run" => BeliefHolds(Now)'
    BY <2>1, CoreNow DEF PointersHold, BeliefHolds, Now, fIntFrameReg
  <2>3. CASE phase = "run" BY <2>1, <2>2, <2>3, CoreStep
  <2>4. CASE phase # "run" BY <2>1, <2>2, <2>4, CoreWaits
  <2>5. QED BY <2>3, <2>4
<1>8. QED BY <1>1, <1>2, <1>3, <1>4, <1>5, <1>6, <1>7 DEF Next
-----------------------------------------------------------------------------
\* What every routine in service has saved and believes, and the types: GenInv
\* of the generator's part of the state and CoreInv of the core's.
THEOREM CodeInvariant == ASSUME SaveSpace PROVE Spec => [](GenInv /\ CoreInv)
<1>1. Init => GenInv /\ CoreInv BY GenInit, CoreInit
<1>2. GenInv /\ CoreInv /\ [Next]_vars => (GenInv /\ CoreInv)'
  BY GenNext, CoreNext
<1>3. QED BY <1>1, <1>2, PTL DEF Spec

\* The addresses the generator takes from the registers it knows are those the
\* core has: TLSInstr::next, TDPIntr::next and TRegManager agree with it, in
\* every iteration of the loop and whatever interrupts come.
THEOREM BeliefsAlwaysHold == ASSUME SaveSpace PROVE Spec => []BeliefsHold
<1>1. GenInv /\ CoreInv => BeliefsHold
  <2> SUFFICES ASSUME GenInv, CoreInv, Running, pc.at \in 0..Len(Routine.body)
               PROVE  LET b == Routine.beliefs[pc.at + 1] IN
                      /\ \A r \in DOMAIN b.rf : rf[r] = b.rf[r]
                      /\ \A z \in b.az : az = z
                      /\ rf[fIntFrameReg] = Frame
    BY DEF BeliefsHold
  <2>1. BeliefHolds(Now) /\ PointersHold(Now) BY CoreNow DEF Running
  <2>2. QED BY <2>1 DEF BeliefHolds, PointersHold, Now, Agrees, Routine
<1>2. QED BY <1>1, CodeInvariant, PTL

\* An interrupt routine, interrupted itself or not, leaves the registers, the
\* flag and the place as they were: the generated saving and restoring of
\* GenerateRandomISR covers all it changes, as long as it fits.
THEOREM RoutinesReturn == ASSUME SaveSpace PROVE Spec => ReturnsAsItWas
<1>1. GenInv /\ CoreInv /\ [Next]_vars =>
        [Len(was') < Len(was) =>
           rf' = Last(was).rf /\ az' = Last(was).az /\ pc' = Last(was).pc]_vars
  <2> SUFFICES ASSUME GenInv, CoreInv, Next, Len(was') < Len(was)
               PROVE  rf' = Last(was).rf /\ az' = Last(was).az /\ pc' = Last(was).pc
    OBVIOUS
  <2>1. Len(was) \in Nat /\ was \in Seq(Contexts) BY CoreNow
  <2>2. CASE Return BY <2>2, ReturnsTo
  <2>3. CASE \E i \in 0..MAX_NUM_INTER - 1 : Interrupt(i)
    <3>1. \E x : was' = Append(was, x) /\ x = Now BY <2>3 DEF Interrupt, Now
    <3>2. Now \in Contexts BY DEF CoreInv, CoreTypes
    <3>3. Len(was') = Len(was) + 1 BY <2>1, <3>1, <3>2, AppendProperties
    <3>4. QED BY <2>1, <3>3
  <2>4. CASE ~Return /\ ~\E i \in 0..MAX_NUM_INTER - 1 : Interrupt(i)
    <3>1. was' = was
      BY <2>4 DEF Next, CreateSetMemPointerReg, BeginSubroutines, Instruction,
         EndSubroutine, NoISRMemory, Close, Execute, Subtract, LoopBack,
         SetCounter, Enter, Quiet, coreVars
    <3>2. QED BY <2>1, <3>1
  <2>5. QED BY <2>2, <2>3, <2>4
<1>2. QED BY <1>1, CodeInvariant, PTL DEF Spec, ReturnsAsItWas
===============================================================================

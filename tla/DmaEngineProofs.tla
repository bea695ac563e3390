--------------------------- MODULE DmaEngineProofs --------------------------
(***************************************************************************)
(* What the generator takes from memory: proofs about the allocator,       *)
(* MemManager, and about the DMA engines, DmaEngine, in two parts.         *)
(*                                                                         *)
(* The allocator hands out every byte at most once, whatever the range     *)
(* file, the sizes and the order of the claims.  The free ranges and the   *)
(* claims are kept apart by the arithmetic of RemoveUpdateRange alone      *)
(* (LeftoverInside, LeftoverApart).  The invariant adds what the claims    *)
(* rest on: the bytes with a value lie in claims, and the data that        *)
(* nobody claims is apart from free code memory.                           *)
(***************************************************************************)
EXTENDS DmaEngine, FiniteSetTheorems, SequenceTheorems, WellFoundedInduction, TLAPS

(***************************************************************************)
(* Part 1: the allocator.                                                  *)
(***************************************************************************)
Inside(s, r) == r[1] <= s[1] /\ s[2] <= r[2]

\* Ranges of addresses that are not empty.
Ranges == {r \in MemRange : r[1] <= r[2]}

\* What RemoveUpdateRange keeps lies in the old range, has room for a routine
\* and leaves out the claim.
LEMMA LeftoverInside ==
  ASSUME NEW r \in Ranges, NEW g \in Ranges, Fits(r, g), NEW s \in Leftover(r, g)
  PROVE  s \in Ranges /\ Roomy(s) /\ Inside(s, r) /\ ~Meet(s, g)
<1>1. CASE s = <<r[1], g[1] - 1>>
  BY <1>1, SizeAssumption
     DEF Ranges, MemRange, Fits, Leftover, Roomy, Inside, Meet
<1>2. CASE s = <<g[2] + 1, r[2]>>
  BY <1>2, SizeAssumption
     DEF Ranges, MemRange, Fits, Leftover, Roomy, Inside, Meet
<1> QED BY <1>1, <1>2 DEF Leftover

\* The parts on either side of the claim do not meet.
LEMMA LeftoverApart ==
  ASSUME NEW r \in Ranges, NEW g \in Ranges, Fits(r, g),
         NEW s \in Leftover(r, g), NEW t \in Leftover(r, g), s # t
  PROVE  ~Meet(s, t)
BY DEF Ranges, MemRange, Fits, Leftover, Meet

\* What lies in a range meets nothing the range does not meet.
LEMMA InsideMeet ==
  ASSUME NEW r \in Ranges, NEW s \in Ranges, NEW x \in Ranges,
         Inside(s, r), ~Meet(r, x)
  PROVE  ~Meet(s, x) /\ ~Meet(x, s)
BY DEF Ranges, MemRange, Inside, Meet

LEMMA MeetItself == ASSUME NEW r \in Ranges PROVE Meet(r, r)
BY DEF Ranges, MemRange, Meet

LEMMA FitsInside ==
  ASSUME NEW r \in Ranges, NEW g \in Ranges, Fits(r, g) PROVE Inside(g, r)
BY DEF Ranges, MemRange, Fits, Inside
-----------------------------------------------------------------------------
\* The free ranges F that a claim is taken from, the other free ranges O, and
\* the claims C.
Disjoint(F, O, C) ==
  /\ F \subseteq Ranges /\ O \subseteq Ranges /\ C \subseteq Ranges
  /\ \A x \in F \cup O : Roomy(x)
  /\ \A x, y \in F \cup O : x = y \/ ~Meet(x, y)
  /\ \A x \in F, y \in O : ~Meet(x, y)
  /\ \A x \in F \cup O, c \in C : ~Meet(x, c)
  /\ \A c, d \in C : c = d \/ ~Meet(c, d)

LEMMA DisjointSymmetric ==
  ASSUME NEW F, NEW O, NEW C, Disjoint(F, O, C) PROVE Disjoint(O, F, C)
BY DEF Disjoint, Meet

\* RemoveUpdateRange keeps free memory and claims apart, and what it claims
\* was not claimed before.
LEMMA Claiming ==
  ASSUME NEW F, NEW O, NEW C, Disjoint(F, O, C),
         NEW r \in F, NEW g \in Ranges, Fits(r, g)
  PROVE  /\ Disjoint(Remaining(F, r, g), O, C \cup {g})
         /\ \A c \in C : ~Meet(c, g)
<1> DEFINE F2 == Remaining(F, r, g)
<1>1. r \in Ranges /\ Inside(g, r)
  BY FitsInside DEF Disjoint
<1>2. \A s \in Leftover(r, g) :
        s \in Ranges /\ Roomy(s) /\ Inside(s, r) /\ ~Meet(s, g)
  BY <1>1, LeftoverInside
<1>3. \A s \in F2 :
        /\ s \in Ranges /\ Roomy(s)
        /\ (s \in F /\ s # r) \/ s \in Leftover(r, g)
  BY <1>2 DEF Remaining, Disjoint
<1>4. \A x \in Ranges : ~Meet(r, x) => ~Meet(g, x) /\ ~Meet(x, g)
  BY <1>1, InsideMeet
<1>5. \A s \in Leftover(r, g), x \in Ranges :
        ~Meet(r, x) => ~Meet(s, x) /\ ~Meet(x, s)
  BY <1>1, <1>2, InsideMeet
<1>6. \A c \in C : ~Meet(c, g) /\ ~Meet(g, c)
  BY <1>4 DEF Disjoint
<1>7. \A s \in F2, y \in O : ~Meet(s, y)
  BY <1>3, <1>5 DEF Disjoint
<1>8. \A s \in F2, c \in C \cup {g} : ~Meet(s, c)
  <2>1. \A s \in F, c \in C : ~Meet(s, c)
    BY DEF Disjoint
  <2>2. \A s \in Leftover(r, g), c \in C : ~Meet(s, c)
    BY <1>5, <2>1 DEF Disjoint
  <2>3. \A s \in F : s # r => ~Meet(s, g)
    BY <1>4 DEF Disjoint
  <2> QED BY <1>2, <1>3, <2>1, <2>2, <2>3
<1>9. \A s, t \in F2 : s = t \/ ~Meet(s, t)
  <2>1. \A s, t \in Leftover(r, g) : s = t \/ ~Meet(s, t)
    BY <1>1, LeftoverApart
  <2>2. \A s \in Leftover(r, g), t \in F : t # r => ~Meet(s, t) /\ ~Meet(t, s)
    BY <1>5 DEF Disjoint
  <2>3. \A s, t \in F : s = t \/ ~Meet(s, t)
    BY DEF Disjoint
  <2> QED BY <1>3, <2>1, <2>2, <2>3
<1>10. \A y \in O : ~Meet(y, g)
  BY <1>4 DEF Disjoint
<1>11. \A x, y \in F2 \cup O : x = y \/ ~Meet(x, y)
  <2>1. \A s \in F2, y \in O : ~Meet(s, y) /\ ~Meet(y, s)
    BY <1>7 DEF Meet
  <2>2. \A x, y \in O : x = y \/ ~Meet(x, y)
    BY DEF Disjoint
  <2> QED BY <1>9, <2>1, <2>2
<1>12. \A c, d \in C \cup {g} : c = d \/ ~Meet(c, d)
  BY <1>6 DEF Disjoint
<1>13. \A x \in F2 \cup O : Roomy(x)
  BY <1>3 DEF Disjoint
<1>14. \A x \in F2 \cup O, c \in C \cup {g} : ~Meet(x, c)
  BY <1>8, <1>10 DEF Disjoint
<1>15. F2 \subseteq Ranges /\ O \subseteq Ranges /\ C \cup {g} \subseteq Ranges
  BY <1>3 DEF Disjoint
<1> HIDE DEF F2
<1>16. Disjoint(F2, O, C \cup {g})
  BY <1>7, <1>11, <1>12, <1>13, <1>14, <1>15 DEF Disjoint
<1> QED BY <1>6, <1>16 DEF F2
-----------------------------------------------------------------------------
\* The data nobody claims and the bytes with a value, and where they lie.
Unclaimed ==
  /\ fLoadNotSafeRangeList \subseteq Ranges
  /\ \A s \in fLoadNotSafeRangeList, r \in fRangeListForFetch : ~Meet(s, r)
  /\ \A s \in fLoadNotSafeRangeList, c \in check_set :
       c \in fLSFillRangeList \/ ~Meet(s, c)

Valued ==
  /\ fAccessMem \subseteq Ranges
  /\ \A d \in fAccessMem : \E c \in check_set : Inside(d, c)

IInv ==
  /\ Disjoint(fRangeListForFetch, fRangeListForLS, check_set)
  /\ Unclaimed /\ Valued /\ AssertionsHold

LEMMA InitInv == MemInit => IInv
<1> SUFFICES ASSUME MemInit PROVE IInv
  OBVIOUS
<1>1. PICK m \in Initial : fRangeListForFetch = m[1] /\ fRangeListForLS = m[2]
  BY DEF MemInit
<1>2. \A r \in m[1] \cup m[2] : r \in Ranges /\ Roomy(r)
  <2>1. \A r \in MemRange : Roomy(r) => r \in Ranges
    BY SizeAssumption DEF Roomy, Ranges, MemRange
  <2>2. \A r \in m[1] \cup m[2] : r \in MemRange /\ Roomy(r)
    BY InitialAssumption
  <2> QED BY <2>1, <2>2
<1>3. \A x, y \in m[1] \cup m[2] : x = y \/ ~Meet(x, y)
  BY InitialAssumption DEF AllApart, Apart
<1>4. \A x \in m[1], y \in m[2] : ~Meet(x, y)
  BY <1>3, InitialAssumption
<1>5. check_set = {} /\ fLoadNotSafeRangeList = {} /\ fAccessMem = {} /\ failed = "no"
  BY DEF MemInit
<1>6. Disjoint(fRangeListForFetch, fRangeListForLS, check_set)
  BY <1>1, <1>2, <1>3, <1>4, <1>5 DEF Disjoint
<1>7. Unclaimed /\ Valued
  BY <1>5 DEF Unclaimed, Valued
<1>8. AssertionsHold
  BY <1>5 DEF AssertionsHold
<1> QED BY <1>6, <1>7, <1>8 DEF IInv

\* A new claim that meets no other fails no assertion.
LEMMA NoFailure ==
  ASSUME IInv, NEW g \in Ranges, NEW b \in SUBSET Ranges,
         \A c \in check_set : ~Meet(c, g), \A d \in b : Inside(d, g)
  PROVE  Failing(g, b) = failed
<1>1. \A d \in b, e \in fAccessMem : ~Meet(d, e)
  <2> SUFFICES ASSUME NEW d \in b, NEW e \in fAccessMem PROVE ~Meet(d, e)
    OBVIOUS
  <2>1. PICK c \in check_set : Inside(e, c)
    BY DEF IInv, Valued
  <2>2. c \in Ranges /\ d \in Ranges /\ e \in Ranges
    BY <2>1 DEF IInv, Disjoint, Valued
  <2>3. ~Meet(c, g)
    OBVIOUS
  <2>4. ~Meet(e, g) /\ ~Meet(g, e)
    BY <2>1, <2>2, <2>3, InsideMeet
  <2> QED BY <2>2, <2>4, InsideMeet
<1>2. \A d \in fAccessMem, c \in b : ~Meet(c, d)
  BY <1>1
<1> QED BY <1>2 DEF Failing

LEMMA FetchInv ==
  ASSUME IInv, NEW f \in Nat, ClaimFetch(<<f, f + MAX_SUB_ROUTINE_SIZE>>)
  PROVE  IInv'
<1> DEFINE claim == <<f, f + MAX_SUB_ROUTINE_SIZE>>
<1>1. claim \in Ranges
  BY SizeAssumption DEF Ranges, MemRange
<1>2. ClaimFetch(claim)
  OBVIOUS
<1> HIDE DEF claim
<1>3. PICK r \in fRangeListForFetch :
        /\ Fits(r, claim)
        /\ fRangeListForFetch' = Remaining(fRangeListForFetch, r, claim)
        /\ check_set' = check_set \cup {claim}
        /\ failed' = Failing(claim, {})
        /\ UNCHANGED <<fRangeListForLS, fLSFillRangeList,
                       fLoadNotSafeRangeList, fAccessMem>>
  BY <1>2 DEF ClaimFetch
<1>4. Disjoint(fRangeListForFetch, fRangeListForLS, check_set)
  BY DEF IInv
<1>5. /\ Disjoint(fRangeListForFetch', fRangeListForLS, check_set')
      /\ \A c \in check_set : ~Meet(c, claim)
  BY <1>1, <1>3, <1>4, Claiming
<1>6. AssertionsHold'
  <2>1. Failing(claim, {}) = failed
    BY <1>1, <1>5, NoFailure
  <2> QED BY <1>3, <2>1 DEF IInv, AssertionsHold
<1>7. r \in Ranges /\ Inside(claim, r)
  BY <1>1, <1>3, <1>4, FitsInside DEF Disjoint
<1>8. \A s \in fLoadNotSafeRangeList : ~Meet(s, claim)
  <2> TAKE s \in fLoadNotSafeRangeList
  <2>1. s \in Ranges /\ ~Meet(s, r)
    BY DEF IInv, Unclaimed
  <2>2. ~Meet(r, s)
    BY <2>1 DEF Meet
  <2> QED BY <1>1, <1>7, <2>1, <2>2, InsideMeet
<1>9. \A s \in fLoadNotSafeRangeList, x \in fRangeListForFetch' : ~Meet(s, x)
  <2> SUFFICES ASSUME NEW s \in fLoadNotSafeRangeList, NEW x \in Leftover(r, claim)
               PROVE  ~Meet(s, x)
    BY <1>3 DEF Remaining, IInv, Unclaimed
  <2>1. x \in Ranges /\ Inside(x, r)
    BY <1>1, <1>3, <1>7, LeftoverInside
  <2>2. s \in Ranges /\ ~Meet(r, s)
    BY DEF IInv, Unclaimed, Meet
  <2> QED BY <1>7, <2>1, <2>2, InsideMeet
<1>10. Unclaimed'
  BY <1>3, <1>8, <1>9 DEF IInv, Unclaimed
<1>11. Valued'
  BY <1>3 DEF IInv, Valued
<1> QED BY <1>3, <1>5, <1>6, <1>10, <1>11 DEF IInv

LEMMA BufferRanges ==
  ASSUME NEW a \in Nat
  PROVE  /\ Buffer(a) \in Ranges /\ <<a, a + 7>> \in Ranges
         /\ Inside(<<a, a + 7>>, Buffer(a))
BY SizeAssumption DEF Buffer, Ranges, MemRange, Inside

LEMMA LSInv ==
  ASSUME IInv, NEW a \in Nat, NEW isLoad \in BOOLEAN, ClaimLS(a, isLoad)
  PROVE  IInv'
<1> DEFINE claim == Buffer(a)
           bytes == IF isLoad THEN {<<a, a + 7>>} ELSE {}
<1>1. claim \in Ranges /\ bytes \in SUBSET Ranges /\ \A d \in bytes : Inside(d, claim)
  BY BufferRanges
<1>2. PICK r \in fRangeListForLS :
        /\ Fits(r, claim)
        /\ fRangeListForLS' = Remaining(fRangeListForLS, r, claim)
        /\ check_set' = check_set \cup {claim}
        /\ fLSFillRangeList' = fLSFillRangeList \cup {claim}
        /\ fAccessMem' = fAccessMem \cup bytes
        /\ failed' = Failing(claim, bytes)
        /\ UNCHANGED <<fRangeListForFetch, fLoadNotSafeRangeList>>
  BY DEF ClaimLS
<1> HIDE DEF claim, bytes
<1>3. Disjoint(fRangeListForLS, fRangeListForFetch, check_set)
  BY DisjointSymmetric DEF IInv
<1>4. /\ Disjoint(fRangeListForLS', fRangeListForFetch, check_set')
      /\ \A c \in check_set : ~Meet(c, claim)
  BY <1>1, <1>2, <1>3, Claiming
<1>5. Disjoint(fRangeListForFetch, fRangeListForLS', check_set')
  BY <1>4, DisjointSymmetric
<1>6. Failing(claim, bytes) = failed
  BY <1>1, <1>4, NoFailure
<1>7. AssertionsHold'
  BY <1>2, <1>6 DEF IInv, AssertionsHold
<1>8. Unclaimed'
  BY <1>2 DEF IInv, Unclaimed
<1>9. Valued'
  BY <1>1, <1>2 DEF IInv, Valued
<1> QED BY <1>2, <1>5, <1>7, <1>8, <1>9 DEF IInv

LEMMA ShareInv ==
  ASSUME IInv, NEW a \in Nat, AddLoadMultiUseRange(a)
  PROVE  IInv'
<1>1. PICK r \in fRangeListForLS : Fits(r, Buffer(a))
  BY DEF AddLoadMultiUseRange
<1>2. /\ fLoadNotSafeRangeList' = fLoadNotSafeRangeList \cup {Buffer(a)}
      /\ UNCHANGED <<fRangeListForFetch, fRangeListForLS, check_set,
                     fLSFillRangeList, fAccessMem, failed>>
  BY DEF AddLoadMultiUseRange
<1>3. Buffer(a) \in Ranges
  BY BufferRanges
<1>4. r \in Ranges /\ Inside(Buffer(a), r)
  BY <1>1, <1>3, FitsInside DEF IInv, Disjoint
<1>5. \A x \in fRangeListForFetch \cup check_set : x \in Ranges /\ ~Meet(r, x)
  BY DEF IInv, Disjoint, Meet
<1>6. \A x \in fRangeListForFetch \cup check_set : ~Meet(Buffer(a), x)
  BY <1>3, <1>4, <1>5, InsideMeet
<1>7. Unclaimed'
  BY <1>2, <1>3, <1>6 DEF IInv, Unclaimed
<1> QED BY <1>2, <1>7 DEF IInv, Valued, AssertionsHold

LEMMA NextInv == IInv /\ [MemNext]_memVars => IInv'
<1> SUFFICES ASSUME IInv, [MemNext]_memVars PROVE IInv'
  OBVIOUS
<1>1. CASE \E f \in Nat : ClaimFetch(<<f, f + MAX_SUB_ROUTINE_SIZE>>)
  BY <1>1, FetchInv
<1>2. CASE \E a \in Nat, isLoad \in BOOLEAN : ClaimLS(a, isLoad)
  BY <1>2, LSInv
<1>3. CASE \E a \in Nat : AddLoadMultiUseRange(a)
  BY <1>3, ShareInv
<1>4. CASE UNCHANGED memVars
  BY <1>4 DEF memVars, IInv, Unclaimed, Valued, AssertionsHold
<1> QED BY <1>1, <1>2, <1>3, <1>4 DEF MemNext

LEMMA InvMemory == IInv => MemoryOK
<1> SUFFICES ASSUME IInv PROVE MemoryOK
  OBVIOUS
<1>1. Disjoint(fRangeListForFetch, fRangeListForLS, check_set)
  BY DEF IInv
<1>2. fRangeListForFetch \cap fRangeListForLS = {}
  BY <1>1, MeetItself DEF Disjoint
<1>3. FreeIsUnclaimed
  BY <1>1, <1>2 DEF Disjoint, FreeIsUnclaimed, Free, AllApart, Apart
<1>4. FreeIsRoomy
  BY <1>1 DEF Disjoint, FreeIsRoomy, Free
<1>5. ClaimsApart
  BY <1>1 DEF Disjoint, ClaimsApart, AllApart, Apart, IInv, Unclaimed
<1> QED BY <1>3, <1>4, <1>5 DEF IInv, MemoryOK

\* Whatever the clients of the allocator ask for, its assertions hold, free
\* memory and claims are apart, every free range has room for a routine and no
\* claim meets another (RemoveUpdateRange, SetMem, GetGenRange).
THEOREM AllocatorSafe == MemSpec => []MemoryOK
<1>1. MemInit => IInv
  BY InitInv
<1>2. IInv /\ [MemNext]_memVars => IInv'
  BY NextInv
<1>3. IInv => MemoryOK
  BY InvMemory
<1> QED BY <1>1, <1>2, <1>3, PTL DEF MemSpec

\* No byte is claimed twice, and a load that claims nothing reads no code.
THEOREM AllocatorClaimsApart == MemSpec => []ClaimsApart
<1>1. MemoryOK => ClaimsApart
  BY DEF MemoryOK
<1> QED BY <1>1, AllocatorSafe, PTL

\* The ranges RemoveUpdateRange keeps were never claimed.
THEOREM AllocatorFreeIsUnclaimed == MemSpec => []FreeIsUnclaimed
<1>1. MemoryOK => FreeIsUnclaimed
  BY DEF MemoryOK
<1> QED BY <1>1, AllocatorSafe, PTL

\* GetGenRange always has an address to choose in a free range.
THEOREM AllocatorFreeIsRoomy == MemSpec => []FreeIsRoomy
<1>1. MemoryOK => FreeIsRoomy
  BY DEF MemoryOK
<1> QED BY <1>1, AllocatorSafe, PTL
-----------------------------------------------------------------------------
(***************************************************************************)
(* Part 2: the engines.                                                    *)
(***************************************************************************)
(***************************************************************************)
(* Least and greatest elements.                                            *)
(***************************************************************************)
LEMMA LeastNumber ==
  ASSUME NEW S, S \subseteq Nat, S # {}
  PROVE  Min(S) \in S /\ \A j \in S : Min(S) <= j
<1> DEFINE R == {ss \in Nat \X Nat : ss[1] < ss[2]}
<1>1. IsWellFoundedOn(R, Nat)
  BY NatLessThanWellFounded DEF OpToRel
<1>2. \E i \in S : \A j \in S : <<j, i>> \notin R
  <2> HIDE DEF R
  <2> QED BY <1>1, WFMin
<1>3. ASSUME NEW i \in S, NEW j \in S, <<j, i>> \notin R PROVE i <= j
  BY <1>3
<1>4. \E i \in S : \A j \in S : i <= j
  BY <1>2, <1>3
<1> QED BY <1>4 DEF Min

\* A set of positions of a list has a least one.
LEMMA LeastPosition ==
  ASSUME NEW n \in Nat, NEW I \in SUBSET (1..n), I # {}
  PROVE  Min(I) \in I /\ Min(I) \in 1..n /\ Min(I) # 0 /\ \A j \in I : Min(I) <= j
<1>1. I \subseteq Nat
  OBVIOUS
<1>2. Min(I) \in I /\ \A j \in I : Min(I) <= j
  BY <1>1, LeastNumber
<1>3. \A x \in I : x \in 1..n /\ x # 0
  OBVIOUS
<1> QED BY <1>2, <1>3

\* In a finite set that R orders strictly, some element comes before no other.
LEMMA LastElement ==
  ASSUME NEW T, IsFiniteSet(T), T # {}, NEW R,
         \A x \in T : <<x, x>> \notin R,
         \A x, y, z \in T : <<x, y>> \in R /\ <<y, z>> \in R => <<x, z>> \in R
  PROVE  \E x \in T : \A y \in T : <<x, y>> \notin R
<1> DEFINE After(x) == {y \in T : <<x, y>> \in R}
           Sizes == {Cardinality(After(x)) : x \in T}
<1>1. \A x \in T : IsFiniteSet(After(x)) /\ Cardinality(After(x)) \in Nat
  BY FS_Subset, FS_CardinalityType
<1>2. Sizes \subseteq Nat /\ Sizes # {}
  <2> HIDE DEF After
  <2> QED BY <1>1
<1>3. PICK x \in T : Cardinality(After(x)) = Min(Sizes)
  <2>1. Min(Sizes) \in Sizes
    BY <1>2, LeastNumber
  <2> QED BY <2>1
<1>4. \A y \in T : Cardinality(After(x)) <= Cardinality(After(y))
  <2>1. \A n \in Sizes : Min(Sizes) <= n
    BY <1>2, LeastNumber
  <2>2. ASSUME NEW y \in T PROVE Cardinality(After(y)) \in Sizes
    BY ZenonT(60)
  <2> HIDE DEF After, Sizes
  <2> QED BY <1>3, <2>1, <2>2
<1>5. ASSUME NEW y \in T, <<x, y>> \in R PROVE FALSE
  <2>1. After(y) \subseteq After(x) /\ y \in After(x) /\ y \notin After(y)
    BY <1>5
  <2>2. /\ Cardinality(After(y)) <= Cardinality(After(x))
        /\ Cardinality(After(x)) = Cardinality(After(y)) => After(x) = After(y)
    BY <1>1, <2>1, FS_Subset
  <2>3. Cardinality(After(x)) <= Cardinality(After(y))
    BY <1>4
  <2>4. Cardinality(After(x)) \in Nat /\ Cardinality(After(y)) \in Nat
    BY <1>1
  <2> HIDE DEF After
  <2> QED BY <2>1, <2>2, <2>3, <2>4
<1> QED BY <1>5

\* A finite set of numbers that is not empty has a greatest one.
LEMMA GreatestNumber ==
  ASSUME NEW S, IsFiniteSet(S), S \subseteq Int, S # {}
  PROVE  Max(S) \in S /\ \A j \in S : Max(S) >= j
<1> DEFINE R == {ss \in S \X S : ss[1] < ss[2]}
<1>1. \E i \in S : \A j \in S : <<i, j>> \notin R
  <2>1. \A x \in S : <<x, x>> \notin R
    OBVIOUS
  <2>2. \A x, y, z \in S : <<x, y>> \in R /\ <<y, z>> \in R => <<x, z>> \in R
    OBVIOUS
  <2> HIDE DEF R
  <2> QED BY <2>1, <2>2, LastElement
<1>2. ASSUME NEW i \in S, NEW j \in S, <<i, j>> \notin R PROVE i >= j
  BY <1>2
<1>3. \E i \in S : \A j \in S : i >= j
  BY <1>1, <1>2
<1> QED BY <1>3 DEF Max

\* The lesser and the greater of two numbers.
LEMMA PairOrder ==
  ASSUME NEW a \in Nat, NEW b \in Nat
  PROVE  \/ Min({a, b}) = a /\ Max({a, b}) = b
         \/ Min({a, b}) = b /\ Max({a, b}) = a
<1> DEFINE S == {a, b}
<1>1. S \subseteq Nat /\ S # {} /\ S \subseteq Int
  OBVIOUS
<1>2. IsFiniteSet(S)
  <2>1. IsFiniteSet({a}) /\ IsFiniteSet({b})
    BY FS_Singleton
  <2>2. IsFiniteSet({a} \cup {b})
    BY <2>1, FS_Union
  <2>3. {a} \cup {b} = S
    OBVIOUS
  <2> QED BY <2>2, <2>3
<1>3. a \in S /\ b \in S /\ \A j \in S : j = a \/ j = b
  OBVIOUS
<1> HIDE DEF S
<1>4. Min(S) \in S /\ (\A j \in S : Min(S) <= j)
  BY <1>1, LeastNumber
<1>5. Max(S) \in S /\ (\A j \in S : Max(S) >= j)
  BY <1>1, <1>2, GreatestNumber
<1>6. \/ Min(S) = a /\ Max(S) = b
      \/ Min(S) = b /\ Max(S) = a
  <2>1. PICK lo : lo = Min(S)
    OBVIOUS
  <2>2. PICK hi : hi = Max(S)
    OBVIOUS
  <2>3. (lo = a \/ lo = b) /\ lo <= a /\ lo <= b
    BY <1>3, <1>4, <2>1
  <2>4. (hi = a \/ hi = b) /\ hi >= a /\ hi >= b
    BY <1>3, <1>5, <2>2
  <2>5. (lo = a /\ hi = b) \/ (lo = b /\ hi = a)
    BY <2>3, <2>4
  <2> QED BY <2>1, <2>2, <2>5
<1> QED BY <1>6 DEF S
-----------------------------------------------------------------------------
(***************************************************************************)
(* A sort leaves a sequence of what it sorts, each element once.           *)
(***************************************************************************)
LEMMA Sorting ==
  ASSUME NEW key, IsFiniteSet(DOMAIN key), \A r \in DOMAIN key : key[r] \in Int,
         NEW q \in SortedBy(key)
  PROVE  /\ q \in Seq(DOMAIN key) /\ Len(q) = Cardinality(DOMAIN key)
         /\ \A i, j \in 1..Len(q) : q[i] = q[j] => i = j
<1> DEFINE S == DOMAIN key
           n == Cardinality(S)
           tied == {r \in S : \E s \in S : s # r /\ key[s] = key[r]}
<1>1. n \in Nat
  BY FS_CardinalityType
<1>2. IsFiniteSet(tied) /\ Cardinality(tied) \in Nat
  BY FS_Subset, FS_CardinalityType
<1> DEFINE Precede(r, t) ==
             {s \in S : \/ key[s] < key[r]
                        \/ key[s] = key[r] /\ s # r /\ t[s] < t[r]}
           Ranked(t) == {<<Cardinality(Precede(r, t)) + 1, r>> : r \in S}
<1>3. PICK t \in [tied -> 1..Cardinality(tied)] :
        /\ IsInjective(t)
        /\ q = [i \in 1..n |-> (CHOOSE p \in Ranked(t) : p[1] = i)[2]]
  <2>1. q \in {[i \in 1..n |-> (CHOOSE p \in ranked : p[1] = i)[2]] :
                 ranked \in {Ranked(t) : t \in {u \in [tied -> 1..Cardinality(tied)] :
                                                IsInjective(u)}}}
    BY Zenon DEF SortedBy
  <2> HIDE DEF Ranked, n, tied
  <2> QED BY <2>1
<1> DEFINE Before(r) == Precede(r, t)
           rank == [r \in S |-> Cardinality(Before(r)) + 1]
<1>4. \A r \in tied : t[r] \in Nat
  BY <1>2
<1>5. \A r \in S : /\ Before(r) \subseteq S \ {r}
                   /\ IsFiniteSet(Before(r)) /\ Cardinality(Before(r)) \in Nat
                   /\ rank[r] \in 1..n
  <2> TAKE r \in S
  <2>1. Before(r) \subseteq S \ {r}
    OBVIOUS
  <2>2. IsFiniteSet(S \ {r}) /\ Cardinality(S \ {r}) = n - 1
    BY FS_RemoveElement
  <2>3. IsFiniteSet(Before(r)) /\ Cardinality(Before(r)) <= n - 1
    BY <2>1, <2>2, FS_Subset
  <2>4. Cardinality(Before(r)) \in Nat
    BY <2>3, FS_CardinalityType
  <2> QED BY <1>1, <2>1, <2>3, <2>4
<1>6. \A r, s \in S : r # s => s \in Before(r) \/ r \in Before(s)
  <2> TAKE r, s \in S
  <2>1. CASE r # s /\ key[r] = key[s]
    <3>1. r \in tied /\ s \in tied
      BY <2>1
    <3>2. t[r] # t[s]
      BY <1>3, <2>1, <3>1 DEF IsInjective
    <3>3. t[r] < t[s] \/ t[s] < t[r]
      BY <1>4, <3>1, <3>2
    <3> QED BY <2>1, <3>3
  <2>2. CASE key[r] # key[s]
    <3>1. key[r] < key[s] \/ key[s] < key[r]
      BY <2>2
    <3> QED BY <3>1
  <2> QED BY <2>1, <2>2
<1>7. \A r, s \in S : s \in Before(r) => rank[s] < rank[r]
  <2> SUFFICES ASSUME NEW r \in S, NEW s \in S, s \in Before(r)
               PROVE  rank[s] < rank[r]
    OBVIOUS
  <2>1. \A u \in Before(s) : u \in Before(r)
    <3> SUFFICES ASSUME NEW u \in Before(s) PROVE u \in Before(r)
      OBVIOUS
    <3>1. u \in S /\ key[u] \in Int /\ key[s] \in Int /\ key[r] \in Int
      OBVIOUS
    <3>2. CASE key[u] < key[r]
      BY <3>1, <3>2
    <3>3. CASE key[u] = key[r]
      <4>1. /\ key[u] = key[s] /\ key[s] = key[r]
            /\ u # s /\ s # r /\ t[u] < t[s] /\ t[s] < t[r]
        BY <3>1, <3>3
      <4>2. u \in tied /\ s \in tied /\ r \in tied
        BY <4>1
      <4>3. t[u] < t[r] /\ u # r
        BY <1>4, <4>1, <4>2
      <4> QED BY <3>1, <3>3, <4>3
    <3>4. key[u] <= key[s] /\ key[s] <= key[r]
      BY <3>1
    <3> QED BY <3>1, <3>2, <3>3, <3>4
  <2>2. s \notin Before(s)
    OBVIOUS
  <2>3. /\ Cardinality(Before(s)) <= Cardinality(Before(r))
        /\ Cardinality(Before(r)) = Cardinality(Before(s)) => Before(r) = Before(s)
    BY <1>5, <2>1, FS_Subset
  <2>4. /\ Cardinality(Before(s)) \in Nat /\ Cardinality(Before(r)) \in Nat
        /\ rank[s] = Cardinality(Before(s)) + 1
        /\ rank[r] = Cardinality(Before(r)) + 1
    BY <1>5
  <2>5. Before(r) # Before(s)
    BY <2>2
  <2> HIDE DEF Before, rank
  <2> QED BY <2>3, <2>4, <2>5
<1>8. \A r, s \in S : r # s => rank[r] # rank[s]
  <2> HIDE DEF rank, Before
  <2>1. \A r \in S : rank[r] \in Int
    BY <1>5, <1>1
  <2> QED BY <1>6, <1>7, <2>1
<1>9. rank \in Surjection(S, 1..n)
  <2>1. rank \in Injection(S, 1..n)
    BY <1>5, <1>8 DEF Injection, IsInjective
  <2>2. IsFiniteSet(1..n) /\ Cardinality(1..n) = n
    BY <1>1, FS_Interval
  <2> QED BY <2>1, <2>2, FS_Injection
<1>10. \A i \in 1..n : q[i] \in S /\ rank[q[i]] = i
  <2> TAKE i \in 1..n
  <2> DEFINE P == Ranked(t)
  <2>1. PICK r \in S : rank[r] = i
    BY <1>9 DEF Surjection
  <2>2. <<Cardinality(Before(r)) + 1, r>> \in P /\ Cardinality(Before(r)) + 1 = i
    BY <2>1
  <2>3. \E p \in P : p[1] = i
    BY <2>2
  <2> DEFINE p == CHOOSE x \in P : x[1] = i
  <2>4. p \in P /\ p[1] = i
    BY <2>3
  <2>5. q[i] = p[2]
    BY <1>3
  <2> HIDE DEF p
  <2>6. PICK s \in S : p = <<Cardinality(Before(s)) + 1, s>>
    BY <2>4
  <2> QED BY <2>4, <2>5, <2>6
<1>11. q \in [1..n -> S]
  <2>1. DOMAIN q = 1..n /\ q = [i \in 1..n |-> q[i]]
    BY <1>3
  <2> QED BY <1>10, <2>1
<1>12. q \in Seq(S) /\ Len(q) = n
  <2> HIDE DEF n
  <2> QED BY <1>1, <1>11
<1>13. \A i, j \in 1..n : q[i] = q[j] => i = j
  <2> HIDE DEF rank
  <2> QED BY <1>10
<1> QED BY <1>12, <1>13
-----------------------------------------------------------------------------
(***************************************************************************)
(* Lists of free ranges that do not meet.                                  *)
(***************************************************************************)
Slot == {r \in Ranges : Roomy(r)}
Spread(q) == \A i, j \in 1..Len(q) : i # j => ~Meet(q[i], q[j])

\* The elements of a list.
LEMMA Elements ==
  ASSUME NEW S, NEW q \in Seq(S)
  PROVE  /\ Len(q) \in Nat /\ DOMAIN q = 1..Len(q)
         /\ \A i \in 1..Len(q) : q[i] \in S /\ q[i] \in ToSet(q)
         /\ \A x \in ToSet(q) : x \in S /\ \E i \in 1..Len(q) : x = q[i]
<1>1. Len(q) \in Nat /\ DOMAIN q = 1..Len(q) /\ \A i \in 1..Len(q) : q[i] \in S
  BY LenProperties, ElementOfSeq
<1> QED BY <1>1 DEF ToSet

\* A list without one of its elements.
LEMMA RemoveAtProperties ==
  ASSUME NEW S, NEW q \in Seq(S), NEW i \in 1..Len(q)
  PROVE  /\ RemoveAt(q, i) \in Seq(S) /\ Len(RemoveAt(q, i)) = Len(q) - 1
         /\ \A j \in 1..(Len(q) - 1) :
              RemoveAt(q, i)[j] = q[IF j < i THEN j ELSE j + 1]
<1> DEFINE a == SubSeq(q, 1, i - 1)
           b == SubSeq(q, i + 1, Len(q))
<1>1. Len(q) \in Nat /\ i \in Int /\ \A j \in 1..Len(q) : q[j] \in S
  BY Elements
<1>2. /\ a \in Seq(S) /\ Len(a) = i - 1
      /\ \A j \in 1..(i - 1) : a[j] = q[j]
  <2>1. \A j \in 1..(i - 1) : q[j] \in S BY <1>1
  <2>2. /\ a \in Seq(S)
        /\ Len(a) = IF 1 <= i - 1 THEN (i - 1) - 1 + 1 ELSE 0
        /\ \A j \in 1..((i - 1) - 1 + 1) : a[j] = q[1 + j - 1]
    BY <1>1, <2>1, SubSeqProperties
  <2> QED BY <1>1, <2>2
<1>3. /\ b \in Seq(S) /\ Len(b) = Len(q) - i
      /\ \A j \in 1..(Len(q) - i) : b[j] = q[i + j]
  <2>1. \A j \in (i + 1)..Len(q) : q[j] \in S BY <1>1
  <2>2. /\ b \in Seq(S)
        /\ Len(b) = IF i + 1 <= Len(q) THEN Len(q) - (i + 1) + 1 ELSE 0
        /\ \A j \in 1..(Len(q) - (i + 1) + 1) : b[j] = q[(i + 1) + j - 1]
    BY <1>1, <2>1, SubSeqProperties
  <2> QED BY <1>1, <2>2
<1>4. RemoveAt(q, i) = a \o b
  BY DEF RemoveAt
<1> HIDE DEF a, b
<1>5. /\ a \o b \in Seq(S) /\ Len(a \o b) = Len(q) - 1
      /\ \A j \in 1..(Len(q) - 1) :
           (a \o b)[j] = IF j <= i - 1 THEN a[j] ELSE b[j - (i - 1)]
  <2>1. /\ a \o b \in Seq(S) /\ Len(a \o b) = Len(a) + Len(b)
        /\ \A j \in 1..(Len(a) + Len(b)) :
             (a \o b)[j] = IF j <= Len(a) THEN a[j] ELSE b[j - Len(a)]
    BY <1>2, <1>3, ConcatProperties
  <2>2. Len(a) + Len(b) = Len(q) - 1
    BY <1>1, <1>2, <1>3
  <2> QED BY <1>2, <2>1, <2>2
<1>6. ASSUME NEW j \in 1..(Len(q) - 1)
      PROVE  (a \o b)[j] = q[IF j < i THEN j ELSE j + 1]
  <2>1. CASE j < i BY <1>1, <1>2, <1>5, <2>1
  <2>2. CASE ~(j < i)
    <3>1. j - (i - 1) \in 1..(Len(q) - i) /\ i + (j - (i - 1)) = j + 1
      BY <1>1, <2>2
    <3>2. b[j - (i - 1)] = q[i + (j - (i - 1))] BY <1>3, <3>1
    <3> QED BY <1>1, <1>5, <2>2, <3>1, <3>2
  <2> QED BY <2>1, <2>2
<1> QED BY <1>4, <1>5, <1>6

\* A range taken off a list of ranges meets none of those that stay.
LEMMA Removing ==
  ASSUME NEW q \in Seq(Slot), Spread(q), NEW i \in 1..Len(q)
  PROVE  /\ RemoveAt(q, i) \in Seq(Slot) /\ Spread(RemoveAt(q, i))
         /\ ToSet(RemoveAt(q, i)) \subseteq ToSet(q)
         /\ q[i] \in Slot /\ q[i] \in ToSet(q)
         /\ \A x \in ToSet(RemoveAt(q, i)) : ~Meet(x, q[i]) /\ ~Meet(q[i], x)
<1> DEFINE r == RemoveAt(q, i)
           Old(j) == IF j < i THEN j ELSE j + 1
<1>1. /\ r \in Seq(Slot) /\ Len(r) = Len(q) - 1 /\ Len(q) \in Nat
      /\ \A j \in 1..(Len(q) - 1) : r[j] = q[Old(j)]
  <2>1. Len(q) \in Nat
    BY Elements
  <2> QED BY <2>1, RemoveAtProperties
<1>2. \A j \in 1..(Len(q) - 1) : Old(j) \in 1..Len(q) /\ Old(j) # i
  BY <1>1
<1>3. \A j, l \in 1..(Len(q) - 1) : j # l => Old(j) # Old(l)
  BY <1>1
<1>4. q[i] \in Slot /\ q[i] \in ToSet(q)
  BY Elements
<1> HIDE DEF r, Old
<1>5. \A x \in ToSet(r) : \E j \in 1..(Len(q) - 1) : x = q[Old(j)]
  <2>1. \A x \in ToSet(r) : \E j \in 1..Len(r) : x = r[j]
    BY <1>1, Elements
  <2> QED BY <1>1, <2>1
<1>6. ToSet(r) \subseteq ToSet(q)
  BY <1>2, <1>5, Elements
<1>7. Spread(r)
  BY <1>1, <1>2, <1>3 DEF Spread
<1>8. \A x \in ToSet(r) : ~Meet(x, q[i]) /\ ~Meet(q[i], x)
  BY <1>2, <1>5 DEF Spread
<1> QED BY <1>1, <1>4, <1>6, <1>7, <1>8 DEF r

\* Two lists of ranges that do not meet may be joined.
LEMMA Joining ==
  ASSUME NEW p \in Seq(Slot), NEW q \in Seq(Slot), Spread(p), Spread(q),
         \A x \in ToSet(p), y \in ToSet(q) : ~Meet(x, y)
  PROVE  /\ p \o q \in Seq(Slot) /\ Spread(p \o q)
         /\ ToSet(p \o q) = ToSet(p) \cup ToSet(q)
<1> DEFINE j == p \o q
<1>1. /\ j \in Seq(Slot) /\ Len(j) = Len(p) + Len(q)
      /\ Len(p) \in Nat /\ Len(q) \in Nat
      /\ \A i \in 1..(Len(p) + Len(q)) :
           j[i] = IF i <= Len(p) THEN p[i] ELSE q[i - Len(p)]
  BY ConcatProperties, Elements
<1> HIDE DEF j
<1>2. \A i \in 1..Len(j) :
        \/ i \in 1..Len(p) /\ j[i] = p[i]
        \/ i - Len(p) \in 1..Len(q) /\ j[i] = q[i - Len(p)]
  BY <1>1
<1>3. Spread(j)
  <2> SUFFICES ASSUME NEW i \in 1..Len(j), NEW l \in 1..Len(j), i # l
               PROVE  ~Meet(j[i], j[l])
    BY DEF Spread
  <2>1. \A x \in ToSet(p), y \in ToSet(q) : ~Meet(y, x)
    BY DEF Meet
  <2>2. \A m \in 1..Len(p) : p[m] \in ToSet(p)
    BY Elements
  <2>3. \A m \in 1..Len(q) : q[m] \in ToSet(q)
    BY Elements
  <2>4. CASE i \in 1..Len(p) /\ j[i] = p[i]
    <3>1. CASE l \in 1..Len(p) /\ j[l] = p[l]
      BY <2>4, <3>1 DEF Spread
    <3>2. CASE l - Len(p) \in 1..Len(q) /\ j[l] = q[l - Len(p)]
      BY <2>2, <2>3, <2>4, <3>2
    <3> QED BY <1>2, <3>1, <3>2
  <2>5. CASE i - Len(p) \in 1..Len(q) /\ j[i] = q[i - Len(p)]
    <3>1. CASE l \in 1..Len(p) /\ j[l] = p[l]
      BY <2>1, <2>2, <2>3, <2>5, <3>1
    <3>2. CASE l - Len(p) \in 1..Len(q) /\ j[l] = q[l - Len(p)]
      <4>1. i - Len(p) # l - Len(p)
        BY <1>1
      <4> QED BY <2>5, <3>2, <4>1 DEF Spread
    <3> QED BY <1>2, <3>1, <3>2
  <2> QED BY <1>2, <2>4, <2>5
<1>4. ToSet(j) = ToSet(p) \cup ToSet(q)
  <2>1. ToSet(j) \subseteq ToSet(p) \cup ToSet(q)
    BY <1>1, <1>2, Elements
  <2>2. \A i \in 1..Len(p) : i \in 1..Len(j) /\ j[i] = p[i]
    BY <1>1
  <2>3. ASSUME NEW i \in 1..Len(q)
        PROVE  Len(p) + i \in 1..Len(j) /\ j[Len(p) + i] = q[i]
    <3>1. /\ Len(p) + i \in 1..(Len(p) + Len(q)) /\ ~(Len(p) + i <= Len(p))
          /\ (Len(p) + i) - Len(p) = i
      BY <1>1
    <3> QED BY <1>1, <3>1
  <2>4. \A i \in 1..Len(j) : j[i] \in ToSet(j)
    BY <1>1, Elements
  <2>5. ToSet(p) \subseteq ToSet(j)
    <3>1. \A x \in ToSet(p) : \E i \in 1..Len(p) : x = p[i]
      BY Elements
    <3> QED BY <2>2, <2>4, <3>1
  <2>6. ToSet(q) \subseteq ToSet(j)
    <3>1. \A x \in ToSet(q) : \E i \in 1..Len(q) : x = q[i]
      BY Elements
    <3> QED BY <2>3, <2>4, <3>1
  <2> QED BY <2>1, <2>5, <2>6
<1> QED BY <1>1, <1>3, <1>4 DEF j

\* The free memory of the engines, for code and for data.
Pool(fetch, ls) ==
  /\ fetch \in Seq(Slot) /\ Spread(fetch)
  /\ ls \in Seq(Slot) /\ Spread(ls)
  /\ \A x \in ToSet(fetch), y \in ToSet(ls) : ~Meet(x, y)

\* Sorting keeps the ranges of a list apart.
LEMMA SortedSpread ==
  ASSUME NEW S \in SUBSET Slot, IsFiniteSet(S), \A x, y \in S : x = y \/ ~Meet(x, y),
         NEW q \in SortedBy(CompareRangeAddr(S)) \cup SortedBy(CompareRangeSize(S))
  PROVE  q \in Seq(Slot) /\ Spread(q) /\ ToSet(q) \subseteq S
<1>1. PICK key \in {CompareRangeAddr(S), CompareRangeSize(S)} : q \in SortedBy(key)
  OBVIOUS
<1>2. DOMAIN key = S /\ \A r \in S : key[r] \in Int
  BY <1>1 DEF CompareRangeAddr, CompareRangeSize, Slot, Ranges, MemRange
<1>3. /\ q \in Seq(S)
      /\ \A i, j \in 1..Len(q) : q[i] = q[j] => i = j
  BY <1>1, <1>2, Sorting
<1>4. /\ Len(q) \in Nat /\ \A i \in 1..Len(q) : q[i] \in S
      /\ ToSet(q) \subseteq S
  BY <1>3, Elements
<1>5. q \in Seq(Slot)
  <2>1. q \in [1..Len(q) -> S]
    BY <1>3, LenProperties
  <2>2. q \in [1..Len(q) -> Slot]
    BY <2>1
  <2> QED BY <1>4, <2>2, IsASeq
<1>6. Spread(q)
  BY <1>3, <1>4 DEF Spread
<1> QED BY <1>4, <1>5, <1>6

\* The ranges that are dealt to the two lists do not meet.
LEMMA PlacesApart ==
  ASSUME NEW all \in Seq(Slot), Spread(all), NEW n \in 0..1
  PROVE  /\ Places(all, n) \in SUBSET Slot /\ IsFiniteSet(Places(all, n))
         /\ Places(all, n) \subseteq ToSet(all)
         /\ \A x, y \in Places(all, n) : x = y \/ ~Meet(x, y)
         /\ \A x \in Places(all, 1), y \in Places(all, 0) : ~Meet(x, y)
<1> DEFINE J == {j \in 1..Len(all) : j % 2 = n}
           f == [i \in J |-> all[i]]
<1>1. Len(all) \in Nat /\ \A i \in 1..Len(all) : all[i] \in Slot /\ all[i] \in ToSet(all)
  BY Elements
<1>2. IsFiniteSet(J)
  <2>1. IsFiniteSet(1..Len(all))
    BY <1>1, FS_Interval
  <2> QED BY <2>1, FS_Subset
<1>3. f \in Surjection(J, Places(all, n))
  BY DEF Places, Surjection
<1>4. IsFiniteSet(Places(all, n))
  BY <1>2, <1>3, FS_Surjection
<1>5. \A x, y \in Places(all, n) : x = y \/ ~Meet(x, y)
  BY DEF Places, Spread
<1>6. \A x \in Places(all, 1), y \in Places(all, 0) : ~Meet(x, y)
  BY DEF Places, Spread
<1>7. Places(all, n) \in SUBSET Slot /\ Places(all, n) \subseteq ToSet(all)
  BY <1>1 DEF Places
<1> QED BY <1>4, <1>5, <1>6, <1>7

\* What the engines get from a new distribution was free before.
LEMMA Sharing ==
  ASSUME NEW all \in Seq(Slot), Spread(all), Redistribute(all)
  PROVE  /\ Pool(fetchList', lsList')
         /\ ToSet(fetchList') \subseteq ToSet(all) /\ ToSet(lsList') \subseteq ToSet(all)
<1>1. \A n \in 0..1 :
         /\ Places(all, n) \in SUBSET Slot /\ IsFiniteSet(Places(all, n))
         /\ Places(all, n) \subseteq ToSet(all)
         /\ \A x, y \in Places(all, n) : x = y \/ ~Meet(x, y)
         /\ \A x \in Places(all, 1), y \in Places(all, 0) : ~Meet(x, y)
  BY PlacesApart
<1>2. /\ fetchList' \in Seq(Slot) /\ Spread(fetchList')
      /\ ToSet(fetchList') \subseteq Places(all, 1)
  <2>1. fetchList' \in SortedBy(CompareRangeAddr(Places(all, 1)))
    BY DEF Redistribute
  <2> QED BY <1>1, <2>1, SortedSpread
<1>3. /\ lsList' \in Seq(Slot) /\ Spread(lsList')
      /\ ToSet(lsList') \subseteq Places(all, 0)
  <2>1. lsList' \in SortedBy(CompareRangeSize(Places(all, 0)))
    BY DEF Redistribute
  <2> QED BY <1>1, <2>1, SortedSpread
<1> QED BY <1>1, <1>2, <1>3 DEF Pool

\* rest is q without what is in one.
Split(q, one, rest) ==
  /\ rest \in Seq(Slot) /\ Spread(rest) /\ ToSet(rest) \subseteq ToSet(q)
  /\ one \subseteq ToSet(q) /\ one \subseteq Slot
  /\ \A a \in one, x \in ToSet(rest) : ~Meet(x, a) /\ ~Meet(a, x)

\* The first range that matches, and the list without it.
LEMMA SplitAtFirst ==
  ASSUME NEW q \in Seq(Slot), Spread(q), NEW I \in SUBSET (1..Len(q))
  PROVE  Split(q, IF I = {} THEN {} ELSE {q[Min(I)]},
                  IF I = {} THEN q ELSE RemoveAt(q, Min(I)))
<1>1. CASE I = {}
  BY <1>1 DEF Split
<1>2. CASE I # {}
  <2>1. Len(q) \in Nat
    BY Elements
  <2>2. Min(I) \in 1..Len(q)
    BY <1>2, <2>1, LeastPosition
  <2> DEFINE m == Min(I)
  <2> HIDE DEF m
  <2>3. Split(q, {q[m]}, RemoveAt(q, m))
    BY <2>2, Removing DEF Split, m
  <2> QED BY <1>2, <2>3 DEF m
<1> QED BY <1>1, <1>2

\* The first range in the memory of the core.
LEMMA SplitInternal ==
  ASSUME NEW q \in Seq(Slot), Spread(q)
  PROVE  Split(q, First(q, Internal), RemoveFirstMatch(q, Internal))
<1> DEFINE I == {i \in 1..Len(q) : Internal(q[i])}
<1>1. I \in SUBSET (1..Len(q)) /\ Len(q) \in Nat
  BY Elements
<1>2. First(q, Internal) = IF I = {} THEN {} ELSE {q[Min(I)]}
  <2>1. I # {} => Min(I) # 0
    <3> HIDE DEF I
    <3> QED BY <1>1, LeastPosition
  <2> QED BY <2>1 DEF First, SelectInSeq
<1>3. RemoveFirstMatch(q, Internal) = IF I = {} THEN q ELSE RemoveAt(q, Min(I))
  BY DEF RemoveFirstMatch, SelectInSeq
<1> QED BY <1>1, <1>2, <1>3, SplitAtFirst

\* The first range outside it.
LEMMA SplitExternal ==
  ASSUME NEW q \in Seq(Slot), Spread(q)
  PROVE  Split(q, First(q, External), RemoveFirstMatch(q, External))
<1> DEFINE I == {i \in 1..Len(q) : External(q[i])}
<1>1. I \in SUBSET (1..Len(q)) /\ Len(q) \in Nat
  BY Elements
<1>2. First(q, External) = IF I = {} THEN {} ELSE {q[Min(I)]}
  <2>1. I # {} => Min(I) # 0
    <3> HIDE DEF I
    <3> QED BY <1>1, LeastPosition
  <2> QED BY <2>1 DEF First, SelectInSeq
<1>3. RemoveFirstMatch(q, External) = IF I = {} THEN q ELSE RemoveAt(q, Min(I))
  BY DEF RemoveFirstMatch, SelectInSeq
<1> QED BY <1>1, <1>2, <1>3, SplitAtFirst

\* The ranges of a transfer do not meet each other, nor what is left.
LEMMA PairApart ==
  ASSUME lsList \in Seq(Slot), Spread(lsList)
  PROVE  /\ Pair.rest \in Seq(Slot) /\ Spread(Pair.rest)
         /\ ToSet(Pair.rest) \subseteq ToSet(lsList)
         /\ Pair.one \subseteq ToSet(lsList) /\ Pair.two \subseteq ToSet(lsList)
         /\ \A a \in Pair.one, b \in Pair.two :
              /\ a \in Slot /\ b \in Slot /\ ~Meet(a, b) /\ ~Meet(b, a)
              /\ \A x \in ToSet(Pair.rest) :
                   ~Meet(x, a) /\ ~Meet(a, x) /\ ~Meet(x, b) /\ ~Meet(b, x)
<1> DEFINE int == First(lsList, Internal)
           q1 == RemoveFirstMatch(lsList, Internal)
           ext == First(q1, External)
           q2 == RemoveFirstMatch(q1, External)
           I == {i \in 1..Len(q2) : External(q2[i]) /\ \A e \in ext : Site(q2[i]) # Site(e)}
           ext2 == IF int = {} /\ ext # {} /\ I # {} THEN {q2[Min(I)]} ELSE {}
           q3 == IF ext2 = {} THEN q2 ELSE RemoveAt(q2, Min(I))
<1>1. Split(lsList, int, q1)
  BY SplitInternal
<1>2. Split(q1, ext, q2)
  BY <1>1, SplitExternal DEF Split
<1>3. q2 \in Seq(Slot) /\ Spread(q2) /\ Len(q2) \in Nat
  BY <1>2, Elements DEF Split
<1> HIDE DEF int, q1, ext, q2
<1>4. I \in SUBSET (1..Len(q2)) /\ (I # {} => Min(I) # 0)
  BY <1>3, LeastPosition
<1>5. Split(q2, ext2, q3)
  <2>1. Split(q2, IF I = {} THEN {} ELSE {q2[Min(I)]},
                  IF I = {} THEN q2 ELSE RemoveAt(q2, Min(I)))
    BY <1>3, <1>4, SplitAtFirst
  <2>2. CASE ext2 = {}
    BY <1>3, <2>2 DEF Split
  <2>3. CASE ext2 # {}
    BY <2>1, <2>3
  <2> QED BY <2>2, <2>3
<1>6. /\ Pair.one = int \cup ext2 /\ Pair.two = ext /\ Pair.rest = q3
      /\ int = {} \/ ext2 = {}
  <2> DEFINE found == First(q2, LAMBDA r : External(r) /\ \A e \in ext : Site(r) # Site(e))
             left == RemoveFirstMatch(q2, LAMBDA r : External(r)
                                           /\ \A e \in ext : Site(r) # Site(e))
             second == IF int = {} /\ ext # {} THEN found ELSE {}
  <2>1. found = IF I = {} THEN {} ELSE {q2[Min(I)]}
    BY <1>4 DEF First, SelectInSeq
  <2>2. left = IF I = {} THEN q2 ELSE RemoveAt(q2, Min(I))
    BY DEF RemoveFirstMatch, SelectInSeq
  <2>3. Pair = [one |-> int \cup second, two |-> ext, internal |-> int # {},
                rest |-> IF second = {} THEN q2 ELSE left]
    BY Zenon DEF Pair, int, q1, ext, q2
  <2>4. second = ext2
    BY <2>1
  <2>5. second # {} => left = RemoveAt(q2, Min(I))
    BY <2>2, <2>4
  <2> HIDE DEF found, left, second
  <2> QED BY <2>3, <2>4, <2>5
<1>7. \A a \in int, b \in ext :
        /\ ~Meet(a, b) /\ ~Meet(b, a)
        /\ \A x \in ToSet(q3) :
             ~Meet(x, a) /\ ~Meet(a, x) /\ ~Meet(x, b) /\ ~Meet(b, x)
  <2>1. ext \subseteq ToSet(q1) /\ ToSet(q3) \subseteq ToSet(q2)
        /\ ToSet(q2) \subseteq ToSet(q1)
    BY <1>2, <1>5 DEF Split
  <2> QED BY <1>1, <1>2, <2>1 DEF Split
<1>8. \A a \in ext2, b \in ext :
        /\ ~Meet(a, b) /\ ~Meet(b, a)
        /\ \A x \in ToSet(q3) :
             ~Meet(x, a) /\ ~Meet(a, x) /\ ~Meet(x, b) /\ ~Meet(b, x)
  <2>1. ext2 \subseteq ToSet(q2) /\ ToSet(q3) \subseteq ToSet(q2)
    BY <1>5 DEF Split
  <2> QED BY <1>2, <1>5, <2>1 DEF Split
<1>9. /\ int \cup ext2 \subseteq ToSet(lsList) /\ ext \subseteq ToSet(lsList)
      /\ ToSet(q3) \subseteq ToSet(lsList)
      /\ int \cup ext2 \subseteq Slot /\ ext \subseteq Slot
      /\ q3 \in Seq(Slot) /\ Spread(q3)
  BY <1>1, <1>2, <1>5 DEF Split
<1> HIDE DEF ext2, q3
<1> QED BY <1>6, <1>7, <1>8, <1>9
-----------------------------------------------------------------------------
(***************************************************************************)
(* What a transfer takes lies in the ranges it was given.                  *)
(***************************************************************************)
Size == {1, 2, 4, 8}
TCB == [src : Nat, dst : Nat, size : Size, max : Nat, from : Slot, to : Slot,
        loc : Nat, link : {"chained", "isr", "last"}, isr : Nat, next : Nat]

SlotFacts(r) == /\ r \in Ranges /\ r[1] \in Nat /\ r[2] \in Nat
                /\ r[1] + MAX_SUB_ROUTINE_SIZE < r[2] /\ Length(r) >= 34

\* A range from a list has room for a routine.
LEMMA Slots == ASSUME NEW r \in Slot PROVE SlotFacts(r)
BY SizeAssumption, DmaAssumption DEF Slot, SlotFacts, Ranges, MemRange, Roomy, Length

LEMMA SlotLength == ASSUME NEW r \in Slot PROVE Length(r) \in Nat /\ Length(r) >= 8
BY Slots DEF SlotFacts, Length

\* Aligning moves an address up by at most eight bytes.
LEMMA AlignedNear ==
  ASSUME NEW a \in Nat, NEW s \in Size
  PROVE  Aligned(a, s) \in Nat /\ a <= Aligned(a, s) /\ Aligned(a, s) <= a + 8
<1>1. CASE s = 1
  BY <1>1 DEF Aligned
<1>2. CASE s = 2
  BY <1>2 DEF Aligned, Down
<1>3. CASE s = 4
  BY <1>3 DEF Aligned, Down
<1>4. CASE s = 8
  BY <1>4 DEF Aligned, Down
<1> QED BY <1>1, <1>2, <1>3, <1>4 DEF Size

\* The bytes of a transfer leave eight bytes of either range.
LEMMA MaxSizeBound ==
  ASSUME NEW r \in Slot, NEW s \in Slot
  PROVE  /\ MaxSize(r, s) \in Nat /\ MaxSize(s, r) = MaxSize(r, s)
         /\ 8 <= MaxSize(r, s)
         /\ MaxSize(r, s) <= Length(r) - 8 /\ MaxSize(r, s) <= Length(s) - 8
<1> DEFINE S == {Length(r) - 8, Length(s) - 8, MAX_ALLOWED_DMA_TRAN_SIZE_INGEN}
<1>1. SlotFacts(r) /\ SlotFacts(s)
  BY Slots
<1>2. S \subseteq Nat /\ S # {}
  BY <1>1, DmaAssumption DEF SlotFacts, Length
<1>3. \A x \in S : 8 <= x
  BY <1>1, DmaAssumption DEF SlotFacts, Length
<1>4. MaxSize(s, r) = Min(S) /\ MaxSize(r, s) = Min(S)
  <2>1. {Length(s) - 8, Length(r) - 8, MAX_ALLOWED_DMA_TRAN_SIZE_INGEN} = S
    OBVIOUS
  <2> QED BY <2>1 DEF MaxSize
<1>5. Min(S) \in S /\ \A x \in S : Min(S) <= x
  BY <1>2, LeastNumber
<1>6. Min(S) <= Length(r) - 8 /\ Min(S) <= Length(s) - 8
  BY <1>5
<1> HIDE DEF S
<1> QED BY <1>2, <1>3, <1>4, <1>5, <1>6

\* A transfer between one and two, with its descriptor in d.
Taken(t, one, two, d) ==
  /\ t \in TCB /\ t.isr = 0 /\ t.link = "last"
  /\ t.from[1] <= t.src /\ t.src + t.max <= t.from[2]
  /\ t.to[1] <= t.dst /\ t.dst + t.max <= t.to[2]
  /\ t.size <= t.max
  /\ {t.from, t.to} \subseteq {one, two}
  /\ \A a \in Data(t) : a \in Ranges /\ (Inside(a, one) \/ Inside(a, two))
  /\ t.loc < MAX_CHAIN_ADDRESS =>
       Descriptor(t) \in Ranges /\ Inside(Descriptor(t), d)

\* The areas of a new transfer lie in the ranges taken for it.
LEMMA NewTCBTaken ==
  ASSUME NEW one \in Slot, NEW two \in Slot, NEW sizes \in SUBSET Size,
         fetchList \in Seq(Slot), NEW low \in 0..Len(fetchList),
         NEW t \in NewTCBs(one, two, sizes, low)
  PROVE  /\ Taken(t, one, two, fetchList[low])
         /\ low = 0 => t.loc = MAX_CHAIN_ADDRESS
<1>1. PICK r \in {<<one, two>>, <<two, one>>}, size \in sizes :
        t = [src |-> Aligned(r[1][1], size), dst |-> Aligned(r[2][1], size),
             size |-> size, max |-> MaxSize(one, two), from |-> r[1], to |-> r[2],
             loc |-> IF low = 0 THEN MAX_CHAIN_ADDRESS
                     ELSE DescriptorAt(fetchList[low]),
             link |-> "last", isr |-> 0, next |-> 0]
  BY DEF NewTCBs
<1>2. /\ r[1] \in Slot /\ r[2] \in Slot /\ size \in Size
      /\ {r[1], r[2]} \subseteq {one, two}
  BY <1>1
<1>3. /\ MaxSize(one, two) \in Nat /\ 8 <= MaxSize(one, two)
      /\ MaxSize(one, two) <= Length(r[1]) - 8 /\ MaxSize(one, two) <= Length(r[2]) - 8
  BY <1>1, MaxSizeBound
<1>4. ASSUME NEW s \in Slot, MaxSize(one, two) <= Length(s) - 8
      PROVE  /\ Aligned(s[1], size) \in Nat /\ s[1] <= Aligned(s[1], size)
             /\ Aligned(s[1], size) + MaxSize(one, two) <= s[2]
  <2>1. SlotFacts(s)
    BY Slots
  <2>2. /\ Aligned(s[1], size) \in Nat /\ s[1] <= Aligned(s[1], size)
        /\ Aligned(s[1], size) <= s[1] + 8
    BY <1>2, <2>1, AlignedNear DEF SlotFacts
  <2> QED BY SMTT(30), <1>3, <1>4, <2>1, <2>2 DEF SlotFacts, Length
<1>5. /\ t.src \in Nat /\ t.from[1] <= t.src /\ t.src + t.max <= t.from[2]
      /\ t.dst \in Nat /\ t.to[1] <= t.dst /\ t.dst + t.max <= t.to[2]
      /\ t.max \in Nat /\ t.size <= t.max
  <2>1. t.size \in Size /\ t.size = size
    BY <1>1, <1>2
  <2>2. t.size <= 8 /\ t.size \in Nat
    BY <2>1 DEF Size
  <2>3. /\ t.src = Aligned(r[1][1], size) /\ t.from = r[1] /\ t.max = MaxSize(one, two)
        /\ t.dst = Aligned(r[2][1], size) /\ t.to = r[2]
    BY <1>1
  <2>4. /\ Aligned(r[1][1], size) \in Nat /\ r[1][1] <= Aligned(r[1][1], size)
        /\ Aligned(r[1][1], size) + MaxSize(one, two) <= r[1][2]
    BY <1>2, <1>3, <1>4
  <2>5. /\ Aligned(r[2][1], size) \in Nat /\ r[2][1] <= Aligned(r[2][1], size)
        /\ Aligned(r[2][1], size) + MaxSize(one, two) <= r[2][2]
    BY <1>2, <1>3, <1>4
  <2>6. t.size <= t.max
    BY <1>3, <2>2, <2>3
  <2> QED BY <1>3, <2>3, <2>4, <2>5, <2>6
<1>6. \A a \in Data(t) : a \in Ranges /\ (Inside(a, one) \/ Inside(a, two))
  <2>1. t.from \in {one, two} /\ t.to \in {one, two}
    BY <1>1
  <2>2. <<t.src, t.src + t.max>> \in Ranges /\ Inside(<<t.src, t.src + t.max>>, t.from)
    BY <1>5 DEF Ranges, MemRange, Inside
  <2>3. <<t.dst, t.dst + t.max>> \in Ranges /\ Inside(<<t.dst, t.dst + t.max>>, t.to)
    BY <1>5 DEF Ranges, MemRange, Inside
  <2> QED BY <2>1, <2>2, <2>3 DEF Data
<1>7. low # 0 => /\ t.loc \in Nat /\ Descriptor(t) \in Ranges
                 /\ Inside(Descriptor(t), fetchList[low])
  <2> SUFFICES ASSUME low # 0
               PROVE  /\ t.loc \in Nat /\ Descriptor(t) \in Ranges
                      /\ Inside(Descriptor(t), fetchList[low])
    OBVIOUS
  <2>1. fetchList[low] \in Slot
    BY Elements
  <2>2. SlotFacts(fetchList[low])
    BY <2>1, Slots
  <2>3. t.loc = (fetchList[low][1] \div 8) * 8 + 8
    BY <1>1 DEF DescriptorAt, Down
  <2>4. fetchList[low][1] <= t.loc /\ t.loc <= fetchList[low][1] + 8 /\ t.loc \in Nat
    BY <2>2, <2>3 DEF SlotFacts
  <2> QED BY SMTT(30), <2>2, <2>4, SizeAssumption, DmaAssumption
          DEF SlotFacts, Descriptor, Ranges, MemRange, Inside
<1>8. low = 0 => t.loc = MAX_CHAIN_ADDRESS
  BY <1>1
<1>9. t \in TCB
  BY <1>1, <1>2, <1>5, <1>7, <1>8, DmaAssumption DEF TCB
<1>10. /\ t.isr = 0 /\ t.link = "last" /\ {t.from, t.to} \subseteq {one, two}
  BY <1>1, <1>2
<1>11. t.loc < MAX_CHAIN_ADDRESS => low # 0
  BY <1>8, DmaAssumption
<1> QED BY <1>5, <1>6, <1>7, <1>8, <1>9, <1>10, <1>11 DEF Taken

\* The interrupt routine of a DMA, at most eight instructions.
ISRArea(a) == <<a, a + 31>>

\* A DMA interrupt routine lies in the range taken for it.
LEMMA ISRTaken ==
  ASSUME NEW r \in Slot
  PROVE  /\ ISRAddress(r) \in Nat \ {0} /\ ISRArea(ISRAddress(r)) \in Ranges
         /\ Inside(ISRArea(ISRAddress(r)), r)
<1>1. SlotFacts(r)
  BY Slots
<1>2. /\ ISRAddress(r) \in Nat \ {0}
      /\ r[1] <= ISRAddress(r) /\ ISRAddress(r) <= r[1] + 2
  BY <1>1 DEF SlotFacts, ISRAddress, Down
<1> QED BY <1>1, <1>2, SizeAssumption, DmaAssumption
        DEF SlotFacts, ISRArea, Ranges, MemRange, Inside
-----------------------------------------------------------------------------
(***************************************************************************)
(* One round of the loop that builds a list.                               *)
(***************************************************************************)
LEMMA FrontProperties ==
  ASSUME NEW q \in Seq(Slot), Spread(q), q # <<>>
  PROVE  /\ Front(q) \in Seq(Slot) /\ Spread(Front(q))
         /\ ToSet(Front(q)) \subseteq ToSet(q)
         /\ Last(q) \in Slot /\ Last(q) \in ToSet(q)
         /\ \A x \in ToSet(Front(q)) : ~Meet(x, Last(q)) /\ ~Meet(Last(q), x)
<1>1. Len(q) \in Nat \ {0}
  BY EmptySeq
<1>2. Front(q) = RemoveAt(q, Len(q))
  <2>1. SubSeq(q, Len(q) + 1, Len(q)) = <<>>
    BY <1>1, SubSeqEmpty
  <2>2. SubSeq(q, 1, Len(q) - 1) \in Seq(Slot)
    <3>1. \A i \in 1..(Len(q) - 1) : q[i] \in Slot
      BY <1>1, Elements
    <3> QED BY <1>1, <3>1, SubSeqProperties
  <2>3. SubSeq(q, 1, Len(q) - 1) \o <<>> = SubSeq(q, 1, Len(q) - 1)
    BY <2>2, ConcatEmptySeq
  <2> QED BY <2>1, <2>3 DEF Front, RemoveAt
<1> QED BY <1>1, <1>2, Removing DEF Last

\* The ranges a new TCB takes: one and two for the data, d for the descriptor
\* and, when the TCB before it gets an interrupt routine, one for that.
AddsTCB(t, one, two, d, k, isr) ==
  /\ one \in ToSet(lsList) /\ two \in ToSet(lsList) /\ d \in ToSet(fetchList)
  /\ Taken(t, one, two, d) /\ t.loc < MAX_CHAIN_ADDRESS
  /\ k \in {"chained", "isr", "last"} /\ (Descr # <<>> => k # "last")
  /\ fDescrList' = [fDescrList EXCEPT ![engine] = Linked(t, k, isr)]
  /\ \A x \in ToSet(fetchList') : ~Meet(d, x)
  /\ \/ isr = 0
     \/ \E r \in ToSet(fetchList) :
          /\ isr = ISRAddress(r) /\ ~Meet(r, d)
          /\ \A x \in ToSet(fetchList') : ~Meet(r, x)
  /\ engine = 0 => \A x \in ToSet(lsList') : ~Meet(one, x) /\ ~Meet(two, x)

\* Meeting is symmetric.
LEMMA MeetSymmetric == ASSUME NEW r, NEW s PROVE Meet(r, s) <=> Meet(s, r)
BY DEF Meet

\* A transfer takes its ranges off the lists and adds itself to a chain.
LEMMA TakenFromPool ==
  ASSUME Pool(fetchList, lsList), engine \in 0..1, fDescrList \in [0..1 -> Seq(TCB)],
         NEW c, c.sizes \in SUBSET Size,
         NEW one \in Pair.one, NEW two \in Pair.two,
         NEW low \in 0..Len(fetchList), NEW code,
         code = IF low = 0 THEN fetchList ELSE RemoveAt(fetchList, low),
         NextTCB(c, Pair, one, two, low, code)
  PROVE  /\ failed' = failed
         /\ Pool(fetchList', lsList')
         /\ ToSet(fetchList') \subseteq ToSet(fetchList)
         /\ ToSet(lsList') \subseteq ToSet(lsList)
         /\ \/ fDescrList' = fDescrList
            \/ \E t, d, k, isr : AddsTCB(t, one, two, d, k, isr)
<1> DEFINE p == Pair
<1>1. /\ fetchList \in Seq(Slot) /\ Spread(fetchList)
      /\ lsList \in Seq(Slot) /\ Spread(lsList)
      /\ \A x \in ToSet(fetchList), y \in ToSet(lsList) : ~Meet(x, y)
  BY DEF Pool
<1>2. /\ p.rest \in Seq(Slot) /\ Spread(p.rest) /\ ToSet(p.rest) \subseteq ToSet(lsList)
      /\ one \in Slot /\ two \in Slot
      /\ one \in ToSet(lsList) /\ two \in ToSet(lsList)
      /\ ~Meet(one, two) /\ ~Meet(two, one)
      /\ \A x \in ToSet(p.rest) :
           ~Meet(x, one) /\ ~Meet(one, x) /\ ~Meet(x, two) /\ ~Meet(two, x)
  BY <1>1, PairApart
<1> HIDE DEF p
<1>3. PICK t \in NewTCBs(one, two, c.sizes, low), message \in BOOLEAN,
           k \in Links(c, code) :
        LET routine == k = "isr" /\ Descr # <<>> /\ t.loc < MAX_CHAIN_ADDRESS IN
        /\ lsList' = IF Reusable(message) THEN p.rest \o <<two, one>> ELSE p.rest
        /\ fetchList' = IF routine THEN Front(code) ELSE code
        /\ fDescrList' =
             [fDescrList EXCEPT ![engine] =
                IF ~Adds(t, k) THEN @
                ELSE Linked(t, k, IF routine THEN ISRAddress(Last(code)) ELSE 0)]
        /\ failed' = IF Min({Length(one), Length(two)}) < 8 THEN "dma_range" ELSE failed
  BY ZenonT(60) DEF NextTCB, p
<1>4. Taken(t, one, two, fetchList[low]) /\ (low = 0 => t.loc = MAX_CHAIN_ADDRESS)
  BY <1>1, <1>2, NewTCBTaken
<1>5. failed' = failed
  <2>1. Length(one) \in Nat /\ Length(one) >= 8 /\ Length(two) \in Nat /\ Length(two) >= 8
    BY <1>2, SlotLength
  <2>2. Min({Length(one), Length(two)}) \in {Length(one), Length(two)}
    <3> DEFINE S == {Length(one), Length(two)}
    <3>1. S \subseteq Nat /\ S # {}
      BY <2>1
    <3> HIDE DEF S
    <3>2. Min(S) \in S
      BY <3>1, LeastNumber
    <3> QED BY <3>2 DEF S
  <2>3. ~(Min({Length(one), Length(two)}) < 8)
    BY <2>1, <2>2
  <2> QED BY <1>3, <2>3
<1>6. /\ lsList' \in Seq(Slot) /\ Spread(lsList') /\ ToSet(lsList') \subseteq ToSet(lsList)
      /\ engine = 0 => lsList' = p.rest
  <2>1. <<two, one>> \in Seq(Slot) /\ Spread(<<two, one>>) /\ ToSet(<<two, one>>) = {one, two}
    <3>1. /\ <<two, one>> \in Seq(Slot) /\ Len(<<two, one>>) = 2
          /\ <<two, one>>[1] = two /\ <<two, one>>[2] = one
      BY <1>2
    <3>2. Spread(<<two, one>>)
      BY <1>2, <3>1 DEF Spread
    <3>3. DOMAIN <<two, one>> = {1, 2}
      OBVIOUS
    <3> QED BY <3>1, <3>2, <3>3 DEF ToSet
  <2>2. /\ p.rest \o <<two, one>> \in Seq(Slot) /\ Spread(p.rest \o <<two, one>>)
        /\ ToSet(p.rest \o <<two, one>>) = ToSet(p.rest) \cup {one, two}
    <3>1. \A x \in ToSet(p.rest), y \in ToSet(<<two, one>>) : ~Meet(x, y)
      BY <1>2, <2>1
    <3> QED BY <1>2, <2>1, <3>1, Joining
  <2>3. CASE Reusable(message)
    <3>1. lsList' = p.rest \o <<two, one>>
      BY <1>3, <2>3 DEF Reusable
    <3>2. ToSet(p.rest) \cup {one, two} \subseteq ToSet(lsList)
      BY <1>2
    <3>3. lsList' \in Seq(Slot) /\ Spread(lsList') /\ ToSet(lsList') \subseteq ToSet(lsList)
      BY <2>2, <3>1, <3>2, Zenon
    <3>4. engine # 0
      BY <2>3 DEF Reusable
    <3> QED BY <3>3, <3>4, Zenon
  <2>4. CASE ~Reusable(message)
    <3>1. lsList' = p.rest
      BY <1>3, <2>4 DEF Reusable
    <3> QED BY <1>2, <3>1
  <2> QED BY <2>3, <2>4
<1>7. /\ code \in Seq(Slot) /\ Spread(code) /\ ToSet(code) \subseteq ToSet(fetchList)
      /\ low # 0 => /\ fetchList[low] \in ToSet(fetchList)
                    /\ \A x \in ToSet(code) : ~Meet(fetchList[low], x) /\ ~Meet(x, fetchList[low])
  <2>1. CASE low = 0
    BY <1>1, <2>1
  <2>2. CASE low # 0
    <3>1. Len(fetchList) \in Nat
      BY <1>1, Elements
    <3>2. low \in 1..Len(fetchList)
      BY <2>2, <3>1
    <3> QED BY <1>1, <2>2, <3>2, Removing
  <2> QED BY <2>1, <2>2
<1>8. k \in {"chained", "isr", "last"} /\ (k = "isr" => code # <<>>)
  BY DEF Links
<1> DEFINE routine == k = "isr" /\ Descr # <<>> /\ t.loc < MAX_CHAIN_ADDRESS
           isr == IF routine THEN ISRAddress(Last(code)) ELSE 0
<1>9. /\ fetchList' \in Seq(Slot) /\ Spread(fetchList') /\ ToSet(fetchList') \subseteq ToSet(code)
      /\ routine => /\ Last(code) \in ToSet(code)
                    /\ \A x \in ToSet(fetchList') : ~Meet(Last(code), x)
  <2>1. CASE routine
    <3>1. fetchList' = Front(code) /\ code # <<>>
      BY <1>3, <1>8, <2>1
    <3> HIDE DEF routine
    <3> QED BY <1>7, <2>1, <3>1, FrontProperties
  <2>2. CASE ~routine
    BY <1>3, <1>7, <2>2
  <2> QED BY <2>1, <2>2
<1>10. Pool(fetchList', lsList')
  BY <1>1, <1>6, <1>7, <1>9 DEF Pool
<1>11. CASE Adds(t, k)
  <2>1. t.loc < MAX_CHAIN_ADDRESS /\ (Descr # <<>> => k # "last")
    BY <1>11 DEF Adds
  <2>2. low # 0
    BY <1>4, <2>1, DmaAssumption
  <2>3. fDescrList' = [fDescrList EXCEPT ![engine] = Linked(t, k, isr)]
    BY <1>3, <1>11
  <2> DEFINE d == fetchList[low]
  <2>4. d \in ToSet(fetchList) /\ \A x \in ToSet(fetchList') : ~Meet(d, x)
    BY <1>7, <1>9, <2>2
  <2>5. \/ isr = 0
        \/ \E r \in ToSet(fetchList) :
             /\ isr = ISRAddress(r) /\ ~Meet(r, d)
             /\ \A x \in ToSet(fetchList') : ~Meet(r, x)
    <3>1. CASE routine
      <4>1. Last(code) \in ToSet(fetchList) /\ ~Meet(Last(code), d)
        BY <1>7, <1>9, <2>2, <3>1
      <4>2. isr = ISRAddress(Last(code))
        BY <3>1
      <4> QED BY <1>9, <3>1, <4>1, <4>2
    <3>2. CASE ~routine
      BY <3>2
    <3> QED BY <3>1, <3>2
  <2>6. engine = 0 => \A x \in ToSet(lsList') : ~Meet(one, x) /\ ~Meet(two, x)
    BY <1>2, <1>6
  <2>7. AddsTCB(t, one, two, d, k, isr)
    <3> HIDE DEF d, isr, routine
    <3>1. Taken(t, one, two, d)
      BY <1>4 DEF d
    <3> QED BY <1>2, <1>8, <2>1, <2>3, <2>4, <2>5, <2>6, <3>1 DEF AddsTCB
  <2> QED BY <1>5, <1>6, <1>7, <1>9, <1>10, <2>7
<1>12. CASE ~Adds(t, k)
  <2>1. fDescrList' = [fDescrList EXCEPT ![engine] = @]
    BY <1>3, <1>12
  <2>2. fDescrList' = fDescrList
    BY <2>1
  <2> QED BY <1>5, <1>6, <1>7, <1>9, <1>10, <2>2
<1> QED BY <1>11, <1>12

\* A step of AllocateTCB adds a transfer or gives up ranges.
LEMMA AllocateStep ==
  ASSUME Pool(fetchList, lsList), engine \in 0..1, fDescrList \in [0..1 -> Seq(TCB)],
         NEW c, c.sizes \in SUBSET Size, AllocateTCB(c)
  PROVE  /\ failed' = failed /\ engine' = engine
         /\ Pool(fetchList', lsList')
         /\ ToSet(fetchList') \subseteq ToSet(fetchList)
         /\ ToSet(lsList') \subseteq ToSet(lsList)
         /\ \/ fDescrList' = fDescrList
            \/ \E t, d, k, isr : \E one, two \in Slot : AddsTCB(t, one, two, d, k, isr)
<1>1. engine' = engine
  BY DEF AllocateTCB
<1>2. /\ lsList \in Seq(Slot) /\ Spread(lsList) /\ Len(fetchList) \in Nat
  BY Elements DEF Pool
<1> DEFINE low == SelectInSeq(fetchList, Low)
<1>3. low \in 0..Len(fetchList)
  <2> DEFINE I == {i \in 1..Len(fetchList) : Low(fetchList[i])}
  <2>1. low = IF I # {} THEN Min(I) ELSE 0
    BY DEF SelectInSeq
  <2>2. I # {} => Min(I) \in 1..Len(fetchList)
    <3> HIDE DEF I
    <3>1. I \in SUBSET (1..Len(fetchList))
      BY DEF I
    <3> QED BY <1>2, <3>1, LeastPosition
  <2> HIDE DEF low, I
  <2> QED BY <1>2, <2>1, <2>2
<1> DEFINE code == IF low = 0 THEN fetchList ELSE RemoveAt(fetchList, low)
<1>4. \/ /\ lsList' = Pair.rest
         /\ UNCHANGED <<fetchList, fDescrList, failed>>
      \/ \E one \in Pair.one, two \in Pair.two : NextTCB(c, Pair, one, two, low, code)
  BY DEF AllocateTCB
<1>5. CASE /\ lsList' = Pair.rest
           /\ UNCHANGED <<fetchList, fDescrList, failed>>
  BY <1>1, <1>2, <1>5, PairApart DEF Pool
<1>6. CASE \E one \in Pair.one, two \in Pair.two : NextTCB(c, Pair, one, two, low, code)
  <2>1. PICK one \in Pair.one, two \in Pair.two : NextTCB(c, Pair, one, two, low, code)
    BY <1>6
  <2>2. one \in Slot /\ two \in Slot
    BY <1>2, PairApart
  <2> HIDE DEF low
  <2>3. PICK x : x = code
    OBVIOUS
  <2>4. NextTCB(c, Pair, one, two, low, x)
    BY <2>1, <2>3
  <2>5. /\ failed' = failed
        /\ Pool(fetchList', lsList')
        /\ ToSet(fetchList') \subseteq ToSet(fetchList)
        /\ ToSet(lsList') \subseteq ToSet(lsList)
        /\ \/ fDescrList' = fDescrList
           \/ \E t, d, k, isr : AddsTCB(t, one, two, d, k, isr)
    BY <1>3, <2>3, <2>4, TakenFromPool
  <2> QED BY <1>1, <2>2, <2>5
<1> QED BY <1>4, <1>5, <1>6
-----------------------------------------------------------------------------
(***************************************************************************)
(* The lists and the memory they take.                                     *)
(***************************************************************************)
RoutineAt(isr) == IF isr = 0 THEN {} ELSE {ISRArea(isr)}
Own(t) == Data(t) \cup {Descriptor(t)}
Areas(t) == Own(t) \cup RoutineAt(t.isr)

\* The areas that nothing else may use: engine 1 may use data again.
Kept(e, t) == IF e = 0 THEN Areas(t) ELSE {Descriptor(t)} \cup RoutineAt(t.isr)

Positions(e) == 1..Len(fDescrList[e])

EngineTypes ==
  /\ engine \in 0..2 /\ fDescrList \in [0..1 -> Seq(TCB)]
  /\ engine = 0 => fDescrList[1] = <<>>
  /\ Pool(fetchList, lsList)

PoolUnclaimed ==
  /\ check_set \subseteq Ranges
  /\ \A x \in ToSet(fetchList) \cup ToSet(lsList), c \in check_set : ~Meet(x, c)

AreasFree ==
  \A e \in 0..1 : \A n \in Positions(e) :
    /\ \A a \in Areas(fDescrList[e][n]) :
         a \in Ranges /\ \A x \in ToSet(fetchList) \cup check_set : ~Meet(a, x)
    /\ \A a \in Kept(e, fDescrList[e][n]), x \in ToSet(lsList) : ~Meet(a, x)

AreasApart ==
  \A e, f \in 0..1 : \A m \in Positions(e), n \in Positions(f) :
    e # f \/ m # n =>
      \A a \in Areas(fDescrList[e][m]), b \in Kept(f, fDescrList[f][n]) : ~Meet(a, b)

RoutinesApart ==
  \A e \in 0..1 : \A n \in Positions(e) :
    LET t == fDescrList[e][n] IN
    \A a \in Own(t), b \in RoutineAt(t.isr) : ~Meet(a, b)

\* A list ends with the TCB that is added last.
Chained ==
  \A e \in 0..1 : \A n \in Positions(e) :
    LET t == fDescrList[e][n] IN
    IF n = Len(fDescrList[e]) THEN t.link = "last"
    ELSE /\ t.link # "last"
         /\ t.next = fDescrList[e][n + 1].loc /\ t.next < MAX_CHAIN_ADDRESS

StaysInside ==
  \A e \in 0..1 : \A n \in Positions(e) :
    LET t == fDescrList[e][n] IN
    /\ t.from[1] <= t.src /\ t.src + t.max <= t.from[2]
    /\ t.to[1] <= t.dst /\ t.dst + t.max <= t.to[2]
    /\ t.size <= t.max

EngineInv ==
  /\ EngineTypes /\ PoolUnclaimed /\ AreasFree /\ AreasApart /\ RoutinesApart
  /\ Chained /\ StaysInside

\* A TCB that goes on to the one at address next.
Relinked(u, k, isr, next) == [u EXCEPT !.link = k, !.isr = isr, !.next = next]

\* A TCB that is added, as far as the lists go.
LEMMA AddedTCB ==
  ASSUME EngineTypes, engine \in 0..1, NEW t, NEW d, NEW k, NEW isr,
         NEW one \in Slot, NEW two \in Slot, AddsTCB(t, one, two, d, k, isr)
  PROVE  /\ fDescrList' \in [0..1 -> Seq(TCB)] /\ isr \in Nat
         /\ \A e \in 0..1 : Len(fDescrList[e]) \in Nat /\ Len(fDescrList'[e]) \in Nat
         /\ \A e \in 0..1 : e # engine => fDescrList'[e] = fDescrList[e]
         /\ Len(fDescrList'[engine]) = Len(fDescrList[engine]) + 1
         /\ fDescrList'[engine][Len(fDescrList[engine]) + 1] = t
         /\ \A n \in Positions(engine) :
              /\ fDescrList[engine][n] \in TCB
              /\ fDescrList'[engine][n] =
                   IF n = Len(fDescrList[engine])
                   THEN Relinked(fDescrList[engine][n], k, isr, t.loc)
                   ELSE fDescrList[engine][n]
<1>1. /\ t \in TCB /\ k \in {"chained", "isr", "last"}
      /\ fDescrList' = [fDescrList EXCEPT ![engine] = Linked(t, k, isr)]
      /\ fDescrList \in [0..1 -> Seq(TCB)]
  BY DEF AddsTCB, Taken, EngineTypes
<1>2. isr \in Nat
  <2>1. CASE isr = 0
    BY <2>1
  <2>2. CASE \E r \in ToSet(fetchList) : isr = ISRAddress(r)
    <3>1. PICK r \in ToSet(fetchList) : isr = ISRAddress(r)
      BY <2>2
    <3>2. r \in Slot
      BY Elements DEF EngineTypes, Pool
    <3> QED BY <3>1, <3>2, ISRTaken
  <2> QED BY <2>1, <2>2 DEF AddsTCB
<1> DEFINE L == Descr
           M == Linked(t, k, isr)
<1>3. L \in Seq(TCB)
  BY <1>1 DEF Descr
<1> HIDE DEF L
<1>4. Len(L) \in Nat /\ (L = <<>> <=> Len(L) = 0) /\ \A n \in 1..Len(L) : L[n] \in TCB
  BY <1>3, Elements, EmptySeq
<1>5. /\ M \in Seq(TCB) /\ Len(M) = Len(L) + 1 /\ M[Len(L) + 1] = t
      /\ \A n \in 1..Len(L) :
           M[n] = IF n = Len(L) THEN Relinked(L[n], k, isr, t.loc) ELSE L[n]
  <2>1. CASE L = <<>>
    <3>1. M = <<t>>
      BY <2>1 DEF Linked, L
    <3> HIDE DEF M
    <3>2. M \in Seq(TCB) /\ Len(M) = 1 /\ M[1] = t
      BY <1>1, <3>1
    <3> QED BY <1>4, <2>1, <3>2
  <2>2. CASE L # <<>>
    <3> DEFINE new == Relinked(L[Len(L)], k, isr, t.loc)
               N == [L EXCEPT ![Len(L)] = new]
    <3>1. M = Append(N, t)
      BY <2>2 DEF Linked, Relinked, L
    <3>2. Len(L) \in 1..Len(L)
      BY <1>4, <2>2
    <3>3. new \in TCB
      <4> DEFINE old == L[Len(L)]
      <4>1. old \in TCB
        BY <1>4, <3>2
      <4> HIDE DEF old
      <4>2. Relinked(old, k, isr, t.loc) \in TCB
        BY <1>1, <1>2, <4>1 DEF TCB, Relinked
      <4> QED BY <4>2 DEF old
    <3> HIDE DEF new, M
    <3>4. /\ N \in Seq(TCB) /\ Len(N) = Len(L)
          /\ \A j \in 1..Len(L) : N[j] = IF j = Len(L) THEN new ELSE L[j]
      BY <1>3, <3>2, <3>3, ExceptSeq
    <3> HIDE DEF N
    <3>5. /\ M \in Seq(TCB) /\ Len(M) = Len(L) + 1 /\ M[Len(L) + 1] = t
          /\ \A j \in 1..Len(L) : M[j] = N[j]
      BY <1>1, <1>4, <3>1, <3>4, AppendProperties
    <3> QED BY <3>4, <3>5 DEF new
  <2> QED BY <2>1, <2>2
<1> HIDE DEF M
<1>6. /\ fDescrList' \in [0..1 -> Seq(TCB)] /\ fDescrList'[engine] = M
      /\ \A e \in 0..1 : e # engine => fDescrList'[e] = fDescrList[e]
  BY <1>1, <1>5 DEF M
<1>7. \A e \in 0..1 : Len(fDescrList[e]) \in Nat /\ Len(fDescrList'[e]) \in Nat
  BY <1>1, <1>6, Elements
<1> QED BY <1>2, <1>4, <1>5, <1>6, <1>7 DEF Positions, Descr, L

\* The entries of the new lists: one of before with the same data and
\* descriptor and, maybe, the new routine; or the new TCB.
Gets(e, n, isr) ==
  IF e = engine /\ n = Len(fDescrList[e]) THEN RoutineAt(isr) ELSE {}

OldEntry(e, n, isr) ==
  /\ n \in Positions(e)
  /\ Own(fDescrList'[e][n]) = Own(fDescrList[e][n])
  /\ Descriptor(fDescrList'[e][n]) = Descriptor(fDescrList[e][n])
  /\ RoutineAt(fDescrList'[e][n].isr)
       \subseteq RoutineAt(fDescrList[e][n].isr) \cup Gets(e, n, isr)

NewEntry(e, n, t) ==
  e = engine /\ n = Len(fDescrList[e]) + 1 /\ fDescrList'[e][n] = t

\* After a transfer is added, a chain holds old transfers and the new one.
LEMMA Entries ==
  ASSUME EngineTypes, engine \in 0..1, NEW t, NEW d, NEW k, NEW isr,
         NEW one \in Slot, NEW two \in Slot, AddsTCB(t, one, two, d, k, isr),
         NEW e \in 0..1, NEW n \in Positions(e)'
  PROVE  OldEntry(e, n, isr) \/ NewEntry(e, n, t)
<1>1. CASE e # engine
  <2>1. fDescrList'[e] = fDescrList[e]
    BY <1>1, AddedTCB
  <2> QED BY <1>1, <2>1 DEF OldEntry, Positions
<1>2. CASE e = engine /\ n \in Positions(e)
  <2> DEFINE u == fDescrList[e][n]
             v == fDescrList'[e][n]
  <2>1. /\ u \in TCB
        /\ v = u \/ (v = Relinked(u, k, isr, t.loc) /\ n = Len(fDescrList[engine]))
    <3>1. n \in Positions(engine) /\ u = fDescrList[engine][n] /\ v = fDescrList'[engine][n]
      BY <1>2
    <3> HIDE DEF u, v
    <3>2. /\ u \in TCB
          /\ v = IF n = Len(fDescrList[engine])
                 THEN Relinked(u, k, isr, t.loc) ELSE u
      BY <3>1, AddedTCB
    <3> QED BY <3>2
  <2>2. CASE v = u
    BY <1>2, <2>2 DEF OldEntry
  <2>3. CASE v = Relinked(u, k, isr, t.loc) /\ n = Len(fDescrList[engine])
    <3> HIDE DEF u, v
    <3>1. /\ v.src = u.src /\ v.dst = u.dst /\ v.max = u.max /\ v.loc = u.loc
          /\ v.isr = isr
      BY <2>1, <2>3 DEF TCB, Relinked
    <3>2. Data(v) = Data(u) /\ Descriptor(v) = Descriptor(u)
      BY <3>1 DEF Data, Descriptor
    <3>3. Own(v) = Own(u) /\ RoutineAt(v.isr) = Gets(e, n, isr)
      BY <1>2, <2>3, <3>1, <3>2 DEF Own, Gets
    <3> QED BY <1>2, <3>2, <3>3 DEF OldEntry, u, v
  <2> QED BY <2>1, <2>2, <2>3
<1>3. CASE e = engine /\ n \notin Positions(e)
  <2>1. /\ Len(fDescrList'[engine]) = Len(fDescrList[engine]) + 1
        /\ fDescrList'[engine][Len(fDescrList[engine]) + 1] = t
        /\ Len(fDescrList[engine]) \in Nat
    BY AddedTCB
  <2>2. n = Len(fDescrList[e]) + 1
    BY <1>3, <2>1 DEF Positions
  <2> QED BY <1>3, <2>1, <2>2 DEF NewEntry
<1> QED BY <1>1, <1>2, <1>3

\* The areas a new TCB takes meet nothing that is in use.
LEMMA NewAreas ==
  ASSUME EngineInv, engine \in 0..1, Pool(fetchList', lsList'),
         ToSet(fetchList') \subseteq ToSet(fetchList),
         ToSet(lsList') \subseteq ToSet(lsList),
         NEW t, NEW d, NEW k, NEW isr,
         NEW one \in Slot, NEW two \in Slot, AddsTCB(t, one, two, d, k, isr)
  PROVE  /\ \A a \in RoutineAt(isr) :
              /\ a \in Ranges
              /\ \A x \in ToSet(fetchList') \cup check_set \cup ToSet(lsList) \cup Own(t) :
                   ~Meet(a, x)
              /\ \A e \in 0..1 : \A n \in Positions(e) :
                   \A b \in Areas(fDescrList[e][n]) : ~Meet(a, b)
         /\ /\ Descriptor(t) \in Ranges
            /\ \A x \in ToSet(fetchList') \cup check_set \cup ToSet(lsList) \cup Data(t) :
                 ~Meet(Descriptor(t), x)
            /\ \A e \in 0..1 : \A n \in Positions(e) :
                 \A b \in Areas(fDescrList[e][n]) : ~Meet(Descriptor(t), b)
         /\ \A a \in Data(t) :
              /\ a \in Ranges
              /\ \A x \in ToSet(fetchList) \cup check_set : ~Meet(a, x)
              /\ \A e \in 0..1 : \A n \in Positions(e) :
                   \A b \in Kept(e, fDescrList[e][n]) : ~Meet(a, b)
              /\ engine = 0 => \A x \in ToSet(lsList') : ~Meet(a, x)
<1>1. /\ \A x \in ToSet(fetchList) : x \in Slot /\ x \in Ranges
      /\ \A x \in ToSet(lsList) : x \in Slot /\ x \in Ranges
      /\ \A x \in ToSet(fetchList), y \in ToSet(lsList) : ~Meet(x, y)
  BY Elements DEF EngineInv, EngineTypes, Pool, Slot
<1>2. /\ one \in ToSet(lsList) /\ two \in ToSet(lsList) /\ d \in ToSet(fetchList)
      /\ Taken(t, one, two, d) /\ t.loc < MAX_CHAIN_ADDRESS
      /\ \A x \in ToSet(fetchList') : ~Meet(d, x)
      /\ engine = 0 => \A x \in ToSet(lsList') : ~Meet(one, x) /\ ~Meet(two, x)
  BY DEF AddsTCB
<1>3. /\ \A a \in Data(t) : a \in Ranges /\ (Inside(a, one) \/ Inside(a, two))
      /\ Descriptor(t) \in Ranges /\ Inside(Descriptor(t), d)
  BY <1>2 DEF Taken
<1>4. \A c \in check_set : c \in Ranges
  BY DEF EngineInv, PoolUnclaimed
<1>5. \A e \in 0..1 : \A n \in Positions(e) :
        /\ \A b \in Areas(fDescrList[e][n]) :
             b \in Ranges /\ \A x \in ToSet(fetchList) : ~Meet(x, b)
        /\ \A b \in Kept(e, fDescrList[e][n]) :
             b \in Ranges /\ \A x \in ToSet(lsList) : ~Meet(x, b)
  <2> TAKE e \in 0..1
  <2> TAKE n \in Positions(e)
  <2>1. \A b \in Kept(e, fDescrList[e][n]) : b \in Areas(fDescrList[e][n])
    BY DEF Kept, Areas, Own
  <2> QED BY <2>1, MeetSymmetric DEF EngineInv, AreasFree
<1>6. ASSUME NEW a \in Ranges, NEW s \in ToSet(fetchList), Inside(a, s)
      PROVE  /\ \A x \in ToSet(lsList) \cup check_set : ~Meet(a, x)
             /\ \A e \in 0..1 : \A n \in Positions(e) :
                  \A b \in Areas(fDescrList[e][n]) : ~Meet(a, b)
  <2>1. s \in Ranges
    BY <1>1
  <2>2. \A x \in ToSet(lsList) \cup check_set : x \in Ranges /\ ~Meet(s, x)
    BY <1>1, <1>4 DEF EngineInv, PoolUnclaimed
  <2>3. \A x \in ToSet(lsList) \cup check_set : ~Meet(a, x)
    BY <1>6, <2>1, <2>2, InsideMeet
  <2>4. ASSUME NEW e \in 0..1, NEW n \in Positions(e), NEW b \in Areas(fDescrList[e][n])
        PROVE  ~Meet(a, b)
    <3>1. b \in Ranges /\ ~Meet(s, b)
      BY <1>5
    <3> QED BY <1>6, <2>1, <3>1, InsideMeet
  <2> QED BY <2>3, <2>4
<1>7. ASSUME NEW a \in Ranges, NEW s \in ToSet(lsList), Inside(a, s)
      PROVE  /\ \A x \in ToSet(fetchList) \cup check_set : ~Meet(a, x)
             /\ \A e \in 0..1 : \A n \in Positions(e) :
                  \A b \in Kept(e, fDescrList[e][n]) : ~Meet(a, b)
  <2>1. s \in Ranges
    BY <1>1
  <2>2. \A x \in ToSet(fetchList) \cup check_set : x \in Ranges /\ ~Meet(s, x)
    BY <1>1, <1>4, MeetSymmetric DEF EngineInv, PoolUnclaimed
  <2>3. \A x \in ToSet(fetchList) \cup check_set : ~Meet(a, x)
    BY <1>7, <2>1, <2>2, InsideMeet
  <2>4. ASSUME NEW e \in 0..1, NEW n \in Positions(e),
               NEW b \in Kept(e, fDescrList[e][n])
        PROVE  ~Meet(a, b)
    <3>1. b \in Ranges /\ ~Meet(s, b)
      BY <1>5
    <3> QED BY <1>7, <2>1, <3>1, InsideMeet
  <2> QED BY <2>3, <2>4
<1>8. \A x \in ToSet(fetchList') \cup ToSet(lsList') : x \in Ranges
  BY Elements DEF Pool, Slot
<1>9. /\ \A x \in ToSet(fetchList') \cup check_set \cup ToSet(lsList) \cup Data(t) :
            ~Meet(Descriptor(t), x)
      /\ \A e \in 0..1 : \A n \in Positions(e) :
           \A b \in Areas(fDescrList[e][n]) : ~Meet(Descriptor(t), b)
  <2>1. /\ \A x \in ToSet(lsList) \cup check_set : ~Meet(Descriptor(t), x)
        /\ \A e \in 0..1 : \A n \in Positions(e) :
             \A b \in Areas(fDescrList[e][n]) : ~Meet(Descriptor(t), b)
    BY <1>2, <1>3, <1>6
  <2>2. \A x \in ToSet(fetchList') : ~Meet(Descriptor(t), x)
    BY <1>1, <1>2, <1>3, <1>8, InsideMeet
  <2>3. \A x \in Data(t) : ~Meet(Descriptor(t), x)
    <3> SUFFICES ASSUME NEW x \in Data(t) PROVE ~Meet(Descriptor(t), x)
      OBVIOUS
    <3>1. PICK s \in {one, two} : Inside(x, s) /\ x \in Ranges
      BY <1>3
    <3>2. ~Meet(Descriptor(t), s) /\ s \in Ranges
      BY <1>1, <1>2, <2>1
    <3>3. ~Meet(s, Descriptor(t))
      BY <3>2, MeetSymmetric
    <3>4. ~Meet(x, Descriptor(t))
      BY <1>3, <3>1, <3>2, <3>3, InsideMeet
    <3> QED BY <3>4, MeetSymmetric
  <2> QED BY <2>1, <2>2, <2>3
<1>10. ASSUME NEW a \in RoutineAt(isr)
       PROVE  /\ a \in Ranges
              /\ \A x \in ToSet(fetchList') \cup check_set \cup ToSet(lsList) \cup Own(t) :
                   ~Meet(a, x)
              /\ \A e \in 0..1 : \A n \in Positions(e) :
                   \A b \in Areas(fDescrList[e][n]) : ~Meet(a, b)
  <2>1. PICK r \in ToSet(fetchList) :
          /\ isr = ISRAddress(r) /\ ~Meet(r, d)
          /\ \A x \in ToSet(fetchList') : ~Meet(r, x)
    BY <1>10 DEF AddsTCB, RoutineAt
  <2>2. a = ISRArea(ISRAddress(r)) /\ r \in Ranges
    BY <1>1, <1>10, <2>1 DEF RoutineAt
  <2>3. a \in Ranges /\ Inside(a, r)
    BY <1>1, <2>2, ISRTaken
  <2>4. /\ \A x \in ToSet(lsList) \cup check_set : ~Meet(a, x)
        /\ \A e \in 0..1 : \A n \in Positions(e) :
             \A b \in Areas(fDescrList[e][n]) : ~Meet(a, b)
    BY <1>6, <2>3
  <2>5. \A x \in ToSet(fetchList') : ~Meet(a, x)
    BY <1>8, <2>1, <2>2, <2>3, InsideMeet
  <2>6. ~Meet(a, Descriptor(t))
    <3>1. d \in Ranges /\ ~Meet(a, d)
      BY <1>1, <1>2, <2>1, <2>2, <2>3, InsideMeet
    <3>2. ~Meet(d, a)
      BY <3>1, MeetSymmetric
    <3>3. ~Meet(Descriptor(t), a)
      BY <1>3, <2>3, <3>1, <3>2, InsideMeet
    <3> QED BY <3>3, MeetSymmetric
  <2>7. \A x \in Data(t) : ~Meet(a, x)
    <3> SUFFICES ASSUME NEW x \in Data(t) PROVE ~Meet(a, x)
      OBVIOUS
    <3>1. PICK s \in {one, two} : Inside(x, s) /\ x \in Ranges
      BY <1>3
    <3>2. ~Meet(a, s) /\ s \in Ranges
      BY <1>1, <1>2, <2>4
    <3>3. ~Meet(s, a)
      BY <3>2, MeetSymmetric
    <3>4. ~Meet(x, a)
      BY <2>3, <3>1, <3>2, <3>3, InsideMeet
    <3> QED BY <3>4, MeetSymmetric
  <2> QED BY <2>3, <2>4, <2>5, <2>6, <2>7 DEF Own
<1>11. ASSUME NEW a \in Data(t)
       PROVE  /\ a \in Ranges
              /\ \A x \in ToSet(fetchList) \cup check_set : ~Meet(a, x)
              /\ \A e \in 0..1 : \A n \in Positions(e) :
                   \A b \in Kept(e, fDescrList[e][n]) : ~Meet(a, b)
              /\ engine = 0 => \A x \in ToSet(lsList') : ~Meet(a, x)
  <2>1. PICK s \in {one, two} : Inside(a, s) /\ a \in Ranges
    BY <1>3
  <2>2. s \in ToSet(lsList) /\ s \in Ranges
    BY <1>1, <1>2
  <2>3. engine = 0 => \A x \in ToSet(lsList') : ~Meet(a, x)
    BY <1>2, <1>8, <2>1, <2>2, InsideMeet
  <2> QED BY <1>7, <2>1, <2>2, <2>3
<1> QED BY <1>3, <1>9, <1>10, <1>11

\* An old transfer gains at most the interrupt routine.
LEMMA OldAreas ==
  ASSUME NEW e \in 0..1, NEW n, NEW isr, OldEntry(e, n, isr)
  PROVE  /\ Areas(fDescrList'[e][n]) \subseteq Areas(fDescrList[e][n]) \cup Gets(e, n, isr)
         /\ Kept(e, fDescrList'[e][n]) \subseteq Kept(e, fDescrList[e][n]) \cup Gets(e, n, isr)
         /\ Gets(e, n, isr) \subseteq RoutineAt(isr)
BY DEF OldEntry, Areas, Kept, Gets

\* What must be kept of a transfer is part of what it uses.
LEMMA KeptAreas == ASSUME NEW e, NEW t PROVE Kept(e, t) \subseteq Areas(t)
BY DEF Kept, Areas, Own

\* The areas of all transfers stay off the ranges that are left.
LEMMA AddingFree ==
  ASSUME EngineInv, engine \in 0..1, Pool(fetchList', lsList'),
         ToSet(fetchList') \subseteq ToSet(fetchList),
         ToSet(lsList') \subseteq ToSet(lsList), check_set' = check_set,
         NEW t, NEW d, NEW k, NEW isr,
         NEW one \in Slot, NEW two \in Slot, AddsTCB(t, one, two, d, k, isr)
  PROVE  AreasFree'
<1> SUFFICES ASSUME NEW e \in 0..1, NEW n \in Positions(e)'
             PROVE  /\ \A a \in Areas(fDescrList'[e][n]) :
                         /\ a \in Ranges
                         /\ \A x \in ToSet(fetchList') \cup check_set : ~Meet(a, x)
                    /\ \A a \in Kept(e, fDescrList'[e][n]), x \in ToSet(lsList') : ~Meet(a, x)
  BY DEF AreasFree
<1>1. CASE OldEntry(e, n, isr)
  <2>1. n \in Positions(e)
    BY <1>1 DEF OldEntry
  <2>2. /\ \A a \in Areas(fDescrList[e][n]) :
             /\ a \in Ranges
             /\ \A x \in ToSet(fetchList') \cup check_set : ~Meet(a, x)
        /\ \A a \in Kept(e, fDescrList[e][n]), x \in ToSet(lsList') : ~Meet(a, x)
    BY <2>1 DEF EngineInv, AreasFree
  <2>3. \A a \in RoutineAt(isr) :
          /\ a \in Ranges
          /\ \A x \in ToSet(fetchList') \cup check_set \cup ToSet(lsList') : ~Meet(a, x)
    BY NewAreas
  <2> QED BY <1>1, <2>2, <2>3, OldAreas
<1>2. CASE NewEntry(e, n, t)
  <2>1. fDescrList'[e][n] = t /\ e = engine
    BY <1>2 DEF NewEntry
  <2>2. t.isr = 0
    BY DEF AddsTCB, Taken
  <2>3. /\ Areas(t) = Data(t) \cup {Descriptor(t)}
        /\ Kept(e, t) = IF engine = 0 THEN Data(t) \cup {Descriptor(t)} ELSE {Descriptor(t)}
    BY <2>1, <2>2 DEF Areas, Kept, Own, RoutineAt
  <2>4. /\ Descriptor(t) \in Ranges
        /\ \A x \in ToSet(fetchList') \cup check_set \cup ToSet(lsList') : ~Meet(Descriptor(t), x)
    BY NewAreas
  <2>5. \A a \in Data(t) :
          /\ a \in Ranges
          /\ \A x \in ToSet(fetchList') \cup check_set : ~Meet(a, x)
          /\ engine = 0 => \A x \in ToSet(lsList') : ~Meet(a, x)
    BY NewAreas
  <2> QED BY <2>1, <2>3, <2>4, <2>5
<1> QED BY <1>1, <1>2, Entries DEF EngineInv

\* The areas of the new transfer stay off those of the others.
LEMMA AddingApart ==
  ASSUME EngineInv, engine \in 0..1, Pool(fetchList', lsList'),
         ToSet(fetchList') \subseteq ToSet(fetchList),
         ToSet(lsList') \subseteq ToSet(lsList), check_set' = check_set,
         NEW t, NEW d, NEW k, NEW isr,
         NEW one \in Slot, NEW two \in Slot, AddsTCB(t, one, two, d, k, isr)
  PROVE  AreasApart' /\ RoutinesApart'
<1>1. \A e \in 0..1 : \A n \in Positions(e)' : OldEntry(e, n, isr) \/ NewEntry(e, n, t)
  BY Entries DEF EngineInv
<1>2. t.isr = 0
  BY DEF AddsTCB, Taken
<1>3. /\ Areas(t) = Data(t) \cup {Descriptor(t)} /\ RoutineAt(t.isr) = {}
      /\ Kept(engine, t) = IF engine = 0 THEN Data(t) \cup {Descriptor(t)} ELSE {Descriptor(t)}
  BY <1>2 DEF Areas, Kept, Own, RoutineAt
<1>4. ASSUME NEW e \in 0..1, NEW n \in Positions(e),
             NEW a \in Areas(fDescrList[e][n])
      PROVE  /\ \A b \in RoutineAt(isr) \cup {Descriptor(t)} : ~Meet(a, b) /\ ~Meet(b, a)
             /\ a \in Kept(e, fDescrList[e][n]) => \A b \in Data(t) : ~Meet(a, b) /\ ~Meet(b, a)
  <2>1. \A b \in RoutineAt(isr) : ~Meet(b, a)
    BY NewAreas
  <2>2. ~Meet(Descriptor(t), a)
    BY NewAreas
  <2>3. a \in Kept(e, fDescrList[e][n]) => \A b \in Data(t) : ~Meet(b, a)
    BY NewAreas
  <2> QED BY <2>1, <2>2, <2>3, MeetSymmetric
<1>5. \A a \in RoutineAt(isr), b \in Areas(t) : ~Meet(a, b) /\ ~Meet(b, a)
  BY <1>3, NewAreas, MeetSymmetric DEF Own
<1>6. ASSUME NEW e \in 0..1, NEW f \in 0..1,
             NEW m \in Positions(e)', NEW n \in Positions(f)', e # f \/ m # n,
             NEW a \in Areas(fDescrList'[e][m]), NEW b \in Kept(f, fDescrList'[f][n])
      PROVE  ~Meet(a, b)
  <2>1. CASE OldEntry(e, m, isr) /\ OldEntry(f, n, isr)
    <3>1. m \in Positions(e) /\ n \in Positions(f)
      BY <2>1 DEF OldEntry
    <3>2. /\ a \in Areas(fDescrList[e][m]) \cup Gets(e, m, isr)
          /\ b \in Kept(f, fDescrList[f][n]) \cup Gets(f, n, isr)
          /\ Gets(e, m, isr) \subseteq RoutineAt(isr) /\ Gets(f, n, isr) \subseteq RoutineAt(isr)
      BY <1>6, <2>1, OldAreas
    <3>3. ~(a \in Gets(e, m, isr) /\ b \in Gets(f, n, isr))
      BY <1>6 DEF Gets
    <3>4. CASE a \in Areas(fDescrList[e][m]) /\ b \in Kept(f, fDescrList[f][n])
      BY <1>6, <3>1, <3>4 DEF EngineInv, AreasApart
    <3>5. CASE a \in Areas(fDescrList[e][m]) /\ b \in Gets(f, n, isr)
      BY <1>4, <3>1, <3>2, <3>5
    <3>6. CASE a \in Gets(e, m, isr) /\ b \in Kept(f, fDescrList[f][n])
      <4>1. b \in Areas(fDescrList[f][n])
        BY <3>6, KeptAreas
      <4> QED BY <1>4, <3>1, <3>2, <3>6, <4>1
    <3> QED BY <3>2, <3>3, <3>4, <3>5, <3>6
  <2>2. CASE OldEntry(e, m, isr) /\ NewEntry(f, n, t)
    <3>1. m \in Positions(e) /\ fDescrList'[f][n] = t /\ f = engine
      BY <2>2 DEF OldEntry, NewEntry
    <3>2. b \in Kept(engine, t)
      BY <3>1
    <3>3. a \in Areas(fDescrList[e][m]) \/ a \in RoutineAt(isr)
      BY <2>2, OldAreas
    <3>4. CASE a \in RoutineAt(isr)
      BY <1>5, <3>2, <3>4, KeptAreas
    <3>5. CASE a \in Areas(fDescrList[e][m]) /\ b = Descriptor(t)
      BY <1>4, <3>1, <3>5
    <3>6. CASE a \in Areas(fDescrList[e][m]) /\ engine = 0 /\ b \in Data(t)
      <4>1. e = 0
        <5>1. fDescrList[1] = <<>>
          BY <3>6 DEF EngineInv, EngineTypes
        <5>2. CASE e = 1
          BY <3>1, <5>1, <5>2 DEF Positions
        <5> QED BY <5>2
      <4>2. a \in Kept(e, fDescrList[e][m])
        BY <3>6, <4>1 DEF Kept
      <4> QED BY <1>4, <3>1, <3>6, <4>2
    <3> QED BY <1>3, <3>2, <3>3, <3>4, <3>5, <3>6
  <2>3. CASE NewEntry(e, m, t) /\ OldEntry(f, n, isr)
    <3>1. n \in Positions(f) /\ fDescrList'[e][m] = t
      BY <2>3 DEF OldEntry, NewEntry
    <3>2. a \in Data(t) \cup {Descriptor(t)}
      BY <1>3, <3>1
    <3>3. b \in Kept(f, fDescrList[f][n]) \/ b \in RoutineAt(isr)
      BY <2>3, OldAreas
    <3>4. CASE b \in RoutineAt(isr)
      BY <1>3, <1>5, <3>2, <3>4
    <3>5. CASE b \in Kept(f, fDescrList[f][n])
      <4>1. b \in Areas(fDescrList[f][n])
        BY <3>5, KeptAreas
      <4> QED BY <1>4, <3>1, <3>2, <3>5, <4>1
    <3> QED BY <3>3, <3>4, <3>5
  <2>4. CASE NewEntry(e, m, t) /\ NewEntry(f, n, t)
    BY <1>6, <2>4 DEF NewEntry
  <2> QED BY <1>1, <2>1, <2>2, <2>3, <2>4
<1>7. ASSUME NEW e \in 0..1, NEW n \in Positions(e)',
             NEW a \in Own(fDescrList'[e][n]), NEW b \in RoutineAt(fDescrList'[e][n].isr)
      PROVE  ~Meet(a, b)
  <2>1. CASE OldEntry(e, n, isr)
    <3>1. /\ n \in Positions(e) /\ a \in Own(fDescrList[e][n])
          /\ b \in RoutineAt(fDescrList[e][n].isr) \cup RoutineAt(isr)
      BY <1>7, <2>1 DEF OldEntry, Gets
    <3>2. CASE b \in RoutineAt(fDescrList[e][n].isr)
      BY <3>1, <3>2 DEF EngineInv, RoutinesApart
    <3>3. CASE b \in RoutineAt(isr)
      <4>1. a \in Areas(fDescrList[e][n])
        BY <3>1 DEF Areas
      <4> QED BY <1>4, <3>1, <3>3, <4>1
    <3> QED BY <3>1, <3>2, <3>3
  <2>2. CASE NewEntry(e, n, t)
    <3>1. RoutineAt(fDescrList'[e][n].isr) = {}
      BY <1>3, <2>2 DEF NewEntry
    <3> QED BY <1>7, <3>1
  <2> QED BY <1>1, <2>1, <2>2
<1>8. AreasApart'
  BY <1>6 DEF AreasApart
<1>9. RoutinesApart'
  BY <1>7 DEF RoutinesApart
<1> QED BY <1>8, <1>9

\* The new TCB is the last, and the one before it goes on to it.
LEMMA AddingChained ==
  ASSUME EngineInv, engine \in 0..1, NEW t, NEW d, NEW k, NEW isr,
         NEW one \in Slot, NEW two \in Slot, AddsTCB(t, one, two, d, k, isr)
  PROVE  Chained' /\ StaysInside'
<1> DEFINE len == Len(fDescrList[engine])
<1>1. /\ t \in TCB /\ t.loc < MAX_CHAIN_ADDRESS /\ t.link = "last"
      /\ t.from[1] <= t.src /\ t.src + t.max <= t.from[2]
      /\ t.to[1] <= t.dst /\ t.dst + t.max <= t.to[2] /\ t.size <= t.max
  BY DEF AddsTCB, Taken
<1>2. /\ \A e \in 0..1 : Len(fDescrList[e]) \in Nat /\ Len(fDescrList'[e]) \in Nat
      /\ \A e \in 0..1 : e # engine => fDescrList'[e] = fDescrList[e]
      /\ Len(fDescrList'[engine]) = len + 1 /\ len \in Nat
      /\ fDescrList'[engine][len + 1] = t
  BY AddedTCB DEF EngineInv
<1>3. ASSUME NEW n \in 1..len
      PROVE  LET u == fDescrList[engine][n]
                 v == fDescrList'[engine][n]
             IN /\ v.loc = u.loc /\ v.src = u.src /\ v.dst = u.dst /\ v.max = u.max
                /\ v.from = u.from /\ v.to = u.to /\ v.size = u.size
                /\ n = len => v.link = k /\ v.next = t.loc
                /\ n # len => v = u
  <2> DEFINE u == fDescrList[engine][n]
             v == fDescrList'[engine][n]
  <2>1. u \in TCB /\ v = IF n = len THEN Relinked(u, k, isr, t.loc) ELSE u
    BY AddedTCB DEF Positions, EngineInv
  <2> HIDE DEF u, v
  <2>2. CASE n = len
    <3>1. v = Relinked(u, k, isr, t.loc)
      BY <2>1, <2>2
    <3>2. /\ v.loc = u.loc /\ v.src = u.src /\ v.dst = u.dst /\ v.max = u.max
          /\ v.from = u.from /\ v.to = u.to /\ v.size = u.size
          /\ v.link = k /\ v.next = t.loc
      BY <2>1, <3>1 DEF TCB, Relinked
    <3> QED BY <2>2, <3>2 DEF u, v
  <2>3. CASE n # len
    <3>1. v = u
      BY <2>1, <2>3
    <3> QED BY <2>3, <3>1 DEF u, v
  <2> QED BY <2>2, <2>3
<1>4. 1 <= len => k # "last" /\ k \in {"chained", "isr", "last"}
  <2>1. fDescrList[engine] \in Seq(TCB)
    BY DEF EngineInv, EngineTypes
  <2> QED BY <2>1, EmptySeq DEF AddsTCB, Descr
<1> DEFINE Link(e, n) ==
             LET u == fDescrList[e][n] IN
             IF n = Len(fDescrList[e]) THEN u.link = "last"
             ELSE /\ u.link # "last"
                  /\ u.next = fDescrList[e][n + 1].loc /\ u.next < MAX_CHAIN_ADDRESS
           Stays(e, n) ==
             LET u == fDescrList[e][n] IN
             /\ u.from[1] <= u.src /\ u.src + u.max <= u.from[2]
             /\ u.to[1] <= u.dst /\ u.dst + u.max <= u.to[2]
             /\ u.size <= u.max
<1>5. \A e \in 0..1 : \A n \in Positions(e) : Link(e, n) /\ Stays(e, n)
  BY DEF EngineInv, Chained, StaysInside
<1>6. ASSUME NEW e \in 0..1, NEW n \in Positions(e)' PROVE (Link(e, n) /\ Stays(e, n))'
  <2>1. CASE e # engine
    <3>1. fDescrList'[e] = fDescrList[e]
      BY <1>2, <2>1
    <3>2. n \in Positions(e)
      BY <3>1 DEF Positions
    <3>3. Link(e, n) /\ Stays(e, n)
      BY <1>5, <3>2
    <3> QED BY <3>1, <3>3, Zenon
  <2>2. CASE e = engine /\ n = len + 1
    BY <1>1, <1>2, <2>2
  <2>3. CASE e = engine /\ n \in 1..len
    <3>1. n \in Positions(e) /\ n + 1 \in 1..(len + 1)
      BY <1>2, <2>3 DEF Positions
    <3>2. Stays(e, n)'
      BY <1>3, <1>5, <2>3, <3>1
    <3>3. CASE n = len
      <4>1. PICK v, w :
              /\ v = fDescrList'[e][n] /\ w = fDescrList'[e][n + 1].loc
              /\ v.link = k /\ v.next = t.loc /\ w = t.loc
        BY <1>2, <1>3, <2>3, <3>3
      <4>2. k # "last" /\ n # Len(fDescrList'[e])
        BY <1>2, <1>4, <2>3, <3>3
      <4>3. Link(e, n)'
        BY <1>1, <4>1, <4>2
      <4> QED BY <3>2, <4>3
    <3>4. CASE n # len
      <4>1. n + 1 \in 1..len
        BY <1>2, <2>3, <3>4
      <4>2. fDescrList'[engine][n] = fDescrList[engine][n]
        BY <1>3, <2>3, <3>4
      <4>3. fDescrList'[engine][n + 1].loc = fDescrList[engine][n + 1].loc
        BY <1>3, <4>1
      <4>4. n # len + 1 /\ Link(engine, n)
        BY <1>2, <1>5, <2>3, <3>1
      <4>5. PICK u, v :
              /\ u = fDescrList[engine][n] /\ u = fDescrList'[engine][n]
              /\ v = fDescrList[engine][n + 1].loc /\ v = fDescrList'[engine][n + 1].loc
        BY <4>2, <4>3
      <4>6. u.link # "last" /\ u.next = v /\ u.next < MAX_CHAIN_ADDRESS
        BY <3>4, <4>4, <4>5
      <4>7. n # Len(fDescrList'[engine])
        BY <1>2, <4>4
      <4>8. Link(e, n)'
        BY <2>3, <4>5, <4>6, <4>7
      <4> QED BY <3>2, <4>8
    <3> QED BY <3>2, <3>3, <3>4
  <2> QED BY <1>2, <2>1, <2>2, <2>3 DEF Positions
<1>7. Chained'
  BY <1>6 DEF Chained
<1>8. StaysInside'
  BY <1>6 DEF StaysInside
<1> QED BY <1>7, <1>8

\* A round of the loop of GenerateDescrList, whatever it takes.
LEMMA AllocateInv ==
  ASSUME EngineInv, engine \in 0..1, NEW c, c.sizes \in SUBSET Size,
         AllocateTCB(c), check_set' = check_set
  PROVE  EngineInv' /\ failed' = failed /\ engine' = engine
<1>1. /\ failed' = failed /\ engine' = engine
      /\ Pool(fetchList', lsList')
      /\ ToSet(fetchList') \subseteq ToSet(fetchList)
      /\ ToSet(lsList') \subseteq ToSet(lsList)
      /\ \/ fDescrList' = fDescrList
         \/ \E t, d, k, isr : \E one, two \in Slot : AddsTCB(t, one, two, d, k, isr)
  BY AllocateStep DEF EngineInv, EngineTypes
<1>2. PoolUnclaimed'
  BY <1>1 DEF EngineInv, PoolUnclaimed
<1>3. CASE fDescrList' = fDescrList
  <2>1. EngineTypes'
    BY <1>1, <1>3 DEF EngineInv, EngineTypes
  <2>2. AreasFree'
    BY <1>1, <1>3 DEF EngineInv, AreasFree, Positions
  <2>3. AreasApart' /\ RoutinesApart' /\ Chained' /\ StaysInside'
    BY <1>3 DEF EngineInv, AreasApart, RoutinesApart, Chained, StaysInside, Positions
  <2> QED BY <1>1, <1>2, <2>1, <2>2, <2>3 DEF EngineInv
<1>4. CASE \E t, d, k, isr : \E one, two \in Slot : AddsTCB(t, one, two, d, k, isr)
  <2>1. PICK t, d, k, isr : \E one, two \in Slot : AddsTCB(t, one, two, d, k, isr)
    BY <1>4
  <2>2. PICK one, two \in Slot : AddsTCB(t, one, two, d, k, isr)
    BY <2>1
  <2>3. EngineTypes'
    <3>1. /\ fDescrList' \in [0..1 -> Seq(TCB)]
          /\ \A e \in 0..1 : e # engine => fDescrList'[e] = fDescrList[e]
      BY <2>2, AddedTCB DEF EngineInv
    <3> QED BY <1>1, <3>1 DEF EngineInv, EngineTypes
  <2>4. AreasFree'
    BY <1>1, <2>2, AddingFree
  <2>5. AreasApart' /\ RoutinesApart'
    BY <1>1, <2>2, AddingApart
  <2>6. Chained' /\ StaysInside'
    BY <2>2, AddingChained
  <2> QED BY <1>1, <1>2, <2>3, <2>4, <2>5, <2>6 DEF EngineInv
<1> QED BY <1>1, <1>3, <1>4
-----------------------------------------------------------------------------
(***************************************************************************)
(* The end of a list.                                                      *)
(***************************************************************************)
\* The bytes with a value lie in claims and in the descriptors of the engines
\* before.
EngineValued ==
  /\ fAccessMem \subseteq Ranges
  /\ \A v \in fAccessMem :
       \/ \E c \in check_set : Inside(v, c)
       \/ \E e \in 0..1 : /\ e < engine
                          /\ \E n \in Positions(e) : Inside(v, Descriptor(fDescrList[e][n]))

Words(t) == <<t.loc, t.loc + 23>>

\* The words that are stored for a transfer lie in its descriptor.
LEMMA WordsInside ==
  ASSUME NEW t \in TCB
  PROVE  /\ Words(t) \in Ranges /\ Descriptor(t) \in Ranges
         /\ Inside(Words(t), Descriptor(t))
<1>1. t.loc \in Nat
  BY DEF TCB
<1> QED BY <1>1 DEF Words, Descriptor, Ranges, MemRange, Inside

\* The descriptors of a list do not meet, nor does one of them meet what has a
\* value: the assertion of SetMem holds.
LEMMA ValuesOnce ==
  ASSUME EngineInv, EngineValued, engine \in 0..1, UpdateFields
  PROVE  failed' = failed
<1> DEFINE N == 1..Len(Descr)
           words == {Words(t) : t \in ToSet(Descr)}
<1>1. Descr \in Seq(TCB)
  BY DEF EngineInv, EngineTypes, Descr
<1>2. /\ Len(Descr) \in Nat /\ \A n \in N : Descr[n] \in TCB /\ Descr[n] \in ToSet(Descr)
      /\ \A t \in ToSet(Descr) : t \in TCB /\ \E n \in N : t = Descr[n]
  BY <1>1, Elements
<1>3. \A e \in 0..1 : \A n \in Positions(e), m \in N :
        e # engine \/ n # m => ~Meet(Descriptor(fDescrList[e][n]), Descriptor(Descr[m]))
  <2> SUFFICES ASSUME NEW e \in 0..1, NEW n \in Positions(e), NEW m \in N,
                      e # engine \/ n # m
               PROVE  ~Meet(Descriptor(fDescrList[e][n]), Descriptor(Descr[m]))
    OBVIOUS
  <2>1. /\ Descriptor(fDescrList[e][n]) \in Areas(fDescrList[e][n])
        /\ Descriptor(fDescrList[engine][m]) \in Kept(engine, fDescrList[engine][m])
    BY DEF Areas, Own, Kept
  <2> QED BY <2>1 DEF EngineInv, AreasApart, Positions, Descr
<1>4. \A n, m \in N : n # m => ~Meet(Words(Descr[n]), Words(Descr[m]))
  <2> SUFFICES ASSUME NEW n \in N, NEW m \in N, n # m
               PROVE  ~Meet(Words(Descr[n]), Words(Descr[m]))
    OBVIOUS
  <2>1. ~Meet(Descriptor(Descr[n]), Descriptor(Descr[m]))
    BY <1>3 DEF Positions, Descr
  <2>2. /\ Words(Descr[n]) \in Ranges /\ Descriptor(Descr[n]) \in Ranges
        /\ Inside(Words(Descr[n]), Descriptor(Descr[n]))
        /\ Words(Descr[m]) \in Ranges /\ Descriptor(Descr[m]) \in Ranges
        /\ Inside(Words(Descr[m]), Descriptor(Descr[m]))
    BY <1>2, WordsInside
  <2>3. ~Meet(Descriptor(Descr[m]), Words(Descr[n]))
    BY <2>1, <2>2, InsideMeet
  <2> QED BY <2>2, <2>3, InsideMeet
<1>5. AllApart(words)
  <2> SUFFICES ASSUME NEW v \in words, NEW w \in words, v # w PROVE ~Meet(v, w)
    BY DEF AllApart, Apart
  <2>1. \A x \in words : \E n \in N : x = Words(Descr[n])
    BY <1>2
  <2>2. PICK n \in N : v = Words(Descr[n])
    BY <2>1
  <2>3. PICK m \in N : w = Words(Descr[m])
    BY <2>1
  <2> QED BY <1>4, <2>2, <2>3
<1>6. Cardinality(words) = Len(Descr)
  <2> DEFINE f == [n \in N |-> Words(Descr[n])]
  <2>1. \A n, m \in N : f[n] = f[m] => n = m
    <3> SUFFICES ASSUME NEW n \in N, NEW m \in N, f[n] = f[m], n # m PROVE FALSE
      OBVIOUS
    <3>1. Words(Descr[n]) \in Ranges /\ Words(Descr[m]) = Words(Descr[n])
      BY <1>2, WordsInside
    <3>2. ~Meet(Words(Descr[n]), Words(Descr[m]))
      BY <1>4
    <3> QED BY <3>1, <3>2, MeetItself
  <2>2. f \in Surjection(N, words)
    BY <1>2 DEF Surjection
  <2>3. f \in Injection(N, words)
    BY <2>1, <2>2 DEF Surjection, Injection, IsInjective
  <2>4. IsFiniteSet(N) /\ Cardinality(N) = Len(Descr)
    <3>1. \A l \in Nat : IsFiniteSet(1..l) /\ Cardinality(1..l) = l
      BY FS_Interval
    <3> QED BY <1>2, <3>1
  <2> QED BY <2>2, <2>3, <2>4, FS_Surjection
<1>7. \A w \in words, v \in fAccessMem : ~Meet(w, v)
  <2> SUFFICES ASSUME NEW w \in words, NEW v \in fAccessMem PROVE ~Meet(w, v)
    OBVIOUS
  <2>1. PICK m \in N : w = Words(Descr[m])
    BY <1>2
  <2>2. /\ w \in Ranges /\ Descriptor(Descr[m]) \in Ranges
        /\ Inside(w, Descriptor(Descr[m]))
    BY <1>2, <2>1, WordsInside
  <2>3. v \in Ranges
    BY DEF EngineValued
  <2>4. ASSUME NEW c \in Ranges, Inside(v, c), ~Meet(c, Descriptor(Descr[m]))
        PROVE  ~Meet(w, v)
    <3>1. ~Meet(Descriptor(Descr[m]), v)
      BY <2>2, <2>3, <2>4, InsideMeet
    <3> QED BY <2>2, <2>3, <3>1, InsideMeet
  <2>5. CASE \E c \in check_set : Inside(v, c)
    <3>1. PICK c \in check_set : Inside(v, c)
      BY <2>5
    <3>2. Descriptor(Descr[m]) \in Areas(fDescrList[engine][m])
      BY DEF Areas, Own, Descr
    <3>3. ~Meet(Descriptor(Descr[m]), c)
      BY <3>2 DEF EngineInv, AreasFree, Positions, Descr
    <3>4. c \in Ranges /\ ~Meet(c, Descriptor(Descr[m]))
      BY <3>3, MeetSymmetric DEF EngineInv, PoolUnclaimed
    <3> QED BY <2>4, <3>1, <3>4
  <2>6. CASE \E e \in 0..1 : /\ e < engine
                             /\ \E n \in Positions(e) : Inside(v, Descriptor(fDescrList[e][n]))
    <3>1. PICK e \in 0..1 : /\ e < engine
                            /\ \E n \in Positions(e) : Inside(v, Descriptor(fDescrList[e][n]))
      BY <2>6
    <3>2. PICK n \in Positions(e) : Inside(v, Descriptor(fDescrList[e][n]))
      BY <3>1
    <3>3. ~Meet(Descriptor(fDescrList[e][n]), Descriptor(Descr[m]))
      BY <1>3, <3>1
    <3>4. Descriptor(fDescrList[e][n]) \in Ranges
      <4>1. Descriptor(fDescrList[e][n]) \in Areas(fDescrList[e][n])
        BY DEF Areas, Own
      <4> QED BY <4>1 DEF EngineInv, AreasFree
    <3> QED BY <2>4, <3>2, <3>3, <3>4
  <2> QED BY <2>5, <2>6 DEF EngineValued
<1>8. words = {<<t.loc, t.loc + 23>> : t \in ToSet(Descr)}
  BY DEF Words
<1> HIDE DEF words
<1>9. failed' = IF \/ Cardinality(words) < Len(Descr)
                   \/ ~AllApart(words)
                   \/ \E w \in words, b \in fAccessMem : Meet(w, b)
                THEN "set_twice" ELSE failed
  BY <1>8, Zenon DEF UpdateFields
<1>10. ~(Cardinality(words) < Len(Descr))
  BY <1>2, <1>6
<1> QED BY <1>5, <1>7, <1>9, <1>10, Zenon

\* The pass over a finished list, and the new distribution for engine 1.
LEMMA FinishInv ==
  ASSUME EngineInv, engine \in 0..1, UpdateFields, check_set' = check_set
  PROVE  EngineInv' /\ engine' = engine + 1
<1>1. engine' = engine + 1 /\ fDescrList' = fDescrList
  BY Zenon DEF UpdateFields
<1> DEFINE free == ToSet(fetchList) \cup ToSet(lsList)
<1>2. /\ Pool(fetchList', lsList')
      /\ engine = 0 => ToSet(fetchList') \cup ToSet(lsList') \subseteq free
      /\ engine = 1 => fetchList' = fetchList /\ lsList' = lsList
  <2>1. CASE engine = 0
    <3>1. Redistribute(fetchList \o lsList)
      BY <2>1, Zenon DEF UpdateFields
    <3>2. /\ fetchList \o lsList \in Seq(Slot) /\ Spread(fetchList \o lsList)
          /\ ToSet(fetchList \o lsList) = free
      BY Joining DEF EngineInv, EngineTypes, Pool
    <3>3. /\ Pool(fetchList', lsList')
          /\ ToSet(fetchList') \subseteq free /\ ToSet(lsList') \subseteq free
      <4> DEFINE all == fetchList \o lsList
      <4>1. all \in Seq(Slot) /\ Spread(all) /\ Redistribute(all) /\ ToSet(all) = free
        BY <3>1, <3>2
      <4> HIDE DEF all, free
      <4>2. /\ Pool(fetchList', lsList')
            /\ ToSet(fetchList') \subseteq ToSet(all) /\ ToSet(lsList') \subseteq ToSet(all)
        BY <4>1, Sharing
      <4> QED BY <4>1, <4>2
    <3> QED BY <2>1, <3>3
  <2>2. CASE engine = 1
    <3>1. fetchList' = fetchList /\ lsList' = lsList
      <4>1. engine # 0
        BY <2>2
      <4> QED BY <4>1, Zenon DEF UpdateFields
    <3> QED BY <2>2, <3>1 DEF EngineInv, EngineTypes
  <2> QED BY <2>1, <2>2
<1>3. EngineTypes'
  BY <1>1, <1>2 DEF EngineInv, EngineTypes
<1>4. PoolUnclaimed'
  <2>1. \A x \in ToSet(fetchList') \cup ToSet(lsList') : x \in free
    BY <1>2
  <2> QED BY <2>1 DEF EngineInv, PoolUnclaimed
<1>5. AreasFree'
  <2> SUFFICES ASSUME NEW e \in 0..1, NEW n \in Positions(e)
               PROVE  /\ \A a \in Areas(fDescrList[e][n]) :
                           /\ a \in Ranges
                           /\ \A x \in ToSet(fetchList') \cup check_set : ~Meet(a, x)
                      /\ \A a \in Kept(e, fDescrList[e][n]), x \in ToSet(lsList') : ~Meet(a, x)
    BY <1>1 DEF AreasFree, Positions
  <2>1. /\ \A a \in Areas(fDescrList[e][n]) :
             a \in Ranges /\ \A x \in ToSet(fetchList) \cup check_set : ~Meet(a, x)
        /\ \A a \in Kept(e, fDescrList[e][n]), x \in ToSet(lsList) : ~Meet(a, x)
    BY DEF EngineInv, AreasFree
  <2>2. CASE engine = 1
    <3>1. ToSet(fetchList') = ToSet(fetchList) /\ ToSet(lsList') = ToSet(lsList)
      BY <1>2, <2>2
    <3> QED BY <2>1, <3>1
  <2>3. CASE engine = 0
    <3>1. e = 0
      <4>1. fDescrList[1] = <<>>
        BY <2>3 DEF EngineInv, EngineTypes
      <4>2. CASE e = 1
        BY <4>1, <4>2 DEF Positions
      <4> QED BY <4>2
    <3>2. Kept(e, fDescrList[e][n]) = Areas(fDescrList[e][n])
      BY <3>1 DEF Kept
    <3>3. \A x \in ToSet(fetchList') \cup ToSet(lsList') : x \in free
      BY <1>2, <2>3
    <3>4. \A a \in Areas(fDescrList[e][n]), x \in free : ~Meet(a, x)
      BY <2>1, <3>2
    <3> QED BY <2>1, <3>2, <3>3, <3>4
  <2> QED BY <2>2, <2>3
<1>6. AreasApart' /\ RoutinesApart'
  BY <1>1 DEF EngineInv, AreasApart, RoutinesApart, Positions
<1>7. Chained' /\ StaysInside'
  BY <1>1 DEF EngineInv, Chained, StaysInside, Positions
<1> QED BY <1>1, <1>3, <1>4, <1>5, <1>6, <1>7 DEF EngineInv

\* What has a value and what is printed as data afterwards.
LEMMA FinishFills ==
  ASSUME EngineInv, EngineValued, engine \in 0..1, UpdateFields, check_set' = check_set
  PROVE  /\ EngineValued'
         /\ IsFiniteSet(fLSFillRangeList) => IsFiniteSet(fLSFillRangeList')
         /\ \A c \in fLSFillRangeList' :
              \/ c \in fLSFillRangeList
              \/ \E n \in Positions(engine) : c \in Own(fDescrList[engine][n])
<1>1. /\ engine' = engine + 1 /\ fDescrList' = fDescrList
      /\ fLSFillRangeList' = fLSFillRangeList \cup UNION {Own(t) : t \in ToSet(Descr)}
      /\ fAccessMem' = fAccessMem \cup {Words(t) : t \in ToSet(Descr)}
  BY Zenon DEF UpdateFields, Own, Words
<1>2. /\ Descr \in Seq(TCB) /\ Len(Descr) \in Nat
      /\ \A t \in ToSet(Descr) : t \in TCB /\ \E n \in Positions(engine) : t = fDescrList[engine][n]
  <2>1. Descr \in Seq(TCB)
    BY DEF EngineInv, EngineTypes, Descr
  <2> QED BY <2>1, Elements DEF Positions, Descr
<1>3. EngineValued'
  <2> SUFFICES ASSUME NEW v \in fAccessMem'
               PROVE  /\ v \in Ranges
                      /\ \/ \E c \in check_set : Inside(v, c)
                         \/ \E e \in 0..1 :
                              /\ e < engine + 1
                              /\ \E n \in Positions(e) : Inside(v, Descriptor(fDescrList[e][n]))
    BY <1>1 DEF EngineValued, Positions
  <2>1. CASE v \in fAccessMem
    <3>1. \A e \in 0..1 : e < engine => e < engine + 1
      OBVIOUS
    <3> QED BY <2>1, <3>1 DEF EngineValued
  <2>2. CASE v \in {Words(t) : t \in ToSet(Descr)}
    <3>1. PICK n \in Positions(engine) :
            fDescrList[engine][n] \in TCB /\ v = Words(fDescrList[engine][n])
      BY <1>2, <2>2
    <3>2. v \in Ranges /\ Inside(v, Descriptor(fDescrList[engine][n]))
      BY <3>1, WordsInside
    <3>3. engine < engine + 1
      OBVIOUS
    <3> QED BY <3>1, <3>2, <3>3
  <2> QED BY <1>1, <2>1, <2>2
<1>4. ASSUME IsFiniteSet(fLSFillRangeList) PROVE IsFiniteSet(fLSFillRangeList')
  <2> DEFINE owns == {Own(t) : t \in ToSet(Descr)}
             f == [n \in 1..Len(Descr) |-> Own(Descr[n])]
  <2>1. IsFiniteSet(1..Len(Descr))
    BY <1>2, FS_Interval
  <2>2. f \in Surjection(1..Len(Descr), owns)
    <3>1. /\ \A n \in 1..Len(Descr) : Descr[n] \in ToSet(Descr)
          /\ \A t \in ToSet(Descr) : \E n \in 1..Len(Descr) : t = Descr[n]
      BY <1>2, Elements
    <3> QED BY <3>1 DEF Surjection
  <2>3. IsFiniteSet(owns)
    BY <2>1, <2>2, FS_Surjection
  <2>4. \A S \in owns : IsFiniteSet(S)
    <3> SUFFICES ASSUME NEW t \in ToSet(Descr) PROVE IsFiniteSet(Own(t))
      OBVIOUS
    <3> DEFINE r == <<t.src, t.src + t.max>>
               s == <<t.dst, t.dst + t.max>>
    <3>1. Own(t) = ({r} \cup {s}) \cup {Descriptor(t)}
      BY DEF Own, Data
    <3> HIDE DEF r, s
    <3>2. IsFiniteSet({r} \cup {s})
      BY FS_Singleton, FS_Union
    <3>3. IsFiniteSet({Descriptor(t)})
      BY FS_Singleton
    <3> QED BY ZenonT(60), <3>1, <3>2, <3>3, FS_Union
  <2> HIDE DEF owns
  <2>5. IsFiniteSet(UNION owns)
    BY <2>3, <2>4, FS_UNION
  <2> QED BY <1>1, <1>4, <2>5, FS_Union DEF owns
<1>5. \A c \in fLSFillRangeList' :
        \/ c \in fLSFillRangeList
        \/ \E n \in Positions(engine) : c \in Own(fDescrList[engine][n])
  BY <1>1, <1>2
<1> QED BY <1>3, <1>4, <1>5

\* The first distribution: all the memory that no claim has taken.
LEMMA FirstShares ==
  ASSUME Disjoint(fRangeListForFetch, fRangeListForLS, check_set),
         IsFiniteSet(fRangeListForFetch), IsFiniteSet(fRangeListForLS),
         NEW fetch \in SortedBy(CompareRangeAddr(fRangeListForFetch)),
         NEW ls \in SortedBy(CompareRangeAddr(fRangeListForLS)),
         Redistribute(fetch \o ls), check_set' = check_set,
         engine = 0, engine' = engine,
         fDescrList = [e \in 0..1 |-> <<>>], fDescrList' = fDescrList
  PROVE  EngineInv'
<1>1. /\ fRangeListForFetch \in SUBSET Slot /\ fRangeListForLS \in SUBSET Slot
      /\ \A x, y \in fRangeListForFetch : x = y \/ ~Meet(x, y)
      /\ \A x, y \in fRangeListForLS : x = y \/ ~Meet(x, y)
      /\ \A x \in fRangeListForFetch, y \in fRangeListForLS : ~Meet(x, y)
      /\ check_set \subseteq Ranges
      /\ \A x \in fRangeListForFetch \cup fRangeListForLS, c \in check_set : ~Meet(x, c)
  BY DEF Disjoint, Slot
<1>2. /\ fetch \in Seq(Slot) /\ Spread(fetch) /\ ToSet(fetch) \subseteq fRangeListForFetch
      /\ ls \in Seq(Slot) /\ Spread(ls) /\ ToSet(ls) \subseteq fRangeListForLS
  BY <1>1, SortedSpread
<1> DEFINE all == fetch \o ls
<1>3. /\ all \in Seq(Slot) /\ Spread(all)
      /\ ToSet(all) \subseteq fRangeListForFetch \cup fRangeListForLS
  <2>1. \A x \in ToSet(fetch), y \in ToSet(ls) : ~Meet(x, y)
    BY <1>1, <1>2
  <2>2. all \in Seq(Slot) /\ Spread(all) /\ ToSet(all) = ToSet(fetch) \cup ToSet(ls)
    BY <1>2, <2>1, Joining
  <2> QED BY <1>2, <2>2
<1>4. Redistribute(all)
  OBVIOUS
<1> HIDE DEF all
<1>5. /\ Pool(fetchList', lsList')
      /\ ToSet(fetchList') \subseteq ToSet(all) /\ ToSet(lsList') \subseteq ToSet(all)
  BY <1>3, <1>4, Sharing
<1>6. /\ fDescrList' \in [0..1 -> Seq(TCB)] /\ fDescrList'[1] = <<>>
      /\ \A e \in 0..1 : Positions(e)' = {}
  <2>1. <<>> \in Seq(TCB) /\ Len(<<>>) = 0
    BY EmptySeq
  <2>2. \A e \in 0..1 : fDescrList'[e] = <<>>
    OBVIOUS
  <2> QED BY <2>1, <2>2 DEF Positions
<1>7. EngineTypes'
  BY <1>5, <1>6 DEF EngineTypes
<1>8. PoolUnclaimed'
  <2>1. \A x \in ToSet(fetchList') \cup ToSet(lsList') :
          x \in fRangeListForFetch \cup fRangeListForLS
    BY <1>3, <1>5
  <2> QED BY <1>1, <2>1 DEF PoolUnclaimed
<1>9. AreasFree' /\ AreasApart' /\ RoutinesApart' /\ Chained' /\ StaysInside'
  BY <1>6 DEF AreasFree, AreasApart, RoutinesApart, Chained, StaysInside
<1> QED BY <1>7, <1>8, <1>9 DEF EngineInv
-----------------------------------------------------------------------------
(***************************************************************************)
(* The interrupt vector, for any list of TCBs.                             *)
(***************************************************************************)
\* The routine of a TCB is in the vector when that TCB is done: the routine
\* before it in the list named it, or it is the first.
LEMMA VectorOfList ==
  ASSUME NEW list \in Seq(TCB), NEW n \in 1..Len(list), list[n].isr # 0
  PROVE  Vector(list, n) = list[n].isr
<1> DEFINE isrs == {i \in 1..Len(list) : list[i].isr # 0}
           before == {i \in isrs : i < n}
<1>1. /\ Len(list) \in Nat /\ IsFiniteSet(1..Len(list))
      /\ isrs \in SUBSET (1..Len(list)) /\ n \in isrs
  BY Elements, FS_Interval
<1>2. CASE before = {}
  <2>1. Min(isrs) \in isrs /\ Min(isrs) \in 1..Len(list) /\ \A j \in isrs : Min(isrs) <= j
    <3> HIDE DEF isrs
    <3> QED BY <1>1, LeastPosition
  <2>2. Min(isrs) = n
    <3> HIDE DEF isrs
    <3>1. Min(isrs) <= n /\ ~(Min(isrs) < n)
      BY <1>1, <1>2, <2>1
    <3> QED BY <1>1, <2>1, <3>1
  <2>3. Vector(list, n) = list[Min(isrs)].isr
    BY <1>2, Zenon DEF Vector
  <2> QED BY <2>2, <2>3
<1>3. CASE before # {}
  <2> DEFINE b == Max(before)
             after == {i \in isrs : i > b}
  <2>1. b \in before /\ \A j \in before : b >= j
    <3>1. IsFiniteSet(before) /\ before \subseteq Int
      BY <1>1, FS_Subset
    <3> HIDE DEF before
    <3> QED BY <1>3, <3>1, GreatestNumber
  <2>2. b \in isrs /\ b \in 1..Len(list) /\ b < n
    BY <2>1
  <2> HIDE DEF b
  <2>3. after \in SUBSET (1..Len(list)) /\ n \in after
    BY <1>1, <2>2
  <2>4. Min(after) \in after /\ \A j \in after : Min(after) <= j
    <3> HIDE DEF after
    <3> QED BY <1>1, <2>3, LeastPosition
  <2>5. Min(after) = n
    <3>1. Min(after) <= n
      BY <2>3, <2>4
    <3>2. Min(after) \in isrs /\ Min(after) > b /\ Min(after) \in Nat
      BY <2>4
    <3>3. ~(Min(after) < n)
      BY <2>1, <2>2, <3>2
    <3> HIDE DEF after
    <3> QED BY <1>1, <3>1, <3>2, <3>3
  <2>6. NextISR(list, b) = list[Min(after)].isr
    <3>1. after # {} /\ ~(b \notin isrs /\ b # 1)
      BY <2>2, <2>3
    <3> QED BY <3>1, Zenon DEF NextISR
  <2>7. Vector(list, n) = NextISR(list, b)
    BY <1>3, Zenon DEF Vector, b
  <2> QED BY <2>5, <2>6, <2>7
<1> QED BY <1>2, <1>3
-----------------------------------------------------------------------------
(***************************************************************************)
(* The bytes a transfer touches, whatever strides and counts are drawn.    *)
(***************************************************************************)
LEMMA Monotone ==
  ASSUME NEW a \in Nat, NEW b \in Nat, NEW c \in Nat, a <= b
  PROVE  a * c \in Nat /\ a * c <= b * c /\ c * a = a * c
<1>1. PICK d \in Nat : b = a + d
  <2>1. b - a \in Nat /\ b = a + (b - a)
    OBVIOUS
  <2> QED BY <2>1
<1>2. b * c = a * c + d * c
  BY <1>1
<1>3. d * c \in Nat /\ a * c \in Nat
  OBVIOUS
<1> QED BY <1>2, <1>3

\* The quotient of a division is no larger than what is divided.
LEMMA Quotient ==
  ASSUME NEW m \in Nat, NEW x \in Nat \ {0}
  PROVE  m \div x \in Nat /\ x * (m \div x) <= m /\ m \div x <= m
OBVIOUS

\* Down gives the largest multiple that is not larger.
LEMMA Multiples ==
  ASSUME NEW a \in Nat, NEW s \in Size
  PROVE  /\ Down(a, s) \in Nat /\ Down(a, s) <= a
         /\ \E p \in Nat : Down(a, s) = p * s
         /\ \A j \in Nat : j * s <= a => j * s <= Down(a, s)
<1>1. \A j \in Nat : \A n \in {1, 2, 4, 8} : j * n <= a => j <= a \div n
  OBVIOUS
<1>2. a \div s \in Nat /\ (a \div s) * s <= a
  BY DEF Size
<1>3. \A j \in Nat : j * s <= a => j * s <= (a \div s) * s
  <2> TAKE j \in Nat
  <2> HAVE j * s <= a
  <2>1. j <= a \div s
    BY <1>1 DEF Size
  <2> QED BY <1>2, <2>1, Monotone DEF Size
<1>4. Down(a, s) = (a \div s) * s
  BY DEF Down
<1>5. (a \div s) * s \in Nat
  BY <1>2 DEF Size
<1> QED BY <1>2, <1>3, <1>4, <1>5

\* outer rows, each with inner steps of p units and a last step of q units.
LEMMA Walk ==
  ASSUME NEW m \in Nat, NEW size \in Size, size <= m,
         NEW outer \in Nat \ {0}, NEW inner \in Nat \ {0}, NEW p \in Nat, NEW q \in Nat,
         NEW big \in Nat, NEW small \in Nat,
         inner * (p * size) <= big, q * size <= small, outer * (big + small) <= m
  PROVE  (outer - 1) * (inner * (p * size) - p * size + q * size)
           + (inner - 1) * (p * size) + size <= Down(m, size)
<1> DEFINE u == p * size
           v == q * size
           w == inner * u - u + v
           reach == (outer - 1) * w + (inner - 1) * u + size
           units == (outer - 1) * (inner * p - p + q) + (inner - 1) * p + 1
<1>1. size \in Nat \ {0} /\ u \in Nat /\ v \in Nat
  BY DEF Size
<1>2. inner * p - p \in Nat /\ inner * u - u \in Nat
  BY <1>1
<1>3. units \in Nat
  <2>1. /\ outer - 1 \in Nat /\ inner - 1 \in Nat /\ inner * p - p + q \in Nat
    BY <1>2
  <2> QED BY <2>1
<1>4. reach = units * size
  <2>1. inner * u = (inner * p) * size
    BY <1>1
  <2>2. w = (inner * p - p + q) * size
    BY <1>1, <2>1
  <2>3. (outer - 1) * w = ((outer - 1) * (inner * p - p + q)) * size
    BY <1>1, <1>2, <2>2
  <2>4. (inner - 1) * u = ((inner - 1) * p) * size
    BY <1>1
  <2> QED BY <1>1, <1>2, <2>3, <2>4
<1>5. reach <= m
  <2>1. CASE p = 0 /\ q = 0
    BY <1>1, <2>1
  <2>2. CASE p = 0 /\ q # 0
    <3>1. size <= v /\ u = 0 /\ w = v
      BY <1>1, <2>2
    <3>2. reach <= outer * v
      BY <1>1, <3>1
    <3>3. outer * v <= outer * (big + small)
      BY <1>1, Monotone
    <3> QED BY <1>1, <3>2, <3>3
  <2>3. CASE p # 0
    <3>1. size <= u
      BY <1>1, <2>3
    <3>2. w \in Nat /\ w <= big + small
      BY <1>1, <1>2
    <3>3. (outer - 1) * w <= (outer - 1) * (big + small)
      <4>1. outer - 1 \in Nat /\ big + small \in Nat
        OBVIOUS
      <4> QED BY <3>2, <4>1, Monotone
    <3>4. (inner - 1) * u + size <= big + small
      BY <1>1, <3>1
    <3>5. (outer - 1) * (big + small) + (big + small) = outer * (big + small)
      OBVIOUS
    <3>6. /\ (outer - 1) * w \in Int /\ (inner - 1) * u \in Int
          /\ (outer - 1) * (big + small) \in Int
      BY <1>1, <3>2
    <3> HIDE DEF u, v, w
    <3> QED BY <1>1, <3>3, <3>4, <3>5, <3>6
  <2> QED BY <2>1, <2>2, <2>3
<1> HIDE DEF units, reach
<1>6. reach <= Down(m, size)
  BY <1>3, <1>4, <1>5, Multiples
<1> QED BY <1>6 DEF reach

\* The strides and counts drawn for a transfer reach no byte past its size.
LEMMA ShapesFit ==
  ASSUME NEW t \in TCB, t.size <= t.max, NEW s \in Shapes(t), s.inner > 0
  PROVE  Reach(s, t) <= Down(t.max, t.size)
<1> DEFINE m == t.max
           size == t.size
           firsts == {IF x = 0 THEN 1 ELSE x :
                        x \in {y \in ShapeDraw \cup {m \div 2} :
                                 /\ (IF 8 < m \div 2 THEN 8 ELSE 0) <= y
                                 /\ y <= m \div 2}}
           flat == {[outer |-> 1, out |-> 0, inner |-> x, in |-> Down(m \div x, size)] :
                      x \in firsts}
           Parts(x) == LET long == Max({x, m \div x})
                       IN {[short |-> Min({x, m \div x}),
                            big |-> Max({y, long - y}), small |-> Min({y, long - y})] :
                             y \in {d \in ShapeDraw : d < long}}
           Rows(p) == {[outer |-> p.short, out |-> Down(p.small, size),
                        inner |-> IF d = 0 THEN 0 ELSE p.big \div d,
                        in |-> Down(d, size)] : d \in {e \in ShapeDraw : e < p.big}}
<1>1. m \in Nat \ {0} /\ size \in Size /\ size \in Nat /\ size <= m
  BY DEF TCB, Size
<1>2. \A x \in firsts : x \in Nat \ {0} /\ x <= m
  <2>1. m \div 2 \in Nat /\ m \div 2 <= m
    BY <1>1
  <2> HIDE DEF m, size
  <2> QED BY <1>1, <2>1, DmaAssumption
<1>3. \/ s \in flat
      \/ \E x \in firsts : \E p \in Parts(x) : s \in Rows(p)
  BY ZenonT(60) DEF Shapes
<1>4. Reach(s, t) =
        (s.outer - 1) * (s.inner * s.in - s.in + s.out) + (s.inner - 1) * s.in + size
  BY DEF Reach
<1> HIDE DEF m, size, firsts
<1>5. CASE s \in flat
  <2>1. PICK x \in firsts :
          s = [outer |-> 1, out |-> 0, inner |-> x, in |-> Down(m \div x, size)]
    BY <1>5
  <2>2. x \in Nat \ {0} /\ m \div x \in Nat /\ x * (m \div x) <= m
    BY <1>1, <1>2, Quotient
  <2>3. /\ Down(m \div x, size) \in Nat /\ Down(m \div x, size) <= m \div x
        /\ \E p \in Nat : Down(m \div x, size) = p * size
    BY <1>1, <2>2, Multiples
  <2>4. PICK p \in Nat : Down(m \div x, size) = p * size
    BY <2>3
  <2>5. x * (p * size) <= m
    <3> DEFINE in == p * size
               part == m \div x
    <3>1. in \in Nat /\ part \in Nat /\ in <= part /\ x * part <= m
      BY <2>2, <2>3, <2>4
    <3> HIDE DEF in, part
    <3>2. in * x <= part * x /\ in * x = x * in /\ part * x = x * part
      BY <2>2, <3>1, Monotone
    <3>3. x * in \in Nat /\ x * part \in Nat
      BY <2>2, <3>1
    <3>4. x * in <= m
      BY <1>1, <3>1, <3>2, <3>3
    <3> QED BY <3>4 DEF in
  <2>6. /\ 0 \in Nat /\ 1 \in Nat \ {0} /\ 0 * size <= 0 /\ 1 * (m + 0) <= m
    BY <1>1
  <2>7. (1 - 1) * (x * (p * size) - p * size + 0 * size) + (x - 1) * (p * size) + size
          <= Down(m, size)
    BY <1>1, <2>2, <2>5, <2>6, Walk
  <2>8. 0 * size = 0
    BY <1>1
  <2> QED BY <1>4, <2>1, <2>4, <2>7, <2>8 DEF m, size
<1>6. CASE \E x \in firsts : \E p \in Parts(x) : s \in Rows(p)
  <2>1. PICK x \in firsts : \E p \in Parts(x) : s \in Rows(p)
    BY <1>6
  <2> DEFINE long == Max({x, m \div x})
             short == Min({x, m \div x})
  <2>2. PICK y \in {d \in ShapeDraw : d < long} :
          s \in Rows([short |-> short, big |-> Max({y, long - y}),
                      small |-> Min({y, long - y})])
    BY <2>1
  <2> DEFINE big == Max({y, long - y})
             small == Min({y, long - y})
  <2>3. PICK d \in {e \in ShapeDraw : e < big} :
          s = [outer |-> short, out |-> Down(small, size),
               inner |-> IF d = 0 THEN 0 ELSE big \div d, in |-> Down(d, size)]
    BY <2>2
  <2>4. /\ x \in Nat \ {0} /\ m \div x \in Nat \ {0} /\ x * (m \div x) <= m
    <3>1. x \in Nat \ {0} /\ x <= m
      BY <1>2
    <3>2. m \div x \in Nat /\ x * (m \div x) <= m
      BY <1>1, <3>1, Quotient
    <3>3. m \div x # 0
      BY <1>1, <3>1
    <3> QED BY <3>1, <3>2, <3>3
  <2>5. /\ short \in Nat \ {0} /\ long \in Nat /\ short * long = x * (m \div x)
    <3>1. \/ Min({x, m \div x}) = x /\ Max({x, m \div x}) = m \div x
          \/ Min({x, m \div x}) = m \div x /\ Max({x, m \div x}) = x
      <4>1. PICK b \in Nat : b = m \div x
        BY <2>4
      <4>2. x \in Nat
        BY <2>4
      <4> QED BY <4>1, <4>2, PairOrder
    <3>2. /\ short = Min({x, m \div x}) /\ long = Max({x, m \div x})
      OBVIOUS
    <3> HIDE DEF short, long
    <3>3. \/ short = x /\ long = m \div x
          \/ short = m \div x /\ long = x
      BY <3>1, <3>2
    <3>4. x * (m \div x) = (m \div x) * x
      BY <2>4
    <3> QED BY <2>4, <3>3, <3>4
  <2> HIDE DEF long, short
  <2>6. y \in Nat /\ y < long /\ long - y \in Nat
    BY <2>2, <2>5, DmaAssumption
  <2>7. big \in Nat /\ small \in Nat /\ big + small = long
    <3>1. \/ Min({y, long - y}) = y /\ Max({y, long - y}) = long - y
          \/ Min({y, long - y}) = long - y /\ Max({y, long - y}) = y
      <4>1. PICK b \in Nat : b = long - y
        BY <2>6
      <4>2. y \in Nat
        BY <2>6
      <4> QED BY <4>1, <4>2, PairOrder
    <3>2. small = Min({y, long - y}) /\ big = Max({y, long - y})
      OBVIOUS
    <3> HIDE DEF small, big
    <3> QED BY <2>5, <2>6, <3>1, <3>2
  <2> HIDE DEF big, small
  <2>8. d \in Nat \ {0} /\ big \div d \in Nat \ {0} /\ d * (big \div d) <= big
    <3>1. d \in Nat /\ d # 0 /\ big \div d > 0
      BY <2>3, DmaAssumption
    <3>2. big \div d \in Nat /\ d * (big \div d) <= big
      BY <2>7, <3>1, Quotient
    <3> QED BY <3>1, <3>2
  <2>9. /\ Down(d, size) \in Nat /\ Down(d, size) <= d
        /\ \E p \in Nat : Down(d, size) = p * size
    BY <1>1, <2>8, Multiples
  <2>10. PICK p \in Nat : Down(d, size) = p * size
    BY <2>9
  <2>11. /\ Down(small, size) \in Nat /\ Down(small, size) <= small
         /\ \E q \in Nat : Down(small, size) = q * size
    BY <1>1, <2>7, Multiples
  <2>12. PICK q \in Nat : Down(small, size) = q * size
    BY <2>11
  <2> DEFINE inner == big \div d
  <2>13. inner * (p * size) <= big
    <3> DEFINE in == p * size
    <3>1. in \in Nat /\ in <= d
      BY <2>9, <2>10
    <3>2. inner \in Nat /\ d * inner <= big
      BY <2>8
    <3> HIDE DEF in, inner
    <3>3. in * inner <= d * inner /\ in * inner = inner * in
      BY <2>8, <3>1, <3>2, Monotone
    <3>4. in * inner \in Nat /\ d * inner \in Nat
      BY <2>8, <3>1, <3>2
    <3>5. inner * in <= big
      BY <2>7, <3>2, <3>3, <3>4
    <3> QED BY <3>5 DEF in
  <2>14. q * size <= small /\ short * (big + small) <= m
    BY <2>4, <2>5, <2>7, <2>11, <2>12
  <2>15. inner \in Nat \ {0}
    BY <2>8
  <2> HIDE DEF inner
  <2>16. (short - 1) * (inner * (p * size) - p * size + q * size)
           + (inner - 1) * (p * size) + size <= Down(m, size)
    BY <1>1, <2>5, <2>7, <2>13, <2>14, <2>15, Walk
  <2>17. s.outer = short /\ s.out = q * size /\ s.inner = inner /\ s.in = p * size
    BY <2>3, <2>8, <2>10, <2>12 DEF inner
  <2>18. Reach(s, t) <= Down(m, size)
    BY <1>4, <2>16, <2>17
  <2> QED BY <2>18 DEF m, size
<1> QED BY <1>3, <1>5, <1>6
=============================================================================

----------------------------- MODULE DmaEngine ------------------------------
(***************************************************************************)
(* The DMA transfers of a generated test (igen/dma.h, GenerateDescrList).  *)
(*                                                                         *)
(* After the program and its interrupt routines, engine 0 and then engine  *)
(* 1 share the memory that is left out anew between data and code and      *)
(* build each a list of descriptors (TCBs).  One TCB takes two data ranges *)
(* for a transfer and one code range for the descriptor itself; the TCB    *)
(* before it is chained to it, or starts it from an interrupt routine that *)
(* takes another code range.                                               *)
(***************************************************************************)
EXTENDS MemManager, Integers, SequencesExt

CONSTANTS
  EXT_MEM_START, MAX_CHAIN_ADDRESS,
  MAX_ALLOWED_DMA_TRAN_SIZE_INGEN,
  ShapeDraw      \* bound: the numbers a random stride is drawn from

\* A descriptor or an interrupt routine, aligned, fits where a routine does,
\* and a transfer may move eight bytes.
ASSUME DmaAssumption ==
  /\ MAX_SUB_ROUTINE_SIZE >= 33
  /\ MAX_CHAIN_ADDRESS \in Nat
  /\ MAX_ALLOWED_DMA_TRAN_SIZE_INGEN \in Nat /\ MAX_ALLOWED_DMA_TRAN_SIZE_INGEN >= 8
  /\ ShapeDraw \subseteq Nat

VARIABLES
  engine,            \* 0, 1, or 2 when both are generated
  collecting,        \* ~endOfTCBgen
  fetchList, lsList, \* the free ranges, as the engines order them
  fDescrList         \* per engine

dmaVars == <<engine, collecting, fetchList, lsList, fDescrList>>

\* The orders a sort may leave the domain of key in: what has the smaller key
\* comes first, and what has the same key in any turn.
SortedBy(key) ==
  LET S == DOMAIN key
      tied == {r \in S : \E s \in S : s # r /\ key[s] = key[r]}
      turns == {t \in [tied -> 1..Cardinality(tied)] : IsInjective(t)}
      Before(r, t) ==
        {s \in S : \/ key[s] < key[r]
                   \/ key[s] = key[r] /\ s # r /\ t[s] < t[r]}
      Ranked(t) == {<<Cardinality(Before(r, t)) + 1, r>> : r \in S}
  IN {[i \in 1..Cardinality(S) |-> (CHOOSE p \in ranked : p[1] = i)[2]] :
        ranked \in {Ranked(t) : t \in turns}}

\* What they compare.
CompareRangeAddr(S) == [r \in S |-> r[1]]
CompareRangeSize(S) == [r \in S |-> r[2] - r[1]]

DmaInit ==
  /\ engine = 0 /\ collecting = FALSE
  /\ fetchList = <<>> /\ lsList = <<>>
  /\ fDescrList = [e \in 0..1 |-> <<>>]
-----------------------------------------------------------------------------
Places(q, parity) == {q[i] : i \in {j \in 1..Len(q) : j % 2 = parity}}

\* The free ranges go to code and to data in turn, starting with code.
Redistribute(all) ==
  /\ fetchList' \in SortedBy(CompareRangeAddr(Places(all, 1)))
  /\ lsList' \in SortedBy(CompareRangeSize(Places(all, 0)))

Internal(r) == r[1] < EXT_MEM_START
External(r) == ~Internal(r)
\* Bits 31..29 and 25..23: the chip or the host the range lies in.
Site(r) == <<r[1] \div 2^29, (r[1] \div 2^23) % 8>>
First(q, Test(_)) ==
  LET i == SelectInSeq(q, Test) IN IF i = 0 THEN {} ELSE {q[i]}

\* The two ranges of the next transfer, an internal and an external one or
\* two external ones of different sites, and what is left; a range found in
\* vain is lost.
Pair ==
  LET int  == First(lsList, Internal)
      q1   == RemoveFirstMatch(lsList, Internal)
      ext  == First(q1, External)
      q2   == RemoveFirstMatch(q1, External)
      Elsewhere(r) == External(r) /\ \A e \in ext : Site(r) # Site(e)
      ext2 == IF int = {} /\ ext # {} THEN First(q2, Elsewhere) ELSE {}
  IN [one |-> int \cup ext2, two |-> ext, internal |-> int # {},
      rest |-> IF ext2 = {} THEN q2 ELSE RemoveFirstMatch(q2, Elsewhere)]

Down(a, s) == (a \div s) * s
Aligned(a, s) == IF s = 1 THEN a ELSE Down(a, s) + s
Length(r) == r[2] - r[1]

\* Mutant: nothing is kept for the alignment.
MaxSize_Whole(r, s) ==
  Min({Length(r), Length(s), MAX_ALLOWED_DMA_TRAN_SIZE_INGEN})

\* fMaxSizeInBytes
MaxSize(r, s) ==
  Min({Length(r) - 8, Length(s) - 8, MAX_ALLOWED_DMA_TRAN_SIZE_INGEN})

\* Mutant: engine 0 gives its ranges back, too.
Reusable_Both(message) == message
\* In message mode engine 1 may use the ranges again.
Reusable(message) == message /\ engine = 1

DescriptorAt(r) == Down(r[1], 8) + 8

\* How the TCB before the new one goes on: chained to it, or with an interrupt
\* routine, or not at all.
Links(g, list) ==
  {"chained"}
    \cup (IF g.inter /\ list # <<>> THEN {"isr"} ELSE {})
    \cup (IF engine = 1 /\ (list # <<>> \/ ~g.inter) THEN {} ELSE {"last"})

ISRAddress(r) == 2 + Down(r[1], 2)
Descr == fDescrList[engine]

\* The TCBs when t is added after a link of kind k.
Linked(t, k, isr) ==
  IF Descr = <<>> THEN <<t>>
  ELSE Append([Descr EXCEPT ![Len(Descr)] =
                 [@ EXCEPT !.link = k, !.isr = isr, !.next = t.loc]], t)

\* Mutant: a TCB is added after one that ends the list.
Adds_Last(t, k) == t.loc < MAX_CHAIN_ADDRESS

\* ~endOfTCBgen after the link of the TCB before.
Adds(t, k) == t.loc < MAX_CHAIN_ADDRESS /\ (Descr = <<>> \/ k # "last")

Low(r) == r[1] < MAX_CHAIN_ADDRESS

\* The transfers between the ranges one and two, in either direction, with a
\* descriptor in the code range at place low.
NewTCBs(one, two, sizes, low) ==
  {[src |-> Aligned(r[1][1], size), dst |-> Aligned(r[2][1], size),
    size |-> size, max |-> MaxSize(one, two), from |-> r[1], to |-> r[2],
    loc |-> IF low = 0 THEN MAX_CHAIN_ADDRESS ELSE DescriptorAt(fetchList[low]),
    link |-> "last", isr |-> 0, next |-> 0] :
      r \in {<<one, two>>, <<two, one>>}, size \in sizes}

\* One round of the loop with the ranges of p; code is left for a routine.
NextTCB(g, p, one, two, low, code) ==
  \E t \in NewTCBs(one, two, g.sizes, low), message \in BOOLEAN, k \in Links(g, code) :
    LET routine == k = "isr" /\ Descr # <<>> /\ t.loc < MAX_CHAIN_ADDRESS IN
    /\ message => t.from = two /\ p.internal
    /\ lsList' = IF Reusable(message) THEN p.rest \o <<two, one>> ELSE p.rest
    /\ fetchList' = IF routine THEN Front(code) ELSE code
    /\ collecting' = Adds(t, k)
    /\ fDescrList' =
         [fDescrList EXCEPT ![engine] =
            IF ~Adds(t, k) THEN @
            ELSE Linked(t, k, IF routine THEN ISRAddress(Last(code)) ELSE 0)]
    /\ failed' = IF Min({Length(one), Length(two)}) < 8 THEN "dma_range" ELSE failed

\* The body of the loop of GenerateDescrList.
AllocateTCB(g) ==
  /\ collecting /\ lsList # <<>> /\ fetchList # <<>>
  /\ \E p \in {Pair}, low \in {SelectInSeq(fetchList, Low)} :
       IF p.one = {} \/ p.two = {}
       THEN /\ lsList' = p.rest /\ collecting' = FALSE
            /\ UNCHANGED <<fetchList, fDescrList, failed>>
       ELSE \E one \in p.one, two \in p.two :
              NextTCB(g, p, one, two, low,
                      IF low = 0 THEN fetchList ELSE RemoveAt(fetchList, low))
  /\ UNCHANGED engine
-----------------------------------------------------------------------------
Data(t) == {<<t.src, t.src + t.max>>, <<t.dst, t.dst + t.max>>}
Descriptor(t) == <<t.loc, t.loc + 24>>

\* The pass over the finished list: sections for the data and the descriptors,
\* and the six words of each descriptor; then the other engine starts.
UpdateFields ==
  LET words == {<<t.loc, t.loc + 23>> : t \in ToSet(Descr)} IN
  /\ collecting => lsList = <<>> \/ fetchList = <<>>
  /\ fLSFillRangeList' = fLSFillRangeList
       \cup UNION {Data(t) \cup {Descriptor(t)} : t \in ToSet(Descr)}
  /\ fAccessMem' = fAccessMem \cup words
  /\ failed' = IF \/ Cardinality(words) < Len(Descr)
                  \/ ~AllApart(words)
                  \/ \E w \in words, b \in fAccessMem : Meet(w, b)
               THEN "set_twice" ELSE failed
  /\ engine' = engine + 1 /\ collecting' = (engine = 0)
  /\ IF engine = 0 THEN Redistribute(fetchList \o lsList)
     ELSE UNCHANGED <<fetchList, lsList>>
  /\ UNCHANGED fDescrList

TCBs(e) == ToSet(fDescrList[e])

\* Mutant: a routine puts itself into the vector again.
NextISR_Own(list, n) == list[n].isr

\* fNextISRAddr of the n-th TCB: each interrupt routine, and the first TCB
\* until it is known whether it has one, names the routine after it.
NextISR(list, n) ==
  LET isrs == {i \in 1..Len(list) : list[i].isr # 0}
      after == {i \in isrs : i > n}
  IN IF n \notin isrs /\ n # 1 THEN 0
     ELSE IF after # {} THEN list[Min(after)].isr
     ELSE IF n = 1 /\ n \in isrs THEN list[n].isr
     ELSE 0

\* What the vector holds when the n-th TCB of the list is done: it starts with
\* the first routine, and a routine that names another one replaces itself.
Vector(list, n) ==
  LET isrs == {i \in 1..Len(list) : list[i].isr # 0}
      before == {i \in isrs : i < n}
  IN IF before = {} THEN list[Min(isrs)].isr ELSE NextISR(list, Max(before))
-----------------------------------------------------------------------------
\* The strides and counts a transfer of max bytes may get: in one dimension,
\* and in two when the TCB has a successor.
Shapes(t) ==
  LET m == t.max
      firsts == {IF x = 0 THEN 1 ELSE x :
                   x \in {y \in ShapeDraw \cup {m \div 2} :
                            /\ (IF 8 < m \div 2 THEN 8 ELSE 0) <= y
                            /\ y <= m \div 2}}
      flat == {[outer |-> 1, out |-> 0, inner |-> x, in |-> Down(m \div x, t.size)] :
                 x \in firsts}
      Split(x) == LET long == Max({x, m \div x})
                  IN {[short |-> Min({x, m \div x}),
                       big |-> Max({y, long - y}), small |-> Min({y, long - y})] :
                        y \in {d \in ShapeDraw : d < long}}
      Rows(p) == {[outer |-> p.short, out |-> Down(p.small, t.size),
                   inner |-> IF s = 0 THEN 0 ELSE p.big \div s,
                   in |-> Down(s, t.size)] : s \in {d \in ShapeDraw : d < p.big}}
  IN flat \cup (IF t.next = 0 THEN {}
                ELSE UNION {Rows(p) : p \in UNION {Split(x) : x \in firsts}})

\* The farthest byte offset SimulateDMA touches from the start address.
Reach(s, t) ==
  (s.outer - 1) * (s.inner * s.in - s.in + s.out) + (s.inner - 1) * s.in + t.size
=============================================================================

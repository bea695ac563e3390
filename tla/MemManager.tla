----------------------------- MODULE MemManager -----------------------------
(***************************************************************************)
(* The memory allocator of the program generator (igen/mem_manager.h).     *)
(*                                                                         *)
(* The memory a test may use is a list of address ranges, some for code    *)
(* (Fetch) and some for data (LS).  A client claims a piece of a free      *)
(* range; what is left of the range on either side stays free only when    *)
(* another routine would still fit there.  A load that cannot disturb      *)
(* anything may use free data memory without claiming it.  At the end the  *)
(* data sections are merged and printed.  A range is <<first, second>>.    *)
(***************************************************************************)
EXTENDS Naturals, Sequences, FiniteSets

CONSTANTS
  MAX_SUB_ROUTINE_SIZE,
  LS_MIN_BUFFER_SIZE,
  Initial   \* the pairs <<fetch, ls>> of lists the range file may give

ASSUME SizeAssumption ==
  /\ MAX_SUB_ROUTINE_SIZE \in Nat
  /\ LS_MIN_BUFFER_SIZE \in Nat /\ LS_MIN_BUFFER_SIZE >= 7

MemRange == Nat \X Nat

\* The addresses a claim covers, and whether two of them meet.
Meet(r, s) == r[1] <= s[2] /\ s[1] <= r[2]
Apart(r, s) == r = s \/ ~Meet(r, s)
AllApart(S) == \A r, s \in S : Apart(r, s)

\* A routine, aligned or not, fits in the range.
Roomy(r) == r[1] + MAX_SUB_ROUTINE_SIZE < r[2]

\* ReadInitialRangesList stops the program when ranges overlap, and keeps the
\* first for code; that each is large enough is up to the file.
ASSUME InitialAssumption ==
  \A m \in Initial :
    /\ m[1] \subseteq MemRange /\ m[2] \subseteq MemRange
    /\ m[1] = {} => m[2] = {}
    /\ \A r \in m[1] \cup m[2] : Roomy(r)
    /\ AllApart(m[1] \cup m[2])
    /\ m[1] \cap m[2] = {}

VARIABLES
  fRangeListForFetch, fRangeListForLS,   \* the free ranges, as sets
  check_set,             \* the ranges ever claimed
  fLSFillRangeList,      \* the data sections
  fLoadNotSafeRangeList, \* the data sections nobody claims
  fAccessMem,            \* the ranges of data given a value
  failed                 \* the assertion that failed, or "no"

memVars == <<fRangeListForFetch, fRangeListForLS, check_set, fLSFillRangeList,
             fLoadNotSafeRangeList, fAccessMem, failed>>
-----------------------------------------------------------------------------
\* GetRangeIndex: the free range r has room for g.
Fits(r, g) == r[1] <= g[1] /\ g[2] < r[2]

\* Mutant: a part is kept when it is one byte too short.
Leftover_Short(r, g) ==
  {s \in {<<r[1], g[1] - 1>>, <<g[2] + 1, r[2]>>} :
     s[2] >= s[1] + MAX_SUB_ROUTINE_SIZE}

\* Mutant: the right part starts at the last byte of what was claimed.
Leftover_Shared(r, g) ==
  {s \in {<<r[1], g[1] - 1>>, <<g[2], r[2]>>} :
     s[2] > s[1] + MAX_SUB_ROUTINE_SIZE}

\* What stays free of r; the code compares g[1] - r[1] and r[2] - g[2] with
\* MAX_SUB_ROUTINE_SIZE + 1.
Leftover(r, g) ==
  {s \in {<<r[1], g[1] - 1>>, <<g[2] + 1, r[2]>>} :
     s[2] > s[1] + MAX_SUB_ROUTINE_SIZE}

\* The assertion of RemoveUpdateRange, that no byte is claimed twice, and
\* that of SetMem, that the bytes of b have no value yet.
Failing(g, b) ==
  IF \E c \in check_set : Meet(c, g) THEN "claimed_twice"
  ELSE IF \E d \in fAccessMem, c \in b : Meet(c, d) THEN "set_twice"
  ELSE failed

\* Mutant: the range is used but stays free.
Remaining_All(free, r, g) == free

\* RemoveUpdateRange: what stays free when g is taken from r.
Remaining(free, r, g) == (free \ {r}) \cup Leftover(r, g)

ClaimFetch(g) ==
  \E r \in fRangeListForFetch :
    /\ Fits(r, g)
    /\ fRangeListForFetch' = Remaining(fRangeListForFetch, r, g)
    /\ check_set' = check_set \cup {g}
    /\ failed' = Failing(g, {})
    /\ UNCHANGED <<fRangeListForLS, fLSFillRangeList, fLoadNotSafeRangeList,
                   fAccessMem>>

\* Where a load or a store at address a may go.
Buffer(a) == <<a, a + LS_MIN_BUFFER_SIZE>>

\* RemoveUpdateRangeLS and AddLoadStoreSection; a load also gives its eight
\* bytes a value.
ClaimLS(a, isLoad) ==
  LET bytes == IF isLoad THEN {<<a, a + 7>>} ELSE {} IN
  \E r \in fRangeListForLS :
    /\ Fits(r, Buffer(a))
    /\ fRangeListForLS' = Remaining(fRangeListForLS, r, Buffer(a))
    /\ check_set' = check_set \cup {Buffer(a)}
    /\ fLSFillRangeList' = fLSFillRangeList \cup {Buffer(a)}
    /\ fAccessMem' = fAccessMem \cup bytes
    /\ failed' = Failing(Buffer(a), bytes)
    /\ UNCHANGED <<fRangeListForFetch, fLoadNotSafeRangeList>>

\* AddLoadMultiUseRange
AddLoadMultiUseRange(a) ==
  /\ \E r \in fRangeListForLS : Fits(r, Buffer(a))
  /\ fLoadNotSafeRangeList' = fLoadNotSafeRangeList \cup {Buffer(a)}
  /\ UNCHANGED <<fRangeListForFetch, fRangeListForLS, check_set,
                 fLSFillRangeList, fAccessMem, failed>>
-----------------------------------------------------------------------------
MemInit ==
  /\ \E m \in Initial : fRangeListForFetch = m[1] /\ fRangeListForLS = m[2]
  /\ check_set = {} /\ fLSFillRangeList = {}
  /\ fLoadNotSafeRangeList = {} /\ fAccessMem = {}
  /\ failed = "no"

\* What the instructions of a test do with the memory, in any order.
MemNext ==
  \/ \E f \in Nat : ClaimFetch(<<f, f + MAX_SUB_ROUTINE_SIZE>>)
  \/ \E a \in Nat, isLoad \in BOOLEAN : ClaimLS(a, isLoad)
  \/ \E a \in Nat : AddLoadMultiUseRange(a)

MemSpec == MemInit /\ [][MemNext]_memVars
-----------------------------------------------------------------------------
Free == fRangeListForFetch \cup fRangeListForLS

\* The assertions of RemoveUpdateRange and of SetMem hold: a byte is handed
\* out once, and given a value once.
AssertionsHold == failed \notin {"claimed_twice", "set_twice"}

\* What is free was never claimed, and no two free ranges meet: the ranges
\* that RemoveUpdateRange keeps differ from the claim by one byte only.
FreeIsUnclaimed ==
  /\ AllApart(Free)
  /\ fRangeListForFetch \cap fRangeListForLS = {}
  /\ \A r \in Free, c \in check_set : ~Meet(r, c)

\* A routine fits in every free range, so the constraint that GetGenRange
\* solves has a solution.
FreeIsRoomy == \A r \in Free : Roomy(r)

\* No two claims meet, of code or of data, and a load that claims nothing
\* reads no byte of the code.
ClaimsApart ==
  /\ AllApart(check_set)
  /\ \A s \in fLoadNotSafeRangeList, c \in check_set :
       c \in fLSFillRangeList \/ ~Meet(s, c)

MemoryOK == AssertionsHold /\ FreeIsUnclaimed /\ FreeIsRoomy /\ ClaimsApart
=============================================================================

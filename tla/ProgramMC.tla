----------------------------- MODULE ProgramMC ------------------------------
(***************************************************************************)
(* Small memories and command lines of Program for TLC.  The sizes are     *)
(* those of the code; the ranges are short, so that one or two routines    *)
(* use each of them up.                                                    *)
(***************************************************************************)
EXTENDS Program

\* A range with room for one routine, at two addresses, and one with room for
\* two or three, if those before leave a part that is just long enough.
One(a) == <<a, a + 258>>
Two(a) == <<a, a + 515>>
Three(a) == <<a, a + 772>>
Far(n) == n * 2^23

\* Code at an odd and at an even start, and out of reach of a label.
Near == <<{One(1025), Two(2048), One(Far(1) + 3 * 2^20)}, {<<4096, 4096 + 290>>}>>
\* Memory that two branches use up, the second from within a routine.
TwoRooms == <<{One(1024), One(2048)}, {<<4096, 4096 + 290>>}>>
\* A range file without a range.
Dry == <<{}, {}>>
\* Memory that the first branch uses up.
Small == <<{One(1026)}, {<<4096, 4096 + 290>>}>>
\* Code for descriptors and routines; data inside and outside the chip.
Wide == <<{One(1025), One(2048), One(3072), One(5120)},
          {<<8192, 8192 + 275>>, <<Far(1), Far(1) + 300>>, <<Far(2), Far(2) + 400>>}>>
\* Three transfers, each with an interrupt routine; the code of the program
\* fits exactly.
Sized(a, n) == <<a, a + 300 - 2 * n>>
Long == <<{Three(1024)},
          {Sized(n * 1024, n) : n \in 4..9} \cup {Sized(Far(n), 9 + n) : n \in 1..6}>>
\* Two transfers, the second of which has its routine at Far(7).
Mixed == <<{Three(1024)},
           {Sized(n * 1024, n) : n \in {4, 5, 6, 7, 8}}
             \cup {Sized(Far(n), 9 + n) : n \in {1, 7, 8}}>>

MCInitial == {Near, Dry, TwoRooms, Small, Wide, Long, Mixed}

Simple == [dma |-> FALSE, inter |-> FALSE, fp |-> FALSE, hw |-> FALSE,
           maxSub |-> 1, memory |-> Near,
           offsets |-> {0}, data |-> {4096, 4113}, pauses |-> {},
           sizes |-> {1, 8}]

MCOptions == {
  [Simple EXCEPT !.maxSub = 3, !.pauses = {220}],
  [Simple EXCEPT !.maxSub = 2, !.inter = TRUE, !.offsets = {0, 1}],
  [Simple EXCEPT !.inter = TRUE, !.memory = Small],
  [Simple EXCEPT !.inter = TRUE, !.memory = Dry],
  [Simple EXCEPT !.fp = TRUE],
  [Simple EXCEPT !.hw = TRUE, !.maxSub = 2, !.inter = TRUE],
  [Simple EXCEPT !.hw = TRUE, !.maxSub = 2, !.memory = TwoRooms, !.pauses = {4}],
  [Simple EXCEPT !.dma = TRUE, !.memory = Wide, !.data = {8192},
     !.sizes = {1, 2, 4, 8}],
  [Simple EXCEPT !.dma = TRUE, !.inter = TRUE, !.memory = Long, !.data = {}],
  [Simple EXCEPT !.dma = TRUE, !.inter = TRUE, !.memory = Mixed, !.data = {Far(7)}]}
=============================================================================

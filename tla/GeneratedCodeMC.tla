--------------------------- MODULE GeneratedCodeMC ----------------------------
(***************************************************************************)
(* Instructions for TLC, some of each kind: known and unknown results, the *)
(* operands among the destinations or a pointer, conditions that are known *)
(* to hold, known not to hold, and not known.                              *)
(***************************************************************************)
EXTENDS GeneratedCode

Imm(rd, v) == [op |-> "MOV_IMM", rd |-> rd, val |-> v]
Reg(cond, rd, rn) == [op |-> "MOV_REG", cond |-> cond, rd |-> rd, rn |-> rn]
Data(rd, rn, rm) == [op |-> "DATA_P", rd |-> rd, rn |-> rn, rm |-> rm]
Read(rd) == [op |-> "READ", rd |-> rd]
Load(rd, rn) == [op |-> "POSTMOD", rd |-> rd, rn |-> rn, val |-> 0]

\* Register 5 is a pointer, or the loop register, which is not known.
Body == {Imm(0, 1), Data(2, 5, 5), Data(0, 0, 5), Reg("EQ", 0, 5),
         Reg("NE", 0, 5), Read(0), Load(2, 0)}
ISRBody == {Data(2, 0, 1)}

\* For an interrupt routine that changes whatever it may.
OneMove == {Imm(0, 1)}
AllMoves == {Imm(2, 1), Imm(3, 1), Imm(4, 1)}
=============================================================================

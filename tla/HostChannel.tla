---------------------------- MODULE HostChannel ----------------------------
(***************************************************************************)
(* What one host port of the testbench promises to the rest of the         *)
(* environment, with no queue, no thread and no clock: transactions of two *)
(* classes are submitted, then committed one at a time, then accepted by   *)
(* the chip.  "reg" transactions come from a stimulus file, the monitor or *)
(* the debugger; "wb" transactions carry the data the chip asked for.      *)
(*                                                                         *)
(* The promise: nothing is lost, repeated or reordered within a class, at  *)
(* most one transaction is under way, and requested data goes first - a    *)
(* regular transaction is committed only when no answer is waiting, except *)
(* a write to an ILAT register, which answers do not overtake.             *)
(*                                                                         *)
(* HostPort implements this specification.                                 *)
(***************************************************************************)
EXTENDS Naturals, Sequences

CONSTANT Kind

VARIABLES
  sub,      \* how many transactions of each class have been submitted
  com,      \* how many of them the port has committed to
  acc,      \* how many of them the chip has accepted
  regKind   \* the kind of every regular transaction, in submission order

vars == <<sub, com, acc, regKind>>

Class == {"reg", "wb"}

Init ==
  /\ regKind \in Seq(Kind)
  /\ sub = [c \in Class |-> IF c = "reg" THEN Len(regKind) ELSE 0]
  /\ com = [c \in Class |-> 0]
  /\ acc = [c \in Class |-> 0]

\* One or more regular transactions, at the end of those already there.
Submit ==
  /\ regKind' \in Seq(Kind)
  /\ Len(regKind') > Len(regKind)
  /\ SubSeq(regKind', 1, Len(regKind)) = regKind
  /\ sub' = [sub EXCEPT !["reg"] = Len(regKind')]
  /\ UNCHANGED <<com, acc>>

Answer ==
  /\ sub' = [sub EXCEPT !["wb"] = @ + 1]
  /\ UNCHANGED <<com, acc, regKind>>

Commit(c) ==
  /\ com = acc
  /\ com[c] < sub[c]
  /\ c = "reg" => \/ com["wb"] = sub["wb"]
                  \/ regKind[com["reg"] + 1] = "ilat"
  /\ com' = [com EXCEPT ![c] = @ + 1]
  /\ UNCHANGED <<sub, acc, regKind>>

Accept(c) ==
  /\ acc[c] < com[c]
  /\ acc' = [acc EXCEPT ![c] = @ + 1]
  /\ UNCHANGED <<sub, com, regKind>>

Next ==
  \/ Submit
  \/ Answer
  \/ \E c \in Class : Commit(c) \/ Accept(c)

Spec == Init /\ [][Next]_vars
=============================================================================

---------------------------- MODULE DecisionLedger ----------------------------
(***************************************************************************)
(* What the formal decisions of one case promise, whoever writes them      *)
(* (docs/governance.md): an append-only history, in which every decision   *)
(* supersedes the one that was current when it was written, no machine     *)
(* decision supersedes a human one, and the pointer to the current         *)
(* decision moves to the new decision or back to a machine decision.       *)
(***************************************************************************)
EXTENDS Naturals, Sequences

VARIABLES
  ledger,   \* the decisions of the case, oldest first
  pointer   \* position of the current decision, 0 before the first one

Source == {"MACHINE", "HUMAN"}

Init == ledger = <<>> /\ pointer = 0

CurrentIsHuman == pointer # 0 /\ ledger[pointer].source = "HUMAN"

Decide(source) ==
  /\ source = "MACHINE" => ~CurrentIsHuman
  /\ source = "HUMAN" => pointer # 0
  /\ ledger' = Append(ledger, [source |-> source, supersedes |-> pointer])
  /\ pointer' = Len(ledger) + 1

Reinstate ==
  \E i \in 1 .. Len(ledger) :
    /\ ledger[i].source = "MACHINE"
    /\ pointer' = i
    /\ UNCHANGED ledger

Next == (\E source \in Source : Decide(source)) \/ Reinstate

Spec == Init /\ [][Next]_<<ledger, pointer>>

=============================================================================

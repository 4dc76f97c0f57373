---------------------------- MODULE MCCaseVerdict ----------------------------
(* A small instance of CaseVerdict for TLC: a requirement of the context of  *)
(* a time, whose request finds OCR too that it does not allow, one of text,  *)
(* which does allow it, and a policy for each way the second may count.      *)
EXTENDS CaseVerdict, TLC

MCKeyOf == [q \in {"context", "text"} |-> IF q = "context" THEN "r1" ELSE "r2"]
MCAllowed == [key \in {"r1", "r2"} |-> IF key = "r1" THEN {"vision"} ELSE {"ocr"}]
MCItems == [q \in {"context", "text"} |-> IF q = "context" THEN {"vision", "ocr"} ELSE {"ocr"}]

For(source) == [stance |-> "SUPPORT", sure |-> TRUE, source |-> source]
Against(source) == [stance |-> "CONTRADICT", sure |-> TRUE, source |-> source]
Hint == [stance |-> "CONTRADICT", sure |-> FALSE, source |-> "vision"]

MCOutputs == {{For("vision")}, {For("vision"), Hint},
              {For("ocr")}, {Against("ocr")}}

AllOf(leaves, nested) == [op |-> "all", leaves |-> leaves, nested |-> nested]
AnyLeaf(leaves) == [op |-> "any", leaves |-> leaves, nested |-> {}]
Or(leaves) == [op |-> "any", leaves |-> leaves]

MCPolicy(required, exceptions, reject, escalate) ==
  [required |-> required, exceptions |-> exceptions, support |-> 1, contradict |-> 1,
   reject |-> reject, escalate |-> escalate]

\* One required, the other needed to reject; and the other as an exception.
MCPolicies ==
  {MCPolicy({"r1"}, {}, AllOf({"r2"}, {Or({"r1", "r2"})}), AnyLeaf({"contradictory_evidence"})),
   MCPolicy({"r1", "r2"}, {"r2"}, AllOf({"r1"}, {}), AnyLeaf({"unresolved_exception"}))}

MCSymmetry == Permutations(Workers)

=============================================================================

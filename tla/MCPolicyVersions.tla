--------------------------- MODULE MCPolicyVersions ---------------------------
(* A small instance of PolicyVersions for TLC: two requirements, three      *)
(* documents of the first version and two of the second.                    *)
EXTENDS PolicyVersions, TLC

Of(first, second, rules) ==
  [requirements |-> [k \in {"r1", "r2"} |-> IF k = "r1" THEN first ELSE second],
   rules |-> rules]

Document(n, text, compiled) == [version |-> n, text |-> text, compiled |-> compiled]

MCDocuments ==
  {Document(1, "t1", Of("s1", "s1", "p1")),
   Document(1, "t2", Of("s1", "s1", "p1")),
   Document(1, "t3", Of("s2", Absent, "p1")),
   Document(2, "t4", Of("s1", "s1", "p2")),
   Document(2, "t5", Of("s1", "s2", "p1"))}

\* Processes of a kind are interchangeable.
MCSymmetry == Permutations(Editors) \cup Permutations(Creators)

=============================================================================

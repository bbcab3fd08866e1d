----------------------------- MODULE MCNatTable -----------------------------
(* Instance of NatTable for TLC: three rules share a bucket of either table,
   so that entries are alone, first, in the middle and last of their chains.
   The rules can be exchanged for one another. *)
EXTENDS NatTable, TLC
CONSTANTS r1, r2, r3
RulesDef == {r1, r2, r3}
OneBucket == [r \in RulesDef |-> 1]
RuleSymmetry == Permutations(RulesDef)
=============================================================================

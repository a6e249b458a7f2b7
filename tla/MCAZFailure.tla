----------------------------- MODULE MCAZFailure -----------------------------
(* An instance of AZFailure for TLC.                                       *)
EXTENDS AZFailure, TLC

\* Nothing looks at which experiment, VPC, subnet or ACL it is.
Symmetry ==
  Permutations(Exps) \cup Permutations(Vpcs) \cup Permutations(Subnets)
  \cup Permutations(UserACLs) \cup Permutations(DenyACLs)
=============================================================================

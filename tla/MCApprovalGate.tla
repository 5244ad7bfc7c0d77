---- MODULE MCApprovalGate ----
(* ApprovalGate with one LOW and one HIGH policy: every tree, every tier.  *)
EXTENDS ApprovalGate

CONSTANTS low, high

AllPolicies == {low, high}
HighPolicies == {high}

====

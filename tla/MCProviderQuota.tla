-------------------------- MODULE MCProviderQuota --------------------------
(* The instance of ProviderQuota for TLC: two callers, one of which may be  *)
(* cancelled.  (With three the safety properties hold as well, but the      *)
(* liveness check is out of reach.)                                         *)
EXTENDS ProviderQuota, TLC

CONSTANTS c1, c2

Two       == {c1, c2}
OnlyFirst == {c1}
=============================================================================

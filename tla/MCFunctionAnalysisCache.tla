------------------------ MODULE MCFunctionAnalysisCache ------------------------
(* Instances of FunctionAnalysisCache for TLC. *)
EXTENDS FunctionAnalysisCache, TLC

CONSTANTS k1, k2, k3, a1, a2

\* k1 and k2 share a digest, as force_digest_for_tests makes every key do.
CollidingDigest == (k1 :> 7) @@ (k2 :> 7) @@ (k3 :> 9)
KeySizes == (k1 :> 1) @@ (k2 :> 2) @@ (k3 :> 1)
PlanSizes == (a1 :> 1) @@ (a2 :> 5)

===============================================================================

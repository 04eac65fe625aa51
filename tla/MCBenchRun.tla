----------------------------- MODULE MCBenchRun -----------------------------
(* The instance of BenchRun for TLC: two models, three cases of one             *)
(* conversation.                                                                *)
EXTENDS BenchRun

CONSTANTS k1, v1, v2

MCKey == <<k1, k1, k1>>
SymmetricInputs == Permutations(Inputs)
=============================================================================

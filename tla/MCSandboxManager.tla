-------------------------- MODULE MCSandboxManager --------------------------
(* Small instances of SandboxManager.                                        *)
EXTENDS SandboxManager, TLC

Symmetry == Permutations(Workers)
=============================================================================

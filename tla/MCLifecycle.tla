---------------------------- MODULE MCLifecycle ----------------------------
(* Small instances of Lifecycle for TLC.                                   *)
EXTENDS Lifecycle, TLC

CONSTANTS c1, c2, l1, l2

TheConns == {c1, c2}
TheListeners == {l1, l2}
AnyProgram == {{}, AllUses}
Symmetry == Permutations(TheConns) \union Permutations(TheListeners)

=============================================================================

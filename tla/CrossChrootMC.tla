---------------------------- MODULE CrossChrootMC ----------------------------
EXTENDS CrossChroot, TLC

CONSTANTS bookworm, noble

BothTargets == {bookworm, noble}
Symmetry == Permutations(BothTargets)

=============================================================================

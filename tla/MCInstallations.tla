-------------------------- MODULE MCInstallations --------------------------
EXTENDS Installations, TLC

Symmetry == Permutations(Repos)
=============================================================================

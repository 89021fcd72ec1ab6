---------------------------- MODULE MCEventPoller ----------------------------
EXTENDS EventPoller, TLC

\* Handles are only compared.
HandleSymmetry == Permutations(Handles)
==============================================================================

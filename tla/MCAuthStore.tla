----------------------------- MODULE MCAuthStore -----------------------------
EXTENDS AuthStore, TLC
MCSymmetry == Permutations(Auths) \cup Permutations(Bearers)
=============================================================================

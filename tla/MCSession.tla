------------------------------ MODULE MCSession ------------------------------
EXTENDS Session, TLC
MCSymmetry == Permutations(Requests) \cup Permutations(Clients)
=============================================================================

----------------------------- MODULE MCRateLimit -----------------------------
EXTENDS RateLimit, TLC
CONSTANTS s1, s2, s3

MCSymmetry == Permutations({s1, s2, s3})
=============================================================================

--------------------------- MODULE MCConfigCache ----------------------------
EXTENDS ConfigCache, TLC

CONSTANTS t1, t2, v1, v2, v3, bad

\* The threads are alike, and so are the versions.
Alike == Permutations(Thread) \cup Permutations(Version)
=============================================================================

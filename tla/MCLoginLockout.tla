--------------------------- MODULE MCLoginLockout ---------------------------
\* Addresses and threads are interchangeable.
EXTENDS LoginLockout, TLC

Symmetry == Permutations(Ips) \cup Permutations(Threads)
=============================================================================

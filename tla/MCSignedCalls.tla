--------------------------- MODULE MCSignedCalls ---------------------------
EXTENDS SignedCalls

MCSkews == {-2, 1}
MCBackoff == [k \in 0..1 |-> 2 ^ k]
=============================================================================

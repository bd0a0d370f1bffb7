------------------------------ MODULE MCKHash ------------------------------
(* A small instance of KHash for TLC. *)
EXTENDS KHash

CONSTANTS k1, k2, k3, v1, v2

MCKeys == {k1, k2, k3}
MCValues == {v1, v2}

\* k1 and k2 collide whatever the size; 3 is the last of 4 buckets, so that the
\* probe of the second wraps around to 0, which is where k3 belongs.
MCHash(h1, h2, h3) ==
  [k \in MCKeys |-> IF k = k1 THEN h1 ELSE IF k = k2 THEN h2 ELSE h3]

MCHashFuncs == {MCHash(3, 3, 0)}
=============================================================================

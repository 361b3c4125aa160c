---------------------------- MODULE MCDbcParser ----------------------------
EXTENDS DbcParser

CONSTANTS i1, i2, speed, rpm

MCIds == {i1, i2}
MCNames == {speed, rpm}

(* Ids and names are only compared with one another.                       *)
Symmetry == Permutations(MCIds) \cup Permutations(MCNames)
=============================================================================

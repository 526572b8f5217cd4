--------------------------- MODULE MCIndexerSync ---------------------------
(* Model-checking instance of IndexerSync. *)
EXTENDS IndexerSync

CONSTANTS alice, bob

MCOwners == {alice, bob}

\* Cell 2 belongs to bob and has no type script; the others are typed and alice's.
MCOwnerOf == [c \in Cells |-> IF c = 2 THEN bob ELSE alice]
MCTyped == Cells \ {2}
=============================================================================

------------------------ MODULE MCReviewedTransactions ------------------------
(* The operations, the wallets, their accounts and the forms are each          *)
(* interchangeable.                                                            *)
EXTENDS ReviewedTransactions, TLC

Symmetry ==
  Permutations(Ops) \cup Permutations(Signers) \cup Permutations(Addresses)
    \cup Permutations(Forms)
=============================================================================

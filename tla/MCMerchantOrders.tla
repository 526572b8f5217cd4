-------------------------- MODULE MCMerchantOrders --------------------------
(* Model-checking instance of MerchantOrders. *)
EXTENDS MerchantOrders, TLC

\* Requests and merchants are interchangeable: nothing singles one out.
Symmetry == Permutations(Requests) \cup Permutations(Wallets)
=============================================================================

-------------------------- MODULE MCAuthChallenges --------------------------
(* Model-checking instance of AuthChallenges. *)
EXTENDS AuthChallenges, TLC

\* Nothing singles out a challenge, a request or a wallet.
Symmetry == Permutations(Nonces) \cup Permutations(Verifies) \cup Permutations(Wallets)
=============================================================================

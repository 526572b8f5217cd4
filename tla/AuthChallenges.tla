--------------------------- MODULE AuthChallenges ---------------------------
(***************************************************************************)
(* Wallet authentication in the Rust service: POST /auth/challenge stores  *)
(* a message for a wallet to sign, POST /auth/verify exchanges a signature *)
(* of it for a bearer token.  The table wallet_auth_challenges is all the  *)
(* two share; each statement commits on its own, so the handlers of all    *)
(* requests interleave between statements, and a handler can be cut off    *)
(* between any two.                                                        *)
(*                                                                         *)
(* Cryptography is perfect here: a signature is the pair of the key that   *)
(* made it and the challenge whose message it covers.  The nonce of a      *)
(* challenge is a fresh UUID, so a challenge is named after the request    *)
(* that asked for it.  The service and its database read one clock.        *)
(***************************************************************************)
EXTENDS Integers

CONSTANTS
  Nonces,        \* the requests for a challenge, and the nonces they draw
  Verifies,      \* the verify requests
  Wallets,
  ChallengeTTL,  \* auth_challenge_ttl_seconds
  Retention,     \* how long delete_expired keeps an expired row: one day
  MaxTime,       \* bound: when the clock stops
  None

VARIABLES
  now,          \* the clock
  ask,          \* ask[n]: the state of the handler that creates challenge n
  challenges,   \* wallet_auth_challenges: challenges[n] is a row, or None
  signatures,   \* the signatures wallets have made
  verify,       \* verify[v]: the state of the handler of v
  tokens        \* the bearer tokens issued

vars == <<now, ask, challenges, signatures, verify, tokens>>

Signature == [by : Wallets, over : Nonces]

\* usedBy stands for consumed_at: the request that consumed the row, or NULL.
Challenge == [wallet : Wallets, expires : Nat, usedBy : Verifies \cup {None}]

ASSUME AuthAssumption ==
  /\ ChallengeTTL \in Nat /\ Retention \in Nat /\ MaxTime \in Nat
  /\ None \notin Nonces \cup Verifies \cup Wallets \cup Challenge

Ask == [phase : {"idle", "insert", "done"}, wallet : Wallets \cup {None}]

Verify ==
  [phase : {"idle", "check", "consume", "issue", "done"},
   nonce : Nonces \cup {None}, wallet : Wallets \cup {None},
   signature : Signature \cup {None}]

Token == [by : Verifies, nonce : Nonces, wallet : Wallets]

TypeOK ==
  /\ now \in Nat
  /\ ask \in [Nonces -> Ask]
  /\ challenges \in [Nonces -> Challenge \cup {None}]
  /\ signatures \subseteq Signature
  /\ verify \in [Verifies -> Verify]
  /\ tokens \subseteq Token

Init ==
  /\ now = 0
  /\ ask = [n \in Nonces |-> [phase |-> "idle", wallet |-> None]]
  /\ challenges = [n \in Nonces |-> None]
  /\ signatures = {}
  /\ verify = [v \in Verifies |->
       [phase |-> "idle", nonce |-> None, wallet |-> None, signature |-> None]]
  /\ tokens = {}

Exists(n) == challenges[n] # None

Tick ==
  /\ now < MaxTime
  /\ now' = now + 1
  /\ UNCHANGED <<ask, challenges, signatures, verify, tokens>>

-----------------------------------------------------------------------------
(* POST /auth/challenge                                                    *)

Outlived(n) == Exists(n) /\ challenges[n].expires + Retention < now

\* delete_expired comes first; that it failed is ignored.
AskChallenge(n, w) ==
  /\ ask[n].phase = "idle"
  /\ ask' = [ask EXCEPT ![n] = [phase |-> "insert", wallet |-> w]]
  /\ \/ challenges' = [m \in Nonces |-> IF Outlived(m) THEN None ELSE challenges[m]]
     \/ UNCHANGED challenges
  /\ UNCHANGED <<now, signatures, verify, tokens>>

InsertChallenge(n) ==
  /\ ask[n].phase = "insert"
  /\ ask' = [ask EXCEPT ![n].phase = "done"]
  /\ challenges' = [challenges EXCEPT ![n] =
       [wallet |-> ask[n].wallet, expires |-> now + ChallengeTTL, usedBy |-> None]]
  /\ UNCHANGED <<now, signatures, verify, tokens>>

AbandonAsk(n) ==
  /\ ask[n].phase = "insert"
  /\ ask' = [ask EXCEPT ![n].phase = "done"]
  /\ UNCHANGED <<now, challenges, signatures, verify, tokens>>

-----------------------------------------------------------------------------
\* The wallet signs the message of a challenge.  The account may have been
\* switched since the challenge was asked for, so any key may sign any message.
Sign(w, n) ==
  /\ Exists(n)
  /\ signatures' = signatures \cup {[by |-> w, over |-> n]}
  /\ UNCHANGED <<now, ask, challenges, verify, tokens>>

-----------------------------------------------------------------------------
(* POST /auth/verify                                                       *)

ReceiveVerify(v, n, w, s) ==
  /\ verify[v].phase = "idle"
  /\ verify' = [verify EXCEPT ![v] =
       [phase |-> "check", nonce |-> n, wallet |-> w, signature |-> s]]
  /\ UNCHANGED <<now, ask, challenges, signatures, tokens>>

End(v) == verify' = [verify EXCEPT ![v].phase = "done"]

\* The WHERE clause of get_valid_challenge and of consume_challenge.
Valid(n, w) ==
  /\ Exists(n)
  /\ challenges[n].wallet = w
  /\ challenges[n].usedBy = None
  /\ now < challenges[n].expires

\* Mutant: any signature of the challenge will do, whoever made it.
MutantSignedBy(q) == q.signature.over = q.nonce

\* verify_ckb_secp256k1_message.
SignedBy(q) == q.signature = [by |-> q.wallet, over |-> q.nonce]

Acceptable(q) == Valid(q.nonce, q.wallet) /\ SignedBy(q)

CheckChallenge(v) ==
  /\ verify[v].phase = "check"
  /\ \/ Acceptable(verify[v]) /\ verify' = [verify EXCEPT ![v].phase = "consume"]
     \/ ~Acceptable(verify[v]) /\ End(v)
  /\ UNCHANGED <<now, ask, challenges, signatures, tokens>>

\* Mutant: the UPDATE trusts the check before it.
MutantConsume(v) ==
  LET q == verify[v] IN
  /\ q.phase = "consume"
  /\ \/ /\ Exists(q.nonce)
        /\ challenges' = [challenges EXCEPT ![q.nonce].usedBy = v]
        /\ verify' = [verify EXCEPT ![v].phase = "issue"]
     \/ /\ ~Exists(q.nonce)
        /\ End(v)
        /\ UNCHANGED challenges
  /\ UNCHANGED <<now, ask, signatures, tokens>>

\* One UPDATE that repeats the check: it decides between rival requests.
Consume(v) ==
  LET q == verify[v] IN
  /\ q.phase = "consume"
  /\ \/ /\ Valid(q.nonce, q.wallet)
        /\ challenges' = [challenges EXCEPT ![q.nonce].usedBy = v]
        /\ verify' = [verify EXCEPT ![v].phase = "issue"]
     \/ /\ ~Valid(q.nonce, q.wallet)
        /\ End(v)
        /\ UNCHANGED challenges
  /\ UNCHANGED <<now, ask, signatures, tokens>>

IssueToken(v) ==
  LET q == verify[v] IN
  /\ q.phase = "issue"
  /\ tokens' = tokens \cup {[by |-> v, nonce |-> q.nonce, wallet |-> q.wallet]}
  /\ End(v)
  /\ UNCHANGED <<now, ask, challenges, signatures>>

\* A statement fails, or the caller or the process is gone.
AbandonVerify(v) ==
  /\ verify[v].phase \in {"check", "consume", "issue"}
  /\ End(v)
  /\ UNCHANGED <<now, ask, challenges, signatures, tokens>>

AskNext(n) ==
  (\E w \in Wallets : AskChallenge(n, w) \/ Sign(w, n)) \/ InsertChallenge(n) \/ AbandonAsk(n)

VerifyNext(v) ==
  \/ \E n \in Nonces, w \in Wallets, s \in signatures : ReceiveVerify(v, n, w, s)
  \/ CheckChallenge(v) \/ Consume(v) \/ IssueToken(v) \/ AbandonVerify(v)

Next == Tick \/ (\E n \in Nonces : AskNext(n)) \/ (\E v \in Verifies : VerifyNext(v))

Spec == Init /\ [][Next]_vars

-----------------------------------------------------------------------------
(* Properties                                                              *)

(***************************************************************************)
(* A challenge yields at most one token, however many requests present it  *)
(* at once: all of them may pass the check, one passes the UPDATE.         *)
(***************************************************************************)
OneTokenPerChallenge ==
  \A s, t \in tokens : s.nonce = t.nonce => s = t

(***************************************************************************)
(* A token speaks for the wallet its challenge was made for, and that      *)
(* wallet's key signed the challenge, even if the account was switched or  *)
(* another request consumed the row between the check and the UPDATE.      *)
(***************************************************************************)
TokensAreSigned ==
  \A t \in tokens :
    /\ ask[t.nonce].wallet = t.wallet
    /\ [by |-> t.wallet, over |-> t.nonce] \in signatures

(***************************************************************************)
(* Deleting old challenges never takes one away that could still be used,  *)
(* nor makes a used one usable again: a row leaves the table only after it *)
(* expired, and a row that was used stays used.                            *)
(***************************************************************************)
ChallengesAgeOut ==
  [][\A n \in Nonces : Exists(n) =>
       \/ challenges'[n] = None /\ challenges[n].expires < now
       \/ /\ challenges'[n] # None
          /\ challenges'[n].expires = challenges[n].expires
          /\ challenges[n].usedBy \in {None, challenges'[n].usedBy}]_vars
=============================================================================

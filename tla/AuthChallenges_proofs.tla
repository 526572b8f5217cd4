----------------------- MODULE AuthChallenges_proofs -----------------------
(***************************************************************************)
(* The safety properties of AuthChallenges, for any number of challenges,  *)
(* requests and wallets, and any clock.                                    *)
(*                                                                         *)
(* A row is deleted a day after it expired, so the table alone does not    *)
(* remember which challenges were used.  What does is that the nonce of a  *)
(* challenge is drawn once: a used challenge is done being asked for, and  *)
(* has no row or a used one.                                               *)
(***************************************************************************)
EXTENDS AuthChallenges, TLAPS

Used(n) ==
  /\ ask[n].phase = "done"
  /\ Exists(n) => challenges[n].usedBy # None

AskOK(n) ==
  /\ ask[n].phase # "idle" => ask[n].wallet \in Wallets
  /\ Exists(n) => ask[n].phase = "done" /\ challenges[n].wallet = ask[n].wallet

\* What the handler of v has established.
VerifyOK(v) ==
  LET q == verify[v] IN
  /\ q.phase # "idle" =>
       /\ q.nonce \in Nonces /\ q.wallet \in Wallets /\ q.signature \in signatures
  /\ q.phase \in {"consume", "issue"} =>
       /\ SignedBy(q)
       /\ ask[q.nonce].phase = "done" /\ ask[q.nonce].wallet = q.wallet
  /\ q.phase = "issue" => Used(q.nonce)

TokenOK(t) ==
  /\ Used(t.nonce)
  /\ ask[t.nonce].wallet = t.wallet
  /\ [by |-> t.wallet, over |-> t.nonce] \in signatures

\* A challenge has one consumer: a handler about to issue, or a token.
OneConsumer ==
  /\ \A u, v \in Verifies :
       /\ verify[u].phase = "issue" /\ verify[v].phase = "issue"
       /\ verify[u].nonce = verify[v].nonce
       => u = v
  /\ \A v \in Verifies, t \in tokens :
       verify[v].phase = "issue" => verify[v].nonce # t.nonce
  /\ OneTokenPerChallenge

IInv ==
  /\ TypeOK
  /\ \A n \in Nonces : AskOK(n)
  /\ \A v \in Verifies : VerifyOK(v)
  /\ \A t \in tokens : TokenOK(t)
  /\ OneConsumer

-----------------------------------------------------------------------------
LEMMA InitInv == Init => IInv
<1> SUFFICES ASSUME Init PROVE IInv
  OBVIOUS
<1>1. TypeOK
  BY DEF Init, TypeOK, Ask, Verify
<1>2. \A n \in Nonces : AskOK(n)
  BY DEF Init, AskOK, Exists
<1>3. \A v \in Verifies : VerifyOK(v)
  BY DEF Init, VerifyOK
<1>4. (\A t \in tokens : TokenOK(t)) /\ OneConsumer
  BY DEF Init, OneConsumer, OneTokenPerChallenge
<1> QED BY <1>1, <1>2, <1>3, <1>4 DEF IInv

\* Steps on the table that neither add an unused row to a challenge that was
\* asked for before, nor take the mark off a used one, disturb no consumer.
LEMMA TableStep ==
  ASSUME IInv, TypeOK', UNCHANGED <<verify, tokens>>, signatures \subseteq signatures',
         \A n \in Nonces : AskOK(n)',
         \A n \in Nonces : ask[n].phase = "done" =>
           /\ ask'[n] = ask[n]
           /\ Exists(n)' => Exists(n) /\ challenges'[n] = challenges[n]
  PROVE  IInv'
<1>1. \A n \in Nonces : Used(n) => Used(n)'
  BY DEF Used, Exists
<1>2. ASSUME NEW v \in Verifies PROVE VerifyOK(v)'
  <2>1. VerifyOK(v) /\ verify[v] \in Verify
    BY DEF IInv, TypeOK
  <2> QED BY <2>1, <1>1 DEF VerifyOK, SignedBy
<1>3. ASSUME NEW t \in tokens PROVE TokenOK(t)'
  <2>1. TokenOK(t) /\ t.nonce \in Nonces
    BY DEF IInv, TypeOK, Token
  <2> QED BY <2>1, <1>1 DEF TokenOK, Used
<1>4. OneConsumer'
  BY DEF IInv, OneConsumer, OneTokenPerChallenge
<1> QED BY <1>2, <1>3, <1>4 DEF IInv

\* A verify handler moves to a phase whose facts hold, other than to "issue".
LEMMA HandlerStep ==
  ASSUME IInv, NEW v \in Verifies, NEW q \in Verify,
         verify' = [verify EXCEPT ![v] = q], q.phase # "issue",
         UNCHANGED <<now, ask, challenges, signatures, tokens>>,
         VerifyOK(v)'
  PROVE  IInv'
<1>1. TypeOK' /\ verify'[v] = q /\ \A u \in Verifies \ {v} : verify'[u] = verify[u]
  BY DEF IInv, TypeOK
<1>2. \A n \in Nonces : AskOK(n)'
  BY DEF IInv, AskOK, Exists
<1>3. \A u \in Verifies : VerifyOK(u)'
  BY <1>1 DEF IInv, VerifyOK, SignedBy, Used, Exists
<1>4. \A t \in tokens : TokenOK(t)'
  BY DEF IInv, TokenOK, Used, Exists
<1>5. OneConsumer'
  BY <1>1 DEF IInv, OneConsumer, OneTokenPerChallenge
<1> QED BY <1>1, <1>2, <1>3, <1>4, <1>5 DEF IInv

LEMMA EndInv ==
  ASSUME IInv, NEW v \in Verifies, verify[v].phase # "idle", End(v),
         UNCHANGED <<now, ask, challenges, signatures, tokens>>
  PROVE  IInv'
<1> DEFINE q == [verify[v] EXCEPT !.phase = "done"]
<1>1. verify[v] \in Verify /\ VerifyOK(v)
  BY DEF IInv, TypeOK
<1>2. /\ q \in Verify /\ q.phase = "done" /\ q.nonce = verify[v].nonce
      /\ q.wallet = verify[v].wallet /\ q.signature = verify[v].signature
  BY <1>1 DEF Verify
<1>3. verify' = [verify EXCEPT ![v] = q] /\ verify'[v] = q
  BY DEF End, IInv, TypeOK
<1> HIDE DEF q
<1>4. VerifyOK(v)'
  BY <1>1, <1>2, <1>3 DEF VerifyOK
<1> QED BY <1>2, <1>3, <1>4, HandlerStep

-----------------------------------------------------------------------------
LEMMA AskInv ==
  ASSUME IInv, NEW n \in Nonces, NEW w \in Wallets,
         AskChallenge(n, w) \/ InsertChallenge(n) \/ AbandonAsk(n) \/ Sign(w, n)
  PROVE  IInv'
<1>1. CASE AskChallenge(n, w)
  <2>1. TypeOK'
    BY <1>1 DEF AskChallenge, IInv, TypeOK, Ask
  <2>2. \A m \in Nonces : Exists(m)' => Exists(m) /\ challenges'[m] = challenges[m]
    BY <1>1 DEF AskChallenge, Exists
  <2>3. \A m \in Nonces : AskOK(m)'
    BY <1>1, <2>2 DEF AskChallenge, IInv, TypeOK, AskOK
  <2> QED BY <1>1, <2>1, <2>2, <2>3, TableStep DEF AskChallenge, IInv, TypeOK
<1>2. CASE InsertChallenge(n)
  <2>1. ask[n] \in Ask /\ ask[n].wallet \in Wallets /\ ask[n].phase = "insert"
    BY <1>2 DEF InsertChallenge, IInv, TypeOK, AskOK
  <2>2. now + ChallengeTTL \in Nat
    BY AuthAssumption DEF IInv, TypeOK
  <2>3. /\ challenges'[n].wallet = ask[n].wallet
        /\ challenges' \in [Nonces -> Challenge \cup {None}]
        /\ ask' \in [Nonces -> Ask] /\ ask'[n].phase = "done" /\ ask'[n].wallet = ask[n].wallet
    BY <1>2, <2>1, <2>2 DEF InsertChallenge, IInv, TypeOK, Ask, Challenge
  <2>4. TypeOK'
    BY <1>2, <2>3 DEF InsertChallenge, IInv, TypeOK
  <2>5. \A m \in Nonces : AskOK(m)'
    BY <1>2, <2>1, <2>3 DEF InsertChallenge, IInv, TypeOK, AskOK, Exists
  <2> QED BY <1>2, <2>1, <2>4, <2>5, TableStep DEF InsertChallenge, IInv, TypeOK, Exists
<1>3. CASE AbandonAsk(n)
  <2>1. ask[n] \in Ask /\ ask[n].wallet \in Wallets /\ ask[n].phase = "insert"
    BY <1>3 DEF AbandonAsk, IInv, TypeOK, AskOK
  <2>2. ask' \in [Nonces -> Ask] /\ ask'[n].phase = "done" /\ ask'[n].wallet = ask[n].wallet
    BY <1>3, <2>1 DEF AbandonAsk, IInv, TypeOK, Ask
  <2>3. TypeOK'
    BY <1>3, <2>2 DEF AbandonAsk, IInv, TypeOK
  <2>4. \A m \in Nonces : AskOK(m)'
    BY <1>3, <2>1, <2>2 DEF AbandonAsk, IInv, TypeOK, AskOK, Exists
  <2> QED BY <1>3, <2>1, <2>3, <2>4, TableStep DEF AbandonAsk, IInv, TypeOK, Exists
<1>4. CASE Sign(w, n)
  <2>1. TypeOK'
    BY <1>4 DEF Sign, IInv, TypeOK, Signature
  <2>2. \A m \in Nonces : AskOK(m)'
    BY <1>4 DEF Sign, IInv, AskOK, Exists
  <2> QED BY <1>4, <2>1, <2>2, TableStep DEF Sign, Exists
<1> QED BY <1>1, <1>2, <1>3, <1>4

LEMMA ReceiveInv ==
  ASSUME IInv, NEW v \in Verifies, NEW n \in Nonces, NEW w \in Wallets,
         NEW s \in signatures, ReceiveVerify(v, n, w, s)
  PROVE  IInv'
<1> DEFINE q == [phase |-> "check", nonce |-> n, wallet |-> w, signature |-> s]
<1>1. q \in Verify /\ verify' = [verify EXCEPT ![v] = q] /\ verify'[v] = q
  BY DEF ReceiveVerify, IInv, TypeOK, Verify
<1>2. VerifyOK(v)'
  BY <1>1 DEF ReceiveVerify, VerifyOK
<1> QED BY <1>1, <1>2, HandlerStep DEF ReceiveVerify

LEMMA CheckInv == ASSUME IInv, NEW v \in Verifies, CheckChallenge(v) PROVE IInv'
<1>1. CASE End(v)
  BY <1>1, EndInv DEF CheckChallenge
<1>2. ASSUME Acceptable(verify[v]), verify' = [verify EXCEPT ![v].phase = "consume"]
      PROVE  IInv'
  <2> DEFINE q == [verify[v] EXCEPT !.phase = "consume"]
  <2>1. verify[v] \in Verify /\ VerifyOK(v) /\ verify[v].nonce \in Nonces
    BY DEF IInv, TypeOK, VerifyOK, CheckChallenge
  <2>2. /\ q \in Verify /\ q.phase = "consume" /\ q.nonce = verify[v].nonce
        /\ q.wallet = verify[v].wallet /\ q.signature = verify[v].signature
    BY <2>1 DEF Verify
  <2>3. verify' = [verify EXCEPT ![v] = q] /\ verify'[v] = q
    BY <1>2 DEF IInv, TypeOK
  <2> HIDE DEF q
  <2>4. AskOK(verify[v].nonce)
    BY <2>1 DEF IInv
  <2>5. VerifyOK(v)'
    BY <1>2, <2>1, <2>2, <2>3, <2>4
    DEF CheckChallenge, VerifyOK, Acceptable, Valid, AskOK, SignedBy
  <2> QED BY <2>2, <2>3, <2>5, HandlerStep DEF CheckChallenge
<1> QED BY <1>1, <1>2 DEF CheckChallenge

\* The UPDATE finds the row unused, so no other handler or token has it.
LEMMA ConsumeInv == ASSUME IInv, NEW v \in Verifies, Consume(v) PROVE IInv'
<1>1. CASE End(v) /\ UNCHANGED challenges
  BY <1>1, EndInv DEF Consume
<1>2. ASSUME Valid(verify[v].nonce, verify[v].wallet),
             challenges' = [challenges EXCEPT ![verify[v].nonce].usedBy = v],
             verify' = [verify EXCEPT ![v].phase = "issue"]
      PROVE  IInv'
  <2> PICK n : n = verify[v].nonce
    OBVIOUS
  <2> DEFINE q == [verify[v] EXCEPT !.phase = "issue"]
             row == [challenges[n] EXCEPT !.usedBy = v]
  <2>1. verify[v] \in Verify /\ VerifyOK(v) /\ n \in Nonces /\ verify[v].phase = "consume"
    BY DEF IInv, TypeOK, VerifyOK, Consume
  <2>2. AskOK(n) /\ Exists(n) /\ challenges[n] \in Challenge /\ challenges[n].usedBy = None
    BY <1>2, <2>1 DEF IInv, TypeOK, Valid, Exists
  <2>3. /\ q \in Verify /\ q.phase = "issue" /\ q.nonce = n
        /\ q.wallet = verify[v].wallet /\ q.signature = verify[v].signature
    BY <2>1 DEF Verify
  <2>4. /\ row \in Challenge /\ row.wallet = challenges[n].wallet /\ row.usedBy = v
        /\ row # None /\ v # None
    BY <2>2, AuthAssumption DEF Challenge
  <2>5. /\ verify' = [verify EXCEPT ![v] = q] /\ verify'[v] = q
        /\ \A u \in Verifies \ {v} : verify'[u] = verify[u]
    BY <1>2 DEF IInv, TypeOK
  <2>6. /\ challenges' = [challenges EXCEPT ![n] = row] /\ challenges'[n] = row
        /\ \A m \in Nonces \ {n} : challenges'[m] = challenges[m]
    BY <1>2, <2>1 DEF IInv, TypeOK
  <2> HIDE DEF q, row
  <2>7. UNCHANGED <<now, ask, signatures, tokens>>
    BY DEF Consume
  <2>8. Used(n)' /\ ~Used(n) /\ \A m \in Nonces : Used(m) => Used(m)'
    <3>1. Used(n)'
      BY <2>2, <2>4, <2>6, <2>7 DEF Used, AskOK
    <3>2. ~Used(n)
      BY <2>2 DEF Used
    <3>3. \A m \in Nonces \ {n} : Used(m) => Used(m)'
      BY <2>6, <2>7 DEF Used, Exists
    <3> QED BY <3>1, <3>2, <3>3
  <2>9. TypeOK'
    BY <2>3, <2>4, <2>5, <2>6, <2>7 DEF IInv, TypeOK
  <2>10. \A m \in Nonces : AskOK(m)'
    BY <2>2, <2>4, <2>6, <2>7 DEF IInv, AskOK, Exists
  <2>11. \A u \in Verifies : VerifyOK(u)'
    <3>1. VerifyOK(v)'
      BY <2>1, <2>3, <2>5, <2>7, <2>8 DEF VerifyOK, SignedBy
    <3>2. ASSUME NEW u \in Verifies \ {v} PROVE VerifyOK(u)'
      BY <2>5, <2>7, <2>8 DEF IInv, VerifyOK, SignedBy
    <3> QED BY <3>1, <3>2
  <2>12. \A t \in tokens : TokenOK(t)'
    BY <2>7, <2>8 DEF IInv, TypeOK, Token, TokenOK
  <2>13. OneConsumer'
    <3>1. \A u \in Verifies : verify[u].phase = "issue" => verify[u].nonce # n
      BY <2>8 DEF IInv, VerifyOK
    <3>2. \A t \in tokens : t.nonce # n
      BY <2>8 DEF IInv, TokenOK
    <3> QED BY <3>1, <3>2, <2>3, <2>5, <2>7 DEF IInv, OneConsumer, OneTokenPerChallenge
  <2> QED BY <2>7, <2>9, <2>10, <2>11, <2>12, <2>13 DEF IInv
<1> QED BY <1>1, <1>2 DEF Consume

LEMMA IssueInv == ASSUME IInv, NEW v \in Verifies, IssueToken(v) PROVE IInv'
<1> DEFINE q == [verify[v] EXCEPT !.phase = "done"]
           new == [by |-> v, nonce |-> verify[v].nonce, wallet |-> verify[v].wallet]
<1>1. verify[v] \in Verify /\ VerifyOK(v) /\ verify[v].phase = "issue"
  BY DEF IInv, TypeOK, IssueToken
<1>2. /\ q \in Verify /\ q.phase = "done" /\ q.nonce = verify[v].nonce
      /\ q.wallet = verify[v].wallet /\ q.signature = verify[v].signature
  BY <1>1 DEF Verify
<1>3. /\ verify' = [verify EXCEPT ![v] = q] /\ verify'[v] = q
      /\ \A u \in Verifies \ {v} : verify'[u] = verify[u]
  BY DEF IssueToken, End, IInv, TypeOK
<1>4. /\ new \in Token /\ new.nonce = verify[v].nonce /\ new.wallet = verify[v].wallet
      /\ tokens' = tokens \cup {new}
  BY <1>1 DEF IssueToken, VerifyOK, Token
<1> HIDE DEF q, new
<1>5. UNCHANGED <<now, ask, challenges, signatures>>
  BY DEF IssueToken
<1>6. TypeOK'
  BY <1>2, <1>3, <1>4, <1>5 DEF IInv, TypeOK
<1>7. \A n \in Nonces : AskOK(n)'
  BY <1>5 DEF IInv, AskOK, Exists
<1>8. \A u \in Verifies : VerifyOK(u)'
  BY <1>1, <1>2, <1>3, <1>5 DEF IInv, VerifyOK, SignedBy, Used, Exists
<1>9. ASSUME NEW t \in tokens' PROVE TokenOK(t)'
  <2>1. CASE t = new
    BY <2>1, <1>1, <1>4, <1>5 DEF VerifyOK, SignedBy, TokenOK, Used, Exists
  <2>2. CASE t \in tokens
    BY <2>2, <1>5 DEF IInv, TokenOK, Used, Exists
  <2> QED BY <2>1, <2>2, <1>4
<1>10. OneConsumer'
  BY <1>1, <1>2, <1>3, <1>4 DEF IInv, OneConsumer, OneTokenPerChallenge
<1> QED BY <1>6, <1>7, <1>8, <1>9, <1>10 DEF IInv

-----------------------------------------------------------------------------
LEMMA NextInv == IInv /\ [Next]_vars => IInv'
<1> SUFFICES ASSUME IInv, [Next]_vars PROVE IInv'
  OBVIOUS
<1>1. CASE UNCHANGED vars
  BY <1>1, TableStep DEF vars, IInv, TypeOK, AskOK, Exists
<1>2. CASE Tick
  <2>1. TypeOK'
    BY <1>2 DEF Tick, IInv, TypeOK
  <2> QED BY <1>2, <2>1, TableStep DEF Tick, IInv, AskOK, Exists
<1>3. ASSUME NEW n \in Nonces, AskNext(n) PROVE IInv'
  <2>1. CASE \E w \in Wallets : AskChallenge(n, w) \/ Sign(w, n)
    BY <2>1, AskInv
  <2>2. CASE InsertChallenge(n) \/ AbandonAsk(n)
    <3>1. ask[n].wallet \in Wallets
      BY <2>2 DEF InsertChallenge, AbandonAsk, IInv, AskOK
    <3> QED BY <2>2, <3>1, AskInv
  <2> QED BY <1>3, <2>1, <2>2 DEF AskNext
<1>4. ASSUME NEW v \in Verifies, VerifyNext(v) PROVE IInv'
  <2>1. CASE AbandonVerify(v)
    BY <2>1, EndInv DEF AbandonVerify
  <2> QED BY <1>4, <2>1, ReceiveInv, CheckInv, ConsumeInv, IssueInv DEF VerifyNext
<1> QED BY <1>1, <1>2, <1>3, <1>4 DEF Next

LEMMA InvHolds == Spec => []IInv
BY InitInv, NextInv, PTL DEF Spec

(***************************************************************************)
(* The tables and handlers of the authentication endpoints keep their      *)
(* types: every stored challenge is for a wallet.                          *)
(***************************************************************************)
THEOREM AuthTyped == Spec => []TypeOK
<1>1. IInv => TypeOK
  BY DEF IInv
<1> QED BY <1>1, InvHolds, PTL

(***************************************************************************)
(* However many verify requests present a challenge, at whatever time, it  *)
(* yields at most one token.                                               *)
(***************************************************************************)
THEOREM ChallengesYieldOneToken == Spec => []OneTokenPerChallenge
<1>1. IInv => OneTokenPerChallenge
  BY DEF IInv, OneConsumer
<1> QED BY <1>1, InvHolds, PTL

(***************************************************************************)
(* Every token speaks for a wallet that asked for a challenge and signed   *)
(* it with its own key.                                                    *)
(***************************************************************************)
THEOREM TokensSpeakForSigners == Spec => []TokensAreSigned
<1>1. IInv => TokensAreSigned
  BY DEF IInv, TokenOK, TokensAreSigned
<1> QED BY <1>1, InvHolds, PTL

(***************************************************************************)
(* A row leaves the table only after it expired, and its mark stays: the   *)
(* retention period and the single draw of a nonce make deletion safe.     *)
(***************************************************************************)
THEOREM DeletionIsSafe == Spec => ChallengesAgeOut
<1> DEFINE AgesOut(n) ==
      Exists(n) =>
       \/ challenges'[n] = None /\ challenges[n].expires < now
       \/ /\ challenges'[n] # None
          /\ challenges'[n].expires = challenges[n].expires
          /\ challenges[n].usedBy \in {None, challenges'[n].usedBy}
<1>1. ASSUME IInv, [Next]_vars, NEW n \in Nonces, Exists(n) PROVE AgesOut(n)
  <2>1. challenges[n] \in Challenge /\ challenges[n].expires \in Nat /\ now \in Nat
    BY <1>1 DEF IInv, TypeOK, Exists, Challenge
  <2>2. CASE UNCHANGED challenges
    BY <2>2, <1>1 DEF Exists
  <2>3. ASSUME NEW m \in Nonces, NEW w \in Wallets, AskChallenge(m, w) PROVE AgesOut(n)
    <3>1. CASE Outlived(n)
      BY <2>1, <2>3, <3>1, <1>1, AuthAssumption DEF AskChallenge, Outlived, Exists
    <3>2. CASE ~Outlived(n)
      BY <2>3, <3>2, <1>1 DEF AskChallenge, Exists
    <3> QED BY <3>1, <3>2
  <2>4. ASSUME NEW m \in Nonces, InsertChallenge(m) PROVE AgesOut(n)
    <3>1. m # n
      BY <1>1, <2>4 DEF IInv, AskOK, InsertChallenge
    <3> QED BY <3>1, <2>4, <1>1 DEF InsertChallenge, IInv, TypeOK, Exists
  <2>5. ASSUME NEW v \in Verifies, Consume(v) PROVE AgesOut(n)
    <3>1. CASE UNCHANGED challenges
      BY <2>2, <3>1
    <3>2. ASSUME Valid(verify[v].nonce, verify[v].wallet),
                 challenges' = [challenges EXCEPT ![verify[v].nonce].usedBy = v]
          PROVE  AgesOut(n)
      <4>1. CASE n = verify[v].nonce
        <5>1. challenges'[n] = [challenges[n] EXCEPT !.usedBy = v] /\ challenges[n].usedBy = None
          BY <3>2, <4>1, <1>1 DEF IInv, TypeOK, Valid
        <5>2. challenges'[n] \in Challenge /\ challenges'[n].expires = challenges[n].expires
          BY <5>1, <2>1 DEF Challenge
        <5> QED BY <5>1, <5>2, AuthAssumption
      <4>2. CASE n # verify[v].nonce
        BY <3>2, <4>2, <1>1 DEF IInv, TypeOK, Exists
      <4> QED BY <4>1, <4>2
    <3> QED BY <2>5, <3>1, <3>2 DEF Consume
  <2> QED
    BY <1>1, <2>2, <2>3, <2>4, <2>5
    DEF vars, Next, Tick, AskNext, VerifyNext, Sign, AbandonAsk, ReceiveVerify,
        CheckChallenge, IssueToken, AbandonVerify
<1>2. IInv /\ [Next]_vars => [\A n \in Nonces : AgesOut(n)]_vars
  BY <1>1
<1> QED BY <1>2, InvHolds, PTL DEF Spec, ChallengesAgeOut
=============================================================================

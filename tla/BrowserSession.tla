---------------------------- MODULE BrowserSession ----------------------------
(***************************************************************************)
(* The session of the portal with its backend: the token that the browser  *)
(* keeps, and what the page says of it.  A login is a sequence of requests *)
(* and a signature; a token that is found is checked whenever the wallet   *)
(* is another one, or another object; a 401 that answers any request drops *)
(* the token that is there then.  Meanwhile the wallet changes, or the     *)
(* account of the wallet, which nobody tells the page of; tokens expire,   *)
(* and other tabs write the same storage.                                  *)
(*                                                                         *)
(* The network of the backend is that of the wallets; where it is not, a   *)
(* login and a check fail.                                                 *)
(***************************************************************************)
EXTENDS Integers, Sequences, FiniteSets

CONSTANTS Wallets, MaxTokens, MaxChecks, None

VARIABLES
  wallet,         \* the address of the account that the wallet would give now
  token,          \* in the storage of the browser; 0 is none
  issued,         \* the tokens of the backend: their wallet, whose key signed for them,
                  \* and are they valid?
  authenticated, walletAddress,   \* what the page shows
  login,          \* the login under way
  checks,         \* the checks under way; that of the last effect is active
  request         \* another request under way: the token that it carries

session == <<authenticated, walletAddress>>
vars == <<wallet, token, issued, session, login, checks, request>>

Tokens == 0 .. MaxTokens

\* seen: the addresses that the wallet has had since the check began.
Check == [seen : SUBSET Wallets, token : 1 .. MaxTokens, active : BOOLEAN]

\* signedBy: the account whose key has signed the challenge.
Login ==
  [wallet : Wallets, phase : {"network", "sign", "verify"}, signedBy : Wallets \cup {None}]

TypeOK ==
  /\ wallet \in Wallets \cup {None}
  /\ token \in 0 .. Len(issued)
  /\ issued \in Seq([wallet : Wallets, by : Wallets, valid : BOOLEAN])
  /\ Len(issued) <= MaxTokens
  /\ authenticated \in BOOLEAN /\ walletAddress \in Wallets \cup {None}
  /\ login \in Login \cup {None}
  /\ checks \subseteq Check /\ Cardinality(checks) <= MaxChecks + 1
  /\ Cardinality({c \in checks : c.active}) <= 1
  /\ request \in Tokens \cup {None}

Init ==
  /\ wallet \in Wallets \cup {None}
  /\ token = 0 /\ issued = <<>>
  /\ authenticated = FALSE /\ walletAddress = None
  /\ login = None /\ checks = {} /\ request = None

-----------------------------------------------------------------------------

logout ==
  /\ token' = 0
  /\ authenticated' = FALSE /\ walletAddress' = None

\* The sign-out button.
SignOut ==
  /\ authenticated
  /\ logout
  /\ UNCHANGED <<wallet, issued, login, checks, request>>

Valid(t) == t \in DOMAIN issued /\ issued[t].valid

\* The backend makes a token for w, for which the key of `by` signed; the tab stores it.
Store(w, by) ==
  /\ Len(issued) < MaxTokens
  /\ issued' = Append(issued, [wallet |-> w, by |-> by, valid |-> TRUE])
  /\ token' = Len(issued')

-----------------------------------------------------------------------------
(***************************************************************************)
(* login                                                                   *)
(***************************************************************************)

beginLogin ==
  /\ wallet # None /\ login = None /\ ~authenticated
  /\ login' = [wallet |-> wallet, phase |-> "network", signedBy |-> None]
  /\ UNCHANGED <<wallet, token, issued, session, checks, request>>

\* The network of the backend, and a challenge for the wallet.
challenged ==
  /\ login # None /\ login.phase = "network"
  /\ login' = [login EXCEPT !.phase = "sign"]
  /\ UNCHANGED <<wallet, token, issued, session, checks, request>>

\* A signature of the right kind, by the account that the signer of the login has by then.
signed ==
  /\ login # None /\ login.phase = "sign"
  /\ \E w \in Wallets : login' = [login EXCEPT !.phase = "verify", !.signedBy = w]
  /\ UNCHANGED <<wallet, token, issued, session, checks, request>>

\* Mutant: a signature of any account will do.
MutantLoggedIn ==
  /\ login # None /\ login.phase = "verify"
  /\ Store(login.wallet, login.signedBy)
  /\ authenticated' = TRUE /\ walletAddress' = login.wallet
  /\ login' = None
  /\ UNCHANGED <<wallet, checks, request>>

\* The backend finds the signature to be of the wallet; its token is stored and shown,
\* whatever the wallet is now.
loggedIn ==
  /\ login # None /\ login.phase = "verify" /\ login.signedBy = login.wallet
  /\ Store(login.wallet, login.signedBy)
  /\ authenticated' = TRUE /\ walletAddress' = login.wallet
  /\ login' = None
  /\ UNCHANGED <<wallet, checks, request>>

\* It fails: there is no session, whatever there was.
loginFails ==
  /\ login # None
  /\ token' = 0 /\ authenticated' = FALSE
  /\ login' = None
  /\ UNCHANGED <<wallet, issued, walletAddress, checks, request>>

-----------------------------------------------------------------------------
(***************************************************************************)
(* The effect of a wallet, and of another object for it, which another     *)
(* page makes: the token is checked, and older checks are not active.  An  *)
(* account that is switched in the wallet has no effect, but the check may *)
(* come to see it.                                                         *)
(***************************************************************************)

switchAccount ==
  /\ wallet # None
  /\ \E w \in Wallets \ {wallet} :
       /\ wallet' = w
       /\ checks' = {IF c.active THEN [c EXCEPT !.seen = @ \cup {w}] ELSE c : c \in checks}
  /\ UNCHANGED <<token, issued, session, login, request>>

Effect ==
  /\ Cardinality(checks) <= MaxChecks
  /\ wallet' \in Wallets \cup {None}
  /\ LET older == {[c EXCEPT !.active = FALSE] : c \in checks} IN
       IF wallet' = None \/ token = 0
       THEN checks' = older /\ authenticated' = FALSE /\ walletAddress' = None
       ELSE /\ checks' = older \cup {[seen |-> {wallet'}, token |-> token, active |-> TRUE]}
            /\ UNCHANGED session
  /\ UNCHANGED <<token, issued, login, request>>

\* Mutant: the wallet is not asked.
MutantChecked(c) ==
  /\ c \in checks /\ Valid(c.token)
  /\ checks' = checks \ {c}
  /\ IF ~c.active
     THEN UNCHANGED session
     ELSE authenticated' = TRUE /\ walletAddress' = issued[c.token].wallet
  /\ UNCHANGED <<wallet, token, issued, login, request>>

\* The backend and the wallet answer: the token is of the wallet, or the session ends.
checked(c) ==
  /\ c \in checks /\ Valid(c.token)
  /\ checks' = checks \ {c}
  /\ \E address \in c.seen :
       IF ~c.active
       THEN UNCHANGED <<token, session>>
       ELSE IF address = issued[c.token].wallet
       THEN authenticated' = TRUE /\ walletAddress' = address /\ UNCHANGED token
       ELSE logout
  /\ UNCHANGED <<wallet, issued, login, request>>

\* The check fails; a 401 drops the token, even if the check is not active any more.
checkFails(c) ==
  /\ c \in checks
  /\ checks' = checks \ {c}
  /\ \/ c.active /\ logout
     \/ ~c.active /\ Valid(c.token) /\ UNCHANGED <<token, session>>
     \/ ~c.active /\ ~Valid(c.token) /\ token' = 0 /\ UNCHANGED session
  /\ UNCHANGED <<wallet, issued, login, request>>

-----------------------------------------------------------------------------
(***************************************************************************)
(* Other requests, the backend and other tabs.                             *)
(***************************************************************************)

beginRequest ==
  /\ request = None
  /\ request' = token
  /\ UNCHANGED <<wallet, token, issued, session, login, checks>>

\* The answer is a 401 if the token is none or is not valid: it drops what is stored.
endRequest ==
  /\ request # None
  /\ request' = None
  /\ \/ UNCHANGED token
     \/ ~Valid(request) /\ token' = 0
  /\ UNCHANGED <<wallet, issued, session, login, checks>>

Expire ==
  /\ \E t \in DOMAIN issued :
       issued[t].valid /\ issued' = [issued EXCEPT ![t].valid = FALSE]
  /\ UNCHANGED <<wallet, token, session, login, checks, request>>

\* Another tab logs in or out.
OtherTab ==
  /\ \/ \E w \in Wallets : Store(w, w)
     \/ token # 0 /\ token' = 0 /\ UNCHANGED issued
  /\ UNCHANGED <<wallet, session, login, checks, request>>

Next ==
  \/ SignOut \/ beginLogin \/ challenged \/ signed \/ loggedIn \/ loginFails
  \/ switchAccount \/ Effect
  \/ \E c \in checks : checked(c) \/ checkFails(c)
  \/ beginRequest \/ endRequest \/ Expire \/ OtherTab

Spec == Init /\ [][Next]_vars

-----------------------------------------------------------------------------

(***************************************************************************)
(* A token was given for the signature of its own wallet's key, and the    *)
(* session that is shown is that of a wallet with a token: neither a       *)
(* switch of the account between the challenge and the signature nor a     *)
(* late login or check makes a session of a wallet that did not sign.      *)
(***************************************************************************)
SessionIsSigned ==
  /\ \A t \in DOMAIN issued : issued[t].by = issued[t].wallet
  /\ authenticated => \E t \in DOMAIN issued : issued[t].wallet = walletAddress

\* The effect has been run to its end: there was nothing to check, or the check has ended.
Rechecked ==
  \/ Effect /\ (wallet' = None \/ token = 0)
  \/ \E c \in checks : c.active /\ (checked(c) \/ checkFails(c))

(***************************************************************************)
(* What a late login, a switched account, the login of another tab, a 401, *)
(* or a sign-out during a check leaves wrong, the effects that come with   *)
(* other pages put right: once the wallet stays the same and no token is   *)
(* given or expires, and the effect is run to its end again and again, a   *)
(* session that is shown comes to be that of the wallet for good, and the  *)
(* token that is stored too.  Before that it may be neither.               *)
(***************************************************************************)
SessionHeals ==
  <>[][UNCHANGED <<wallet, issued>>]_vars /\ []<><<Rechecked>>_vars =>
    <>[](authenticated =>
           /\ walletAddress = wallet
           /\ token # 0 /\ issued[token].wallet = wallet)
=============================================================================

--------------------------- MODULE ChannelVerdicts ---------------------------
(***************************************************************************)
(* The verdict of FiberOps on a channel, from what list_channels says of   *)
(* it: that of the service, and that of the portal, which has a copy of    *)
(* the analysis for the node in the browser.                               *)
(*                                                                         *)
(* The totals of the balances stay below the bound where the code          *)
(* saturates.                                                              *)
(***************************************************************************)
EXTENDS FiniteSetsExt, Integers

CONSTANTS
  Readings,      \* what the node may say of a channel
  Significands,  \* of an f64: 2^53, every integer up to which is one
  Scales         \* the powers of two in the range of its exponent

\* A channel as list_channels describes it.
RawChannel ==
  [failure : BOOLEAN, state : STRING, enabled : BOOLEAN, local : Nat, remote : Nat, pending : Nat]

-----------------------------------------------------------------------------
(* The ratio of the balances as the service has it: an f64, which is       *)
(* rounded to the nearest, to the even one of two that are as near.        *)

Rounded(n, d) ==
  LET q == n \div d
      r == n % d
  IN IF 2 * r < d \/ (2 * r = d /\ q % 2 = 0) THEN q ELSE q + 1

\* n as f64: from Significands on, a multiple of the power of two that leaves a significand.
Units(n) == {s \in Scales : Significands * s <= 2 * n /\ n < Significands * s}

ToFloat(n) ==
  LET unit == CHOOSE s \in Units(n) : TRUE
  IN IF n < Significands THEN n ELSE Rounded(n, unit) * unit

\* n / d <= 1 as an f64 <<m, scale>>, which is m / scale with m a significand.
Fractions(n, d) ==
  {s \in Scales : Significands * d <= 2 * n * s /\ n * s < Significands * d}

Quotient(n, d) ==
  LET scale == CHOOSE s \in Fractions(n, d) : TRUE
  IN <<Rounded(n * scale, d), scale>>

Less(x, y) == x[1] * y[2] < y[1] * x[2]

\* The literals 0.15 and 0.30 of the code.
Percent(percent) == Quotient(percent, 100)

\* The balances and their ratio are in the range of an f64.
InRange(raw) ==
  LET local == raw.local
      total == raw.local + raw.remote
  IN local > 0 =>
       /\ local >= Significands => Units(local) # {}
       /\ total >= Significands => Units(total) # {}
       /\ Fractions(ToFloat(local), ToFloat(total)) # {}

\* The range of an f64 holds the balances of a channel, their ratio and the two literals.
VerdictAssumption ==
  /\ Readings \subseteq RawChannel
  /\ Significands \in Nat /\ Significands >= 16
  /\ Scales \subseteq Nat \ {0}
  /\ \A raw \in Readings : InRange(raw)
  /\ \A percent \in {15, 30} : Fractions(percent, 100) # {}

-----------------------------------------------------------------------------
(* The verdict on a channel.                                               *)

\* Mutant: the bound itself counts as low.
MutantBelow(raw, percent) ==
  LET total == raw.local + raw.remote IN
  /\ total > 0
  /\ \/ raw.local = 0
     \/ ~Less(Percent(percent), Quotient(ToFloat(raw.local), ToFloat(total)))

\* Is the share of the local balance below `percent`?  No balance, no verdict.
Below(raw, percent) ==
  LET total == raw.local + raw.remote IN
  /\ total > 0
  /\ \/ raw.local = 0
     \/ Less(Quotient(ToFloat(raw.local), ToFloat(total)), Percent(percent))

Liquidity(raw) ==
  CASE Below(raw, 15) -> 2 [] ~Below(raw, 15) /\ Below(raw, 30) -> 1 [] OTHER -> 0

Pressure(raw) ==
  CASE raw.pending >= 10 -> 3 [] raw.pending \in 3 .. 9 -> 1 [] OTHER -> 0

Judged(score) ==
  CASE score = 0 -> "HEALTHY" [] score \in {1, 2} -> "WARNING" [] OTHER -> "CRITICAL"

\* analyze_channel.
Health(raw) ==
  Judged(Max({Liquidity(raw), Pressure(raw),
              IF raw.failure THEN 3 ELSE 0,
              IF raw.state # "ChannelReady" \/ ~raw.enabled THEN 2 ELSE 0}))

Verdict == [raw \in Readings |-> Health(raw)]

\* The portal takes every state with "ready" in its name for ready.
LooksReady(state) == state \in {"ChannelReady", "AwaitingChannelReady"}

\* The ratio as bigints give it, in ten-thousandths, rounded down; as a number it is below
\* a literal of four digits or fewer exactly if its ten-thousandths are.
BrowserLiquidity(raw) ==
  LET total == raw.local + raw.remote
      ratio == (raw.local * 10000) \div total
  IN CASE total > 0 /\ ratio < 1500 -> 2
       [] total > 0 /\ ratio \in 1500 .. 2999 -> 1
       [] OTHER -> 0

\* analyzeChannel of the browser runtime, which knows no opening failures.
BrowserHealth(raw) ==
  Judged(Max({BrowserLiquidity(raw),
              IF raw.pending >= 10 THEN 3 ELSE IF raw.pending >= 3 THEN 1 ELSE 0,
              IF ~LooksReady(raw.state) \/ ~raw.enabled THEN 2 ELSE 0}))

BrowserVerdict == [raw \in Readings |-> BrowserHealth(raw)]

-----------------------------------------------------------------------------
(* Properties                                                              *)

\* The share of the local balance is as near to 30 % as an f64 cannot tell, and the total
\* is at least a fifteenth of the integers that are all f64s.
AtTheBound(raw) ==
  LET total == raw.local + raw.remote
      gap == 10 * raw.local - 3 * total
  IN /\ Significands <= 15 * total
     /\ Significands * gap <= 15 * total /\ Significands * (0 - gap) <= 15 * total

(***************************************************************************)
(* The service judges the share of the local balance as an f64, its copy   *)
(* in the portal by bigints.  Their verdicts on a reading differ in two    *)
(* cases only.  At the 30 % bound of a large channel, where rounding takes *)
(* the service to either side of the literal 0.30, one of them says        *)
(* WARNING and the other HEALTHY, whichever of the two is the portal.      *)
(* Otherwise the portal is the milder one, and it is because it reads      *)
(* less: no opening failures, and "ready" in a name as ready.              *)
(***************************************************************************)
DiffersAsKnown(raw) ==
  LET service == Verdict[raw]
      portal == BrowserVerdict[raw]
  IN
  \/ portal = service
  \/ AtTheBound(raw) /\ {portal, service} = {"HEALTHY", "WARNING"}
  \/ /\ raw.failure \/ raw.state = "AwaitingChannelReady"
     /\ service = "CRITICAL" \/ (service = "WARNING" /\ portal = "HEALTHY")

=============================================================================

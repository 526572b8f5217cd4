--------------------------- MODULE MCChannelHealth ---------------------------
(***************************************************************************)
(* FiberOps with readings of the channels on both sides of the bounds of   *)
(* analyze_channel, and payments that are under way.  A float has 8 bits,  *)
(* so that a total of 257 is large: 77 of it are less than 30 %, and the   *)
(* service rounds them to 30 %; 79 of 263 are more, and it rounds them to  *)
(* less.                                                                   *)
(***************************************************************************)
EXTENDS FiberOps

Ready(local, remote, pending) ==
  [failure |-> FALSE, state |-> "ChannelReady", enabled |-> TRUE,
   local |-> local, remote |-> remote, pending |-> pending]

MCReadings ==
  {Ready(3, 7, 2), Ready(77, 180, 0), Ready(79, 184, 0), Ready(0, 0, 10),
   [Ready(50, 50, 0) EXCEPT !.state = "AwaitingChannelReady"],
   [Ready(14, 86, 3) EXCEPT !.failure = TRUE]}

MCScales == {2^k : k \in 0 .. 12}

\* A payment under way, alone or for a cross-chain order, and one whose invoice was cancelled.
MCBeginnings ==
  LET s(i, p, c) == [invoice |-> i, payment |-> p, cch |-> c] IN
    {s("Open", "Inflight", None), s("Open", "Inflight", "IncomingAccepted"),
     s("Cancelled", "Inflight", None)}
=============================================================================

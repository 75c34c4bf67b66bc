---------------------------- MODULE MCMarketData ----------------------------
(* Two instruments for MarketData and two sessions of trading hours, with ticks
   before, between and after them. *)
EXTENDS MarketData

MCSections == { <<4, 8>>, <<10, 14>> }

MCTick(c, t, v, p) ==
  [code |-> c, time |-> t, volume |-> v, price |-> p, bid |-> 1, ask |-> 2]

\* A file with ticks at the times of T; what is traded alternates, and so do the
\* prices, from p on.
MCFile(c, T, p) ==
  LET times == SetToSortSeq(T, <)
  IN [i \in 1..Len(times) |->
        MCTick(c, times[i], <<1, 3, 4, 7, 8>>[i], IF (i + p) % 2 = 0 THEN 1 ELSE 2)]

MCFiles ==
  { [c \in {1, 2} |-> IF c = 1 THEN MCFile(1, T, 1) ELSE MCFile(2, U, 2)] :
      T \in {{}} \cup UNION {kSubset(k, {3, 5, 7, 9, 11, 13}) : k \in {3, 4}}, U \in {{}, {5, 7, 12}} }

MCReceiver(s, feed, c) == [strategy |-> s, feed |-> feed, code |-> c]

MCStrategies ==
  { { MCReceiver(1, "tick", 1), MCReceiver(2, "tick", 1) },
    { MCReceiver(1, "tape", 1), MCReceiver(1, "bar", 1) },
    { MCReceiver(1, "tick", 1), MCReceiver(1, "bar", 2), MCReceiver(2, "tape", 1) } }
=============================================================================

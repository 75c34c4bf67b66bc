------------------------- MODULE MCTraderSimulator -------------------------
(* Small markets and accounts for TraderSimulator. *)
EXTENDS TraderSimulator

\* Two prices.  With these the average price of the few lots a run can hold is
\* an integer whatever it was bought at: MarginBacked fails if it is not.
Low  == 2160
High == 4320

Level(p, n) == [x \in {p} |-> n]
NoLevel == [x \in {} |-> 0]

Q(p, bids, asks) == [price |-> p, bids |-> bids, asks |-> asks]

\* At High a buyer crosses and a seller queues, or the other way round.
MCSides ==
  { Q(High, Level(Low, 1), Level(High, 1)), Q(High, Level(High, 1), Level(6480, 1)) }

\* The price moves: last at the bid, last at the ask, and a limit-up market in
\* which nobody sells.
MCMoves ==
  { Q(Low, Level(Low, 2), Level(High, 1)),
    Q(High, Level(Low, 1), Level(High, 2)),
    Q(High, Level(High, 1), NoLevel) }

MCFee == [x \in {"open", "close", "clstd"} |-> 1]
=============================================================================

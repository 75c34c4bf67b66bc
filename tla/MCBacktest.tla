----------------------------- MODULE MCBacktest -----------------------------
(* A market of two prices for Backtest; money never runs out. *)
EXTENDS Backtest

Level(p, n) == [x \in {p} |-> n]

Q(p, bids, asks) == [price |-> p, bids |-> bids, asks |-> asks]

\* A seller at 1 and a buyer at 1 in turn: every order deals in one of them.
MCQuotes == { Q(1, Level(1, 1), Level(2, 1)), Q(2, Level(1, 1), Level(2, 1)) }

MCFee == [x \in {"open", "close", "clstd"} |-> 0]
=============================================================================

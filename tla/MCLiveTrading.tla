---------------------------- MODULE MCLiveTrading ----------------------------
(* Two instruments for LiveTrading: the exchange of the first tells today's
   lots apart, that of the second does not. *)
EXTENDS LiveTrading

Ask(c, offset, n) == [code |-> c, offset |-> offset, direction |-> "long", total |-> n]

MCFewRequests == { Ask(1, "open", 2), Ask(2, "clstd", 1) }

Lots(today, yestoday) ==
  [b \in Buckets |-> [d \in Dirs |->
     IF d = "short" THEN 0 ELSE IF b = "today" THEN today ELSE yestoday]]

MCHolding == [c \in {1, 2} |-> IF c = 1 THEN Lots(0, 1) ELSE Lots(1, 0)]
=============================================================================

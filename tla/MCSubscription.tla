--------------------------- MODULE MCSubscription ---------------------------
(* Model-checking instance of Subscription: two bitmasks sharing bit b2.   *)
EXTENDS Subscription

TwoCalls == {"k1", "k2"}
TwoMasks == {"m1", "m2"}
ThreeBits == {"b1", "b2", "b3"}
JoinOrder == [m \in TwoMasks |-> IF m = "m1" THEN <<"b1", "b2">> ELSE <<"b2", "b3">>]
CallMask == [k \in TwoCalls |-> IF k = "k1" THEN "m1" ELSE "m2"]
=============================================================================

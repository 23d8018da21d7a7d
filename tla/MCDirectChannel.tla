-------------------------- MODULE MCDirectChannel ---------------------------
(* Model-checking instance of DirectChannel.                               *)
EXTENDS DirectChannel

OneCaller == {"c1"}
TwoCallers == {"c1", "c2"}
=============================================================================

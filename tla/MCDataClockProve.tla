------------------------- MODULE MCDataClockProve --------------------------
(* Model-checking instance of DataClockProve: one or two prove goroutines, *)
(* a producer staging two transactions, frames up to number 3.            *)
EXTENDS DataClockProve

\* One caller: the engine loop that calls prove once per tick.
OneThread == {"t1"}
\* Two callers racing on the same engine.
TwoThreads == {"t1", "t2"}
=============================================================================

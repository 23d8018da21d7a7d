-------------------------- MODULE MCDataClockSync --------------------------
(* Model-checking instance of DataClockSync: two peers, frames up to 3.   *)
EXTENDS DataClockSync

\* Every deviation a peer can make.
EveryFault == AllFaults
\* Every deviation except a nil response, which the code does not treat as
\* a protocol violation.
AllButNil == AllFaults \ {"nil"}
\* Peers that answer every request with a nil response.
NilOnly == {"nil"}
\* Honest peers that never deviate.
NoFaults == {}
=============================================================================

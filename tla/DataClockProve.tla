--------------------------- MODULE DataClockProve ---------------------------
(***************************************************************************)
(* The proving pipeline of the data-clock consensus engine:               *)
(* DataClockConsensusEngine.prove (consensus_frames.go, lines 58-213)     *)
(* together with the producers that append to the staging buffer          *)
(* e.stagedTransactions under e.stagedTransactionsMx.                      *)
(*                                                                         *)
(* Each element of Threads is a goroutine that calls prove(prev); its     *)
(* program counter pc[t] marks the point of prove it has reached.  The    *)
(* staging mutex is the variable mx.  Transactions are the numbers        *)
(* 1..MaxTx, handed out in order by the producers.  A frame is abstracted *)
(* to its frame number; frames[n] counts the frames of number n that      *)
(* prove has returned.                                                     *)
(***************************************************************************)
EXTENDS Naturals, FiniteSets

CONSTANTS
    Threads,   \* goroutines that may call prove
    MaxFrame,  \* highest frame number passed to prove as prev
    MaxTx,     \* number of transactions the producers stage
    MaxCalls,  \* number of prove calls in one behaviour
    None       \* model value: the mutex is free

ASSUME ConstAssumption ==
    /\ Threads # {}
    /\ None \notin Threads
    /\ MaxFrame \in Nat
    /\ MaxTx \in Nat
    /\ MaxCalls \in Nat

VARIABLES
    lastProven,  \* e.lastProven
    staged,      \* e.stagedTransactions, as the set of staged transactions
    nextTx,      \* the next transaction a producer stages
    mx,          \* holder of e.stagedTransactionsMx, or None
    pc,          \* pc[t]: where goroutine t is in prove
    prev,        \* prev[t]: previousFrame.FrameNumber of t's call
    taken,       \* taken[t]: the transactions t's ApplyTransitions consumed
    frames,      \* frames[n]: frames of number n returned by prove
    included,    \* transactions consumed by a round that produced a frame
    discarded,   \* transactions consumed by a round that failed
    calls        \* prove calls made so far

vars == <<lastProven, staged, nextTx, mx, pc, prev, taken, frames,
          included, discarded, calls>>

Tx == 1..MaxTx
Heights == 1..(MaxFrame + 1)
PC == {"idle", "check", "lock", "materialize", "apply", "release", "crypto"}

\* The frames that exist and may be passed to prove: genesis and every
\* frame prove has returned.
Known == {0} \cup {n \in 1..MaxFrame : frames[n] > 0}

TypeOK ==
    /\ lastProven \in 0..MaxFrame
    /\ staged \in SUBSET Tx
    /\ nextTx \in 1..(MaxTx + 1)
    /\ mx \in Threads \cup {None}
    /\ pc \in [Threads -> PC]
    /\ prev \in [Threads -> 0..MaxFrame]
    /\ taken \in [Threads -> SUBSET Tx]
    /\ frames \in [Heights -> Nat]
    /\ included \in SUBSET Tx
    /\ discarded \in SUBSET Tx
    /\ calls \in 0..MaxCalls

Init ==
    /\ lastProven = 0
    /\ staged = {}
    /\ nextTx = 1
    /\ mx = None
    /\ pc = [t \in Threads |-> "idle"]
    /\ prev = [t \in Threads |-> 0]
    /\ taken = [t \in Threads |-> {}]
    /\ frames = [n \in Heights |-> 0]
    /\ included = {}
    /\ discarded = {}
    /\ calls = 0

-----------------------------------------------------------------------------
(* A producer stages a transaction: lock, append, unlock.                  *)
Stage ==
    /\ mx = None
    /\ nextTx <= MaxTx
    /\ staged' = staged \cup {nextTx}
    /\ nextTx' = nextTx + 1
    /\ UNCHANGED <<lastProven, mx, pc, prev, taken, frames, included,
                   discarded, calls>>

(* The caller of prove passes a frame it knows of as previousFrame.        *)
Call(t) ==
    /\ pc[t] = "idle"
    /\ calls < MaxCalls
    /\ \E p \in Known : prev' = [prev EXCEPT ![t] = p]
    /\ pc' = [pc EXCEPT ![t] = "check"]
    /\ calls' = calls + 1
    /\ UNCHANGED <<lastProven, staged, nextTx, mx, taken, frames, included,
                   discarded>>

\* Mutant: the comparison made strict, so prove(prev) re-proves prev.
ShortCircuitStrict(t) == lastProven > prev[t] /\ lastProven # 0
\* Mutant: only the same prev short-circuits, an older one is re-proved.
ShortCircuitSameOnly(t) == lastProven = prev[t] /\ lastProven # 0

(* Line 61: the short-circuit, read without holding any lock.             *)
ShortCircuit(t) == lastProven >= prev[t] /\ lastProven # 0

Check(t) ==
    /\ pc[t] = "check"
    /\ pc' = [pc EXCEPT ![t] = IF ShortCircuit(t) THEN "idle" ELSE "lock"]
    /\ UNCHANGED <<lastProven, staged, nextTx, mx, prev, taken, frames,
                   included, discarded, calls>>

(* Line 64: e.stagedTransactionsMx.Lock().                                 *)
Lock(t) ==
    /\ pc[t] = "lock"
    /\ mx = None
    /\ mx' = t
    /\ pc' = [pc EXCEPT ![t] = "materialize"]
    /\ UNCHANGED <<lastProven, staged, nextTx, prev, taken, frames,
                   included, discarded, calls>>

(* Lines 66-87: load the tries and materialize the application; on        *)
(* failure unlock and return, leaving the staged transactions in place.    *)
Materialize(t) ==
    /\ pc[t] = "materialize"
    /\ \/ /\ pc' = [pc EXCEPT ![t] = "apply"]
          /\ UNCHANGED mx
       \/ /\ mx' = None
          /\ pc' = [pc EXCEPT ![t] = "idle"]
    /\ UNCHANGED <<lastProven, staged, nextTx, prev, taken, frames,
                   included, discarded, calls>>

\* Mutant: the mutex is released before the buffer is reset.
ApplyUnlockEarly(t) ==
    /\ pc[t] = "apply"
    /\ \/ /\ taken' = [taken EXCEPT ![t] = staged]
          /\ pc' = [pc EXCEPT ![t] = "release"]
          /\ mx' = None
          /\ UNCHANGED <<staged, discarded>>
       \/ /\ discarded' = discarded \cup staged
          /\ staged' = {}
          /\ mx' = None
          /\ pc' = [pc EXCEPT ![t] = "idle"]
          /\ UNCHANGED taken
    /\ UNCHANGED <<lastProven, nextTx, prev, frames, included, calls>>

(* Lines 94-111: ApplyTransitions over the staged transactions.  On        *)
(* failure the buffer is reset and the mutex released (lines 101-104).     *)
Apply(t) ==
    /\ pc[t] = "apply"
    /\ \/ /\ taken' = [taken EXCEPT ![t] = staged]
          /\ pc' = [pc EXCEPT ![t] = "release"]
          /\ UNCHANGED <<staged, mx, discarded>>
       \/ /\ discarded' = discarded \cup staged
          /\ staged' = {}
          /\ mx' = None
          /\ pc' = [pc EXCEPT ![t] = "idle"]
          /\ UNCHANGED taken
    /\ UNCHANGED <<lastProven, nextTx, prev, frames, included, calls>>

(* Lines 112-113: reset the staging buffer, then unlock.                   *)
Release(t) ==
    /\ pc[t] = "release"
    /\ staged' = {}
    /\ mx' = None
    /\ pc' = [pc EXCEPT ![t] = "crypto"]
    /\ UNCHANGED <<lastProven, nextTx, prev, taken, frames, included,
                   discarded, calls>>

(* Lines 115-212, outside the lock: output state, marshalling, digest,     *)
(* CommitRaw, ProveRaw and ProveDataClockFrame.  Any of them may fail,     *)
(* and the consumed transactions are then lost with the round; on success  *)
(* the frame prev+1 is returned and lastProven set to prev (line 205).     *)
Crypto(t) ==
    /\ pc[t] = "crypto"
    /\ pc' = [pc EXCEPT ![t] = "idle"]
    /\ taken' = [taken EXCEPT ![t] = {}]
    /\ \/ /\ frames' = [frames EXCEPT ![prev[t] + 1] = @ + 1]
          /\ lastProven' = prev[t]
          /\ included' = included \cup taken[t]
          /\ UNCHANGED discarded
       \/ /\ discarded' = discarded \cup taken[t]
          /\ UNCHANGED <<frames, lastProven, included>>
    /\ UNCHANGED <<staged, nextTx, mx, prev, calls>>

Next ==
    \/ Stage
    \/ \E t \in Threads :
          \/ Call(t) \/ Check(t) \/ Lock(t) \/ Materialize(t)
          \/ Apply(t) \/ Release(t) \/ Crypto(t)

Spec == Init /\ [][Next]_vars

-----------------------------------------------------------------------------
(* Properties.                                                              *)

\* The transactions a goroutine holds between the reset of the buffer and
\* the end of its round.
InFlight(t) == IF pc[t] = "crypto" THEN taken[t] ELSE {}

\* Spec section 8, scenario S6, and section 4.3: every transaction a
\* producer staged is, at every moment, in exactly one place: still in the
\* staging buffer, in the hands of one round of prove, in a produced frame,
\* or consumed by a failed round.  None is lost, none counted twice.  This
\* is what the lock held from line 64 to line 113 guarantees.
TxConservation ==
    /\ 1..(nextTx - 1) = staged \cup included \cup discarded
                           \cup UNION {InFlight(t) : t \in Threads}
    /\ staged \cap (included \cup discarded) = {}
    /\ included \cap discarded = {}
    /\ \A t \in Threads :
          InFlight(t) \cap (staged \cup included \cup discarded) = {}
    /\ \A t, u \in Threads : t # u => InFlight(t) \cap InFlight(u) = {}

\* Spec section 4.3 step 1 and section 8 property 3: once prove(prev) has
\* produced a frame for a non-genesis prev, a later prove(prev) takes the
\* short-circuit at line 61, so no frame number above 1 is produced twice.
ShortCircuitHolds == \A n \in 2..(MaxFrame + 1) : frames[n] <= 1

\* Spec section 8 properties 3 and 6, for every prev including genesis:
\* prove never produces two frames with the same number.
ProveIdempotent == \A n \in Heights : frames[n] <= 1

\* Spec section 4.3 step 14: lastProven, written at line 205, never moves
\* back, so the short-circuit at line 61 never re-opens a proven height.
LastProvenMonotone == [][lastProven' >= lastProven]_lastProven

-----------------------------------------------------------------------------
(* The inductive strengthening of TxConservation used by the proofs in     *)
(* DataClockProveProofs: the staging mutex is held exactly by the          *)
(* goroutine between Lock and Release, and a goroutine about to reset the  *)
(* buffer has taken exactly the staged transactions.                        *)
Locked == {"materialize", "apply", "release"}

LockHeld == \A t \in Threads : (mx = t) <=> (pc[t] \in Locked)

TakenIsStaged == \A t \in Threads : pc[t] = "release" => taken[t] = staged

IInv == TypeOK /\ LockHeld /\ TakenIsStaged /\ TxConservation

=============================================================================

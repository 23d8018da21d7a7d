------------------------ MODULE DataClockProveProofs ------------------------
(***************************************************************************)
(* Proofs about the proving pipeline of DataClockProve, for every set of  *)
(* goroutines and every bound.                                             *)
(***************************************************************************)
EXTENDS DataClockProve, TLAPS

USE ConstAssumption

-----------------------------------------------------------------------------
(* Every step keeps every variable in its type.                            *)
LEMMA TypeStep == TypeOK /\ [Next]_vars => TypeOK'
<1> SUFFICES ASSUME TypeOK, [Next]_vars PROVE TypeOK'
  OBVIOUS
<1>1. CASE Stage
  BY <1>1 DEF Stage, TypeOK, Tx
<1>2. ASSUME NEW t \in Threads, Call(t) PROVE TypeOK'
  BY <1>2 DEF Call, TypeOK, Known, PC
<1>3. ASSUME NEW t \in Threads, Check(t) PROVE TypeOK'
  BY <1>3 DEF Check, TypeOK, PC
<1>4. ASSUME NEW t \in Threads, Lock(t) PROVE TypeOK'
  BY <1>4 DEF Lock, TypeOK, PC
<1>5. ASSUME NEW t \in Threads, Materialize(t) PROVE TypeOK'
  BY <1>5 DEF Materialize, TypeOK, PC
<1>6. ASSUME NEW t \in Threads, Apply(t) PROVE TypeOK'
  BY <1>6 DEF Apply, TypeOK, PC
<1>7. ASSUME NEW t \in Threads, Release(t) PROVE TypeOK'
  BY <1>7 DEF Release, TypeOK, PC
<1>8. ASSUME NEW t \in Threads, Crypto(t) PROVE TypeOK'
  <2>1. prev[t] + 1 \in Heights /\ prev[t] \in 0..MaxFrame
    BY DEF TypeOK, Heights
  <2>2. taken[t] \subseteq Tx
    BY DEF TypeOK
  <2>3. CASE /\ frames' = [frames EXCEPT ![prev[t] + 1] = @ + 1]
             /\ lastProven' = prev[t]
             /\ included' = included \cup taken[t]
             /\ UNCHANGED discarded
    BY <1>8, <2>1, <2>2, <2>3 DEF Crypto, TypeOK, PC
  <2>4. CASE /\ discarded' = discarded \cup taken[t]
             /\ UNCHANGED <<frames, lastProven, included>>
    BY <1>8, <2>2, <2>4 DEF Crypto, TypeOK, PC
  <2>5. QED
    BY <1>8, <2>3, <2>4 DEF Crypto
<1>9. CASE UNCHANGED vars
  BY <1>9 DEF vars, TypeOK
<1>10. QED
  BY <1>1, <1>2, <1>3, <1>4, <1>5, <1>6, <1>7, <1>8, <1>9 DEF Next

(* Type correctness: every variable stays in its type, in particular       *)
(* lastProven, which prove sets at line 205 to the prev of the call.       *)
THEOREM TypeCorrect == Spec => []TypeOK
<1>1. Init => TypeOK
  BY DEF Init, TypeOK, Heights, PC, Tx
<1>2. QED
  BY <1>1, TypeStep, PTL DEF Spec

-----------------------------------------------------------------------------
(* The transactions held by rounds of prove, all together and all but      *)
(* goroutine t's.                                                           *)
Flight == UNION {InFlight(u) : u \in Threads}
Others(t) == UNION {InFlight(u) : u \in Threads \ {t}}

\* The held transactions are t's and the others'.
LEMMA FlightSplit ==
  ASSUME NEW t \in Threads
  PROVE  Flight = InFlight(t) \cup Others(t)
BY DEF Flight, Others

\* A step that leaves the other goroutines alone leaves their held
\* transactions alone.
LEMMA OthersUnchanged ==
  ASSUME NEW t \in Threads,
         \A u \in Threads \ {t} : pc'[u] = pc[u] /\ taken'[u] = taken[u]
  PROVE  Others(t)' = Others(t)
<1>1. \A u \in Threads \ {t} : InFlight(u)' = InFlight(u)
  BY DEF InFlight
<1>2. QED
  BY <1>1 DEF Others

\* TxConservation, restated over Flight.
Conserved ==
  /\ 1..(nextTx - 1) = staged \cup included \cup discarded \cup Flight
  /\ staged \cap (included \cup discarded) = {}
  /\ included \cap discarded = {}
  /\ \A t \in Threads :
        InFlight(t) \cap (staged \cup included \cup discarded) = {}
  /\ \A t, u \in Threads : t # u => InFlight(t) \cap InFlight(u) = {}

LEMMA ConservedIsTxConservation == Conserved <=> TxConservation
BY DEF Conserved, TxConservation, Flight

\* The same, in the next state.
LEMMA ConservedIsTxConservationNext == Conserved' <=> TxConservation'
BY DEF Conserved, TxConservation, Flight

\* The split of the held transactions, in the next state.
LEMMA FlightSplitNext ==
  ASSUME NEW t \in Threads
  PROVE  Flight' = InFlight(t)' \cup Others(t)'
BY DEF Flight, Others

-----------------------------------------------------------------------------
(* Facts that hold in every state of IInv.                                  *)

\* Everything recorded lies below nextTx.
LEMMA BelowNext ==
  ASSUME IInv
  PROVE  /\ nextTx \notin staged \cup included \cup discarded \cup Flight
         /\ nextTx \in Nat
BY DEF IInv, TxConservation, TypeOK, Flight

\* While the mutex is free, or held by t, no other goroutine is between
\* Lock and Release.
LEMMA NoOtherLocked ==
  ASSUME IInv, NEW t \in Threads, mx \in {None, t},
         NEW u \in Threads \ {t}
  PROVE  pc[u] \notin Locked
BY DEF IInv, LockHeld

(* The steps of a single goroutine t that neither touch the buffer nor     *)
(* enter or leave the "crypto" state keep the held transactions.           *)
LEMMA FlightKept ==
  ASSUME TypeOK, NEW t \in Threads,
         pc[t] # "crypto", pc'[t] # "crypto",
         \A u \in Threads \ {t} : pc'[u] = pc[u] /\ taken'[u] = taken[u]
  PROVE  /\ Flight' = Flight
         /\ \A u \in Threads : InFlight(u)' = InFlight(u)
<1>1. InFlight(t)' = {} /\ InFlight(t) = {}
  BY DEF InFlight
<1>2. \A u \in Threads : InFlight(u)' = InFlight(u)
  BY <1>1 DEF InFlight
<1>3. QED
  BY <1>2 DEF Flight

-----------------------------------------------------------------------------
(* Spec scenario S6: no staged transaction is lost or counted twice, for   *)
(* any number of goroutines calling prove and any bounds.  The argument:   *)
(* every move of a transaction happens under the staging mutex or to the   *)
(* holder's own InFlight set, and between Apply and Release the holder's   *)
(* taken set is the buffer itself (IInv).                                   *)
THEOREM StagingConservation == Spec => []TxConservation
<1>1. Init => IInv
  BY DEF Init, IInv, TypeOK, LockHeld, TakenIsStaged, TxConservation,
         InFlight, Locked, Heights, PC, Tx
<1>2. IInv /\ [Next]_vars => IInv'
  <2> SUFFICES ASSUME IInv, [Next]_vars PROVE IInv'
    OBVIOUS
  <2> TypeOK /\ TypeOK'
    BY TypeStep DEF IInv
  <2> USE DEF IInv
  <2>1. CASE Stage
    <3>1. \A u \in Threads : pc[u] \notin Locked
      BY <2>1, NoOtherLocked DEF Stage, LockHeld
    <3>2. Flight' = Flight
      BY <2>1 DEF Stage, Flight, InFlight
    <3>3. Conserved'
      BY <2>1, <3>2, BelowNext DEF Stage, Conserved, TxConservation, InFlight,
         Flight, TypeOK
    <3>4. QED
      BY <2>1, <3>1, <3>3, ConservedIsTxConservationNext
         DEF Stage, LockHeld, TakenIsStaged, Locked
  <2>2. ASSUME NEW t \in Threads, Call(t) PROVE IInv'
    <3>1. Flight' = Flight /\ \A u \in Threads : InFlight(u)' = InFlight(u)
      BY <2>2, FlightKept DEF Call, TypeOK
    <3>2. QED
      BY <2>2, <3>1 DEF Call, LockHeld, TakenIsStaged, TxConservation,
         Locked, Flight, TypeOK
  <2>3. ASSUME NEW t \in Threads, Check(t) PROVE IInv'
    <3>1. Flight' = Flight /\ \A u \in Threads : InFlight(u)' = InFlight(u)
      BY <2>3, FlightKept DEF Check, TypeOK
    <3>2. QED
      BY <2>3, <3>1 DEF Check, LockHeld, TakenIsStaged, TxConservation,
         Locked, Flight, TypeOK
  <2>4. ASSUME NEW t \in Threads, Lock(t) PROVE IInv'
    <3>1. \A u \in Threads \ {t} : pc[u] \notin Locked
      BY <2>4, NoOtherLocked DEF Lock
    <3>2. Flight' = Flight /\ \A u \in Threads : InFlight(u)' = InFlight(u)
      BY <2>4, FlightKept DEF Lock, TypeOK
    <3>3. QED
      BY <2>4, <3>1, <3>2 DEF Lock, LockHeld, TakenIsStaged, TxConservation,
         Locked, Flight, TypeOK
  <2>5. ASSUME NEW t \in Threads, Materialize(t) PROVE IInv'
    <3>1. \A u \in Threads \ {t} : pc[u] \notin Locked
      BY <2>5, NoOtherLocked DEF Materialize, LockHeld, Locked
    <3>2. Flight' = Flight /\ \A u \in Threads : InFlight(u)' = InFlight(u)
      BY <2>5, FlightKept DEF Materialize, TypeOK
    <3>3. QED
      BY <2>5, <3>1, <3>2 DEF Materialize, LockHeld, TakenIsStaged,
         TxConservation, Locked, Flight, TypeOK
  <2>6. ASSUME NEW t \in Threads, Apply(t) PROVE IInv'
    <3>1. mx = t
      BY <2>6 DEF Apply, LockHeld, Locked
    <3>2. \A u \in Threads \ {t} : pc[u] \notin Locked
      BY <3>1, NoOtherLocked
    <3>3. Flight' = Flight /\ \A u \in Threads : InFlight(u)' = InFlight(u)
      BY <2>6, FlightKept DEF Apply, TypeOK
    <3>4. CASE /\ taken' = [taken EXCEPT ![t] = staged]
               /\ pc' = [pc EXCEPT ![t] = "release"]
               /\ UNCHANGED <<staged, mx, discarded>>
      BY <2>6, <3>1, <3>2, <3>3, <3>4 DEF Apply, LockHeld, TakenIsStaged,
         TxConservation, Locked, Flight, TypeOK
    <3>5. CASE /\ discarded' = discarded \cup staged
               /\ staged' = {}
               /\ mx' = None
               /\ pc' = [pc EXCEPT ![t] = "idle"]
               /\ UNCHANGED taken
      <4>1. LockHeld' /\ TakenIsStaged'
        BY <2>6, <3>2, <3>5 DEF Apply, LockHeld, TakenIsStaged, Locked,
           TypeOK
      <4>2. Conserved'
        BY <2>6, <3>3, <3>5, ConservedIsTxConservation DEF Apply, Conserved
      <4>3. QED
        BY <4>1, <4>2, ConservedIsTxConservationNext
    <3>6. QED
      BY <2>6, <3>4, <3>5 DEF Apply
  <2>7. ASSUME NEW t \in Threads, Release(t) PROVE IInv'
    <3>1. mx = t /\ taken[t] = staged /\ InFlight(t) = {}
      BY <2>7 DEF Release, LockHeld, Locked, TakenIsStaged, InFlight
    <3>2. \A u \in Threads \ {t} : pc[u] \notin Locked
      BY <3>1, NoOtherLocked
    <3>3. InFlight(t)' = staged
      BY <2>7, <3>1 DEF Release, InFlight, TypeOK
    <3>4. Others(t)' = Others(t)
      BY <2>7, OthersUnchanged DEF Release, TypeOK
    <3>5. Flight' = staged \cup Others(t) /\ Flight = Others(t)
      BY <3>1, <3>3, <3>4, FlightSplit, FlightSplitNext
    <3>6. \A u \in Threads \ {t} : InFlight(u)' = InFlight(u)
      BY <2>7 DEF Release, InFlight, TypeOK
    <3>7. Conserved'
      BY <2>7, <3>3, <3>5, <3>6, ConservedIsTxConservation
         DEF Release, Conserved
    <3>8. QED
      BY <2>7, <3>2, <3>7, ConservedIsTxConservationNext
         DEF Release, LockHeld, TakenIsStaged, Locked, TypeOK
  <2>8. ASSUME NEW t \in Threads, Crypto(t) PROVE IInv'
    <3>1. mx # t
      BY <2>8 DEF Crypto, LockHeld, Locked
    <3>2. InFlight(t) = taken[t] /\ InFlight(t)' = {}
      BY <2>8 DEF Crypto, InFlight, TypeOK
    <3>3. Others(t)' = Others(t)
      BY <2>8, OthersUnchanged DEF Crypto, TypeOK
    <3>4. Flight = taken[t] \cup Others(t) /\ Flight' = Others(t)
      BY <3>2, <3>3, FlightSplit, FlightSplitNext
    <3>5. \A u \in Threads \ {t} : InFlight(u)' = InFlight(u)
      BY <2>8 DEF Crypto, InFlight, TypeOK
    <3>6. Conserved'
      <4>1. CASE /\ included' = included \cup taken[t]
                 /\ UNCHANGED discarded
        BY <2>8, <3>2, <3>4, <3>5, <4>1, ConservedIsTxConservation
           DEF Crypto, Conserved
      <4>2. CASE /\ discarded' = discarded \cup taken[t]
                 /\ UNCHANGED included
        BY <2>8, <3>2, <3>4, <3>5, <4>2, ConservedIsTxConservation
           DEF Crypto, Conserved
      <4>3. QED
        BY <2>8, <4>1, <4>2 DEF Crypto
    <3>7. QED
      BY <2>8, <3>1, <3>6, ConservedIsTxConservationNext
         DEF Crypto, LockHeld, TakenIsStaged, Locked, TypeOK
  <2>9. CASE UNCHANGED vars
    BY <2>9 DEF vars, LockHeld, TakenIsStaged, TxConservation, InFlight
  <2>10. QED
    BY <2>1, <2>2, <2>3, <2>4, <2>5, <2>6, <2>7, <2>8, <2>9 DEF Next
<1>3. IInv => TxConservation
  BY DEF IInv
<1>4. QED
  BY <1>1, <1>2, <1>3, PTL DEF Spec

-----------------------------------------------------------------------------
(* With a single caller goroutine.  prove is not called under src/; the   *)
(* spec allows concurrent callers, and prove_race shows that with two the  *)
(* short-circuit fails.  The results below say what holds when prove is   *)
(* called from one goroutine, such as one engine loop calling it per tick. *)

(* Goroutine t has passed the short-circuit of line 61 in its current call. *)
Passed(t) == pc[t] \in {"lock", "materialize", "apply", "release", "crypto"}

(* Why the short-circuit works for a single caller: a goroutine that got   *)
(* past line 61 proves a frame above lastProven (or lastProven is still   *)
(* genesis), and lastProven is at least the prev of every non-genesis      *)
(* frame produced, so a second call for that prev is short-circuited.      *)
SerialInv ==
    /\ TypeOK
    /\ ShortCircuitHolds
    /\ \A n \in 2..(MaxFrame + 1) : frames[n] > 0 => lastProven >= n - 1
    /\ \A t \in Threads : Passed(t) => (prev[t] > lastProven \/ lastProven = 0)

(* A step of the single goroutine keeps the invariant and never moves      *)
(* lastProven back.                                                         *)
LEMMA SerialStep ==
    ASSUME NEW t0, Threads = {t0}, SerialInv, [Next]_vars
    PROVE  SerialInv' /\ lastProven' >= lastProven
<1> USE DEF SerialInv
<1>1. TypeOK'
  BY TypeStep
<1> DEFINE Keep == UNCHANGED <<lastProven, prev, frames>>
<1>2. ASSUME Keep, ~Passed(t0)' PROVE SerialInv' /\ lastProven' >= lastProven
  BY <1>1, <1>2 DEF ShortCircuitHolds, TypeOK
<1>3. ASSUME Keep, Passed(t0)', Passed(t0) PROVE SerialInv' /\ lastProven' >= lastProven
  BY <1>1, <1>3 DEF ShortCircuitHolds, TypeOK
<1>4. CASE Stage \/ UNCHANGED vars
  <2>1. Keep /\ pc' = pc
    BY <1>4 DEF Stage, vars
  <2>2. QED
    BY <2>1, <1>2, <1>3 DEF Passed
<1>5. CASE Call(t0)
  <2>1. Keep \/ pc'[t0] = "check"
    BY <1>5 DEF Call, TypeOK
  <2>2. UNCHANGED <<lastProven, frames>> /\ pc'[t0] = "check"
    BY <1>5 DEF Call, TypeOK
  <2>3. QED
    BY <1>1, <2>2 DEF ShortCircuitHolds, Passed, TypeOK
<1>6. CASE Check(t0)
  <2>1. Keep
    BY <1>6 DEF Check
  <2>2. CASE ShortCircuit(t0)
    BY <1>6, <2>1, <2>2, <1>2 DEF Check, Passed, TypeOK
  <2>3. CASE ~ShortCircuit(t0)
    <3>1. prev[t0] > lastProven \/ lastProven = 0
      BY <2>3 DEF ShortCircuit, TypeOK
    <3>2. QED
      BY <1>1, <1>6, <2>1, <2>3, <3>1 DEF Check, Passed, ShortCircuitHolds, TypeOK
  <2>4. QED
    BY <2>2, <2>3
<1>7. CASE Lock(t0) \/ Materialize(t0) \/ Apply(t0) \/ Release(t0)
  <2>1. Keep /\ Passed(t0)
    BY <1>7 DEF Lock, Materialize, Apply, Release, Passed
  <2>2. QED
    BY <2>1, <1>2, <1>3
<1>8. CASE Crypto(t0)
  <2>1. Passed(t0) /\ pc'[t0] = "idle" /\ UNCHANGED prev
    BY <1>8 DEF Crypto, Passed, TypeOK
  <2>2. prev[t0] > lastProven \/ lastProven = 0
    BY <2>1
  <2>3. CASE UNCHANGED <<frames, lastProven>>
    BY <1>1, <2>1, <2>3 DEF Passed, ShortCircuitHolds, TypeOK
  <2>4. CASE /\ frames' = [frames EXCEPT ![prev[t0] + 1] = @ + 1]
             /\ lastProven' = prev[t0]
    <3> DEFINE p == prev[t0]
    <3>1. p \in 0..MaxFrame /\ lastProven \in 0..MaxFrame
          /\ frames \in [Heights -> Nat] /\ p + 1 \in Heights
      BY DEF TypeOK, Heights
    <3>2. lastProven' >= lastProven
      BY <2>2, <2>4, <3>1
    <3>3. p + 1 >= 2 => frames[p + 1] = 0
      BY <2>2, <3>1 DEF Heights
    <3>4. ShortCircuitHolds'
      BY <2>4, <3>1, <3>3 DEF ShortCircuitHolds, Heights
    <3>5. \A n \in 2..(MaxFrame + 1) : frames'[n] > 0 => lastProven' >= n - 1
      BY <2>4, <3>1, <3>2 DEF Heights
    <3>6. \A t \in Threads : ~Passed(t)'
      BY <2>1 DEF Passed
    <3>7. QED
      BY <1>1, <3>2, <3>4, <3>5, <3>6
  <2>5. QED
    BY <1>8, <2>3, <2>4 DEF Crypto
<1>9. QED
  BY <1>4, <1>5, <1>6, <1>7, <1>8 DEF Next

(* Spec section 4.3 step 1 and section 8 property 3, for a single caller:  *)
(* once prove(prev) has produced a frame for a non-genesis prev, a later   *)
(* prove(prev) takes the short-circuit at line 61, so no frame number      *)
(* above 1 is produced twice.                                               *)
THEOREM SerialShortCircuit ==
    ASSUME NEW t0, Threads = {t0}
    PROVE  Spec => []ShortCircuitHolds
<1>1. Init => SerialInv
  BY DEF Init, SerialInv, TypeOK, ShortCircuitHolds, Passed, Heights, PC
<1>2. SerialInv /\ [Next]_vars => SerialInv'
  BY SerialStep
<1>3. QED
  BY <1>1, <1>2, PTL DEF Spec, SerialInv

(* Spec section 4.3 step 14, for a single caller: lastProven, written at   *)
(* line 205, never moves back, so the short-circuit at line 61 never       *)
(* re-opens a proven height.                                                *)
THEOREM SerialLastProvenMonotone ==
    ASSUME NEW t0, Threads = {t0}
    PROVE  Spec => LastProvenMonotone
<1>1. Init => SerialInv
  BY DEF Init, SerialInv, TypeOK, ShortCircuitHolds, Passed, Heights, PC
<1>2. SerialInv /\ [Next]_vars => SerialInv'
  BY SerialStep
<1>3. SerialInv /\ [Next]_vars => [lastProven' >= lastProven]_lastProven
  BY SerialStep
<1>4. QED
  BY <1>1, <1>2, <1>3, PTL DEF Spec, LastProvenMonotone

=============================================================================

--------------------------- MODULE DataClockSync ----------------------------
(***************************************************************************)
(* The sync side of the data-clock consensus engine (consensus_frames.go): *)
(* collect (lines 25-56), the per-peer pull sync (lines 271-373), the      *)
(* candidate selection GetAheadPeers (lines 215-269) and the demotion of   *)
(* an uncooperative peer (the deferred function at lines 286-297).         *)
(*                                                                         *)
(* One goroutine runs collect; its program counter is pc.  The peers'     *)
(* answers are nondeterministic; Faults names the deviations from an      *)
(* honest answer that they may make.  The environment may upsert peer     *)
(* info, raise the high-water mark e.latestFrameReceived, and stop the     *)
(* engine.  A frame is a record of its number, its timestamp, whether its  *)
(* producer key is in the prover trie, and whether its proof verifies.    *)
(***************************************************************************)
EXTENDS Naturals, Sequences, FiniteSets

CONSTANTS
    Peers,         \* peer ids
    MaxFrame,      \* highest frame number a peer advertises
    MaxEvents,     \* number of environment events (upserts, announcements)
    Faults,        \* deviations peers may make, a subset of AllFaults
    CanStop,       \* whether the engine may be stopped during collect
    SelfIsProver,  \* GetFrameProverTries()[0].Contains(e.provingKeyAddress)
    Absent,        \* model value: no entry in e.peerMap
    Nil            \* model value: a nil *ClockFrame

AllFaults == {"dial", "transport", "nil", "noframe", "badnum", "oldts",
              "nonprover", "badvdf"}

ASSUME ConstAssumption ==
    /\ Peers # {}
    /\ MaxFrame \in Nat
    /\ MaxEvents \in Nat
    /\ Faults \subseteq AllFaults
    /\ CanStop \in BOOLEAN
    /\ SelfIsProver \in BOOLEAN

VARIABLES
    peerMap,    \* e.peerMap: peer -> [maxFrame, fresh] or Absent
    uncoop,     \* the keys of e.uncooperativePeersMap
    hwm,        \* e.latestFrameReceived
    stopping,   \* e.GetState() >= EngineStateStopping
    events,     \* environment events so far
    pc,         \* where collect is
    latest,     \* collect's latest (and sync's latest while it runs)
    cands,      \* candidates of the current pass not yet visited
    cur,        \* the candidate being synced with
    coop,       \* sync's cooperative flag
    reel,       \* frames inserted into the time reel, in order
    offenders   \* peers that have violated the protocol (history)

vars == <<peerMap, uncoop, hwm, stopping, events, pc, latest, cands, cur,
          coop, reel, offenders>>

Nums == 0..(MaxFrame + 1)
Frame == [num : Nums, ts : Nums, prover : BOOLEAN, valid : BOOLEAN]
Info == [maxFrame : 0..MaxFrame, fresh : BOOLEAN]
Candidate == [peer : Peers, maxFrame : 0..MaxFrame]
Genesis == [num |-> 0, ts |-> 0, prover |-> TRUE, valid |-> TRUE]

\* The sentinels are not data: no peer info is Absent, no frame is Nil.
ASSUME SentinelAssumption == Absent \notin Info /\ Nil \notin Frame

Maximum(a, b) == IF a >= b THEN a ELSE b

TypeOK ==
    /\ peerMap \in [Peers -> Info \cup {Absent}]
    /\ uncoop \subseteq Peers
    /\ hwm \in 0..MaxFrame
    /\ stopping \in BOOLEAN
    /\ events \in 0..MaxEvents
    /\ pc \in {"query", "iter", "dial", "request", "done", "panic"}
    /\ latest \in Frame \cup {Nil}
    /\ cands \subseteq Candidate
    /\ cur \in Candidate
    /\ coop \in BOOLEAN
    /\ reel \in Seq(Frame)
    /\ offenders \subseteq Peers

Init ==
    /\ peerMap \in [Peers -> Info \cup {Absent}]
    /\ uncoop = {}
    /\ hwm = 0
    /\ stopping = FALSE
    /\ events = 0
    /\ pc = "query"
    /\ latest = Genesis
    /\ cands = {}
    /\ cur = [peer |-> CHOOSE p \in Peers : TRUE, maxFrame |-> 0]
    /\ coop = TRUE
    /\ reel = <<>>
    /\ offenders = {}

-----------------------------------------------------------------------------

(* GetAheadPeers(head), lines 215-269: every peer of e.peerMap ahead of    *)
(* head that is not uncooperative and whose version and timestamp pass     *)
(* the minimum-version cutoffs.  The weighted shuffle of line 268 can      *)
(* return the candidates in any order, so they are kept as a set and       *)
(* collect visits them in any order.                                       *)
GetAheadPeers(head) ==
    IF SelfIsProver THEN {}
    ELSE {[peer |-> p, maxFrame |-> peerMap[p].maxFrame] :
            p \in {q \in Peers : /\ peerMap[q] # Absent
                                 /\ peerMap[q].maxFrame > head
                                 /\ q \notin uncoop
                                 /\ peerMap[q].fresh}}

\* Mutant: the peer is recorded as uncooperative but its entry is not
\* deleted from e.peerMap.
MarkUncooperativeKeepEntry(p, cooperative) ==
    IF ~cooperative /\ peerMap[p] # Absent
    THEN /\ uncoop' = uncoop \cup {p}
         /\ UNCHANGED peerMap
    ELSE UNCHANGED <<peerMap, uncoop>>

\* Mutant: the deferred demotion never takes effect.
MarkUncooperativeNever(p, cooperative) == UNCHANGED <<peerMap, uncoop>>

(* The deferred function of lines 286-297: when the session was            *)
(* uncooperative, move the peer from e.peerMap to the uncooperative map.   *)
MarkUncooperative(p, cooperative) ==
    IF ~cooperative /\ peerMap[p] # Absent
    THEN /\ uncoop' = uncoop \cup {p}
         /\ peerMap' = [peerMap EXCEPT ![p] = Absent]
    ELSE UNCHANGED <<peerMap, uncoop>>

(* Every return of sync: hand newLatest back to collect (line 41), run     *)
(* the deferred demotion, and go on with the next candidate.               *)
SyncReturn(newLatest, cooperative) ==
    /\ latest' = newLatest
    /\ coop' = cooperative
    /\ MarkUncooperative(cur.peer, cooperative)
    /\ pc' = "iter"

(* Lines 31-35: query the candidates of this pass; stop when there are     *)
(* none.  latest.FrameNumber dereferences latest.                          *)
Query ==
    /\ pc = "query"
    /\ IF latest = Nil
       THEN /\ pc' = "panic"
            /\ UNCHANGED cands
       ELSE LET c == GetAheadPeers(Maximum(latest.num, hwm))
            IN /\ cands' = c
               /\ pc' = IF c = {} THEN "done" ELSE "iter"
    /\ UNCHANGED <<peerMap, uncoop, hwm, stopping, events, latest, cur, coop,
                   reel, offenders>>

(* Lines 36-41: the next candidate; skip it when it is no longer ahead.    *)
Iter ==
    /\ pc = "iter"
    /\ IF cands = {}
       THEN /\ pc' = "query"
            /\ UNCHANGED <<cands, cur, coop>>
       ELSE \E c \in cands :
              /\ cands' = cands \ {c}
              /\ IF latest = Nil
                 THEN /\ pc' = "panic"
                      /\ UNCHANGED <<cur, coop>>
                 ELSE IF c.maxFrame <= Maximum(latest.num, hwm)
                 THEN /\ pc' = "iter"
                      /\ UNCHANGED <<cur, coop>>
                 ELSE /\ cur' = c
                      /\ coop' = TRUE
                      /\ pc' = "dial"
    /\ UNCHANGED <<peerMap, uncoop, hwm, stopping, events, latest, reel,
                   offenders>>

(* Lines 298-306: open the direct channel; failure is uncooperative.       *)
Dial ==
    /\ pc = "dial"
    /\ \/ /\ pc' = "request"
          /\ UNCHANGED <<peerMap, uncoop, latest, coop, offenders>>
       \/ /\ "dial" \in Faults
          /\ offenders' = offenders \cup {cur.peer}
          /\ SyncReturn(latest, FALSE)
    /\ UNCHANGED <<hwm, stopping, events, cands, cur, reel>>

(* The answers a peer may give to a request for latest.FrameNumber+1.      *)
Answers ==
    [num : {latest.num + 1} \cup
           (IF "badnum" \in Faults THEN {latest.num + 2} ELSE {}),
     ts : {latest.ts, latest.ts + 1} \cup
          (IF "oldts" \in Faults /\ latest.ts > 0
           THEN {latest.ts - 1} ELSE {}),
     prover : IF "nonprover" \in Faults THEN BOOLEAN ELSE {TRUE},
     valid : IF "badvdf" \in Faults THEN BOOLEAN ELSE {TRUE}]

\* Mutant: the timestamp is not checked.
InOrderNoTs(f) == f.num = latest.num + 1

(* Lines 344-346: the checks of the frame against latest.                  *)
InOrder(f) == f.num = latest.num + 1 /\ f.ts >= latest.ts

\* Mutant: a verification failure also demotes the peer.
OnVerifyFailureDemotes(cooperative) ==
    /\ SyncReturn(Nil, FALSE)
    /\ UNCHANGED reel

(* Lines 361-365: the frame fails VerifyDataClockFrame; sync returns a nil *)
(* frame and an error, and demotes the peer only if the session was        *)
(* already uncooperative.                                                   *)
OnVerifyFailure(cooperative) ==
    /\ SyncReturn(Nil, cooperative)
    /\ UNCHANGED reel

\* Mutant: the loop does not stop at the candidate's maxFrame.
ReachedMaxNever(f) == FALSE

(* Lines 368-370: sync stops once it has reached the advertised maxFrame. *)
ReachedMax(f) == f.num >= cur.maxFrame

(* Lines 320-372: one iteration of sync's request loop.                    *)
Request ==
    /\ pc = "request"
    /\ \/ /\ stopping                                   \* line 320, 372
          /\ SyncReturn(latest, coop)
          /\ UNCHANGED <<reel, offenders>>
       \/ /\ ~stopping
          /\ \/ /\ "transport" \in Faults               \* lines 330-337
                /\ offenders' = offenders \cup {cur.peer}
                /\ SyncReturn(latest, FALSE)
                /\ UNCHANGED reel
             \/ /\ "nil" \in Faults                     \* lines 339-342
                /\ offenders' = offenders \cup {cur.peer}
                /\ SyncReturn(latest, coop)
                /\ UNCHANGED reel
             \/ /\ "noframe" \in Faults                 \* line 344
                /\ offenders' = offenders \cup {cur.peer}
                /\ SyncReturn(latest, FALSE)
                /\ UNCHANGED reel
             \/ \E f \in Answers :
                  LET ok == coop /\ f.prover               \* lines 356-360
                  IN
                  /\ offenders' = IF InOrder(f) /\ f.prover THEN offenders
                                  ELSE offenders \cup {cur.peer}
                  /\ IF ~InOrder(f)
                     THEN /\ SyncReturn(latest, FALSE)       \* lines 347-349
                          /\ UNCHANGED reel
                     ELSE IF ~f.valid
                     THEN OnVerifyFailure(ok)
                     ELSE /\ reel' = Append(reel, f)         \* lines 366-367
                          /\ IF ReachedMax(f)
                             THEN SyncReturn(f, ok)
                             ELSE /\ latest' = f
                                  /\ coop' = ok
                                  /\ UNCHANGED <<pc, peerMap, uncoop>>
    /\ UNCHANGED <<hwm, stopping, events, cands, cur>>

Collector == Query \/ Iter \/ Dial \/ Request

-----------------------------------------------------------------------------
(* The environment.                                                        *)

(* A peer announces its head: e.peerMap[p] is replaced.  Hearing from an   *)
(* uncooperative peer again re-admits it (spec section 8, property 2).     *)
UpsertPeer ==
    /\ events < MaxEvents
    /\ \E p \in Peers, i \in Info :
          /\ peerMap' = [peerMap EXCEPT ![p] = i]
          /\ uncoop' = uncoop \ {p}
    /\ events' = events + 1
    /\ UNCHANGED <<hwm, stopping, pc, latest, cands, cur, coop, reel,
                   offenders>>

(* A frame announcement raises e.latestFrameReceived.                      *)
ReceiveFrame ==
    /\ events < MaxEvents
    /\ \E n \in (hwm + 1)..MaxFrame : hwm' = n
    /\ events' = events + 1
    /\ UNCHANGED <<peerMap, uncoop, stopping, pc, latest, cands, cur, coop,
                   reel, offenders>>

(* The engine's context is cancelled and its state becomes Stopping.       *)
Stop ==
    /\ CanStop
    /\ ~stopping
    /\ stopping' = TRUE
    /\ UNCHANGED <<peerMap, uncoop, hwm, events, pc, latest, cands, cur,
                   coop, reel, offenders>>

Next == Collector \/ UpsertPeer \/ ReceiveFrame \/ Stop

\* The collect goroutine is scheduled whenever it can run.
Spec == Init /\ [][Next]_vars /\ WF_vars(Collector)

-----------------------------------------------------------------------------
(* Properties.                                                              *)

\* Spec section 8 property 1 and section 5: the time reel receives frames
\* in strictly consecutive numbers starting after the frame collect began
\* from, with non-decreasing timestamps, whatever the peers answer.
ReelConsecutive ==
    /\ reel # <<>> => reel[1].num = Genesis.num + 1
                      /\ reel[1].ts >= Genesis.ts
    /\ \A i \in 2..Len(reel) :
          /\ reel[i].num = reel[i - 1].num + 1
          /\ reel[i].ts >= reel[i - 1].ts

\* Spec section 7: a peer is demoted only for a behavioural violation
\* (transport error, protocol violation); a frame that fails verification
\* is a cryptographic failure and does not demote the peer that sent it.
NoDemotionWithoutViolation == uncoop \subseteq offenders

\* Spec sections 4.2 and 5: collect returns once no cooperative peer is
\* ahead, or, when the engine is stopping, at the next iteration.
CollectTerminates == <>(pc \in {"done", "panic"})

\* Spec sections 4.2 and 7: a frame whose producer key is not in the
\* prover trie is a protocol violation that ends the session, so no such
\* frame enters the time reel.
ReelOnlyProverFrames == \A i \in 1..Len(reel) : reel[i].prover

\* The registry as spec section 4.1 describes it: the cooperative peers are
\* those with an entry in e.peerMap, the uncooperative ones the keys of
\* e.uncooperativePeersMap.
Cooperative == {p \in Peers : peerMap[p] # Absent}

Registry == INSTANCE PeerRegistry
              WITH cooperative <- Cooperative, uncooperative <- uncoop

\* Spec section 4.1: whatever collect, sync and the peer-info handler do,
\* the peer map and the uncooperative map only ever change by an upsert or
\* by moving a peer from the first to the second (the deferred demotion of
\* lines 286-297), so the engine implements the abstract registry.
ImplementsRegistry == Registry!Spec

\* collect never dereferences a nil latest frame (lines 32 and 37).
NoNilDereference == pc # "panic"

=============================================================================

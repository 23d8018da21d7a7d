------------------------ MODULE DataClockSyncProofs -------------------------
(***************************************************************************)
(* Proofs about the sync engine of DataClockSync, for every set of peers,  *)
(* every bound and every set of faults: the engine implements the abstract *)
(* peer registry, and demotes only peers that violated the protocol.       *)
(***************************************************************************)
EXTENDS DataClockSync, TLAPS

USE ConstAssumption, SentinelAssumption

\* The registry's variables, as the refinement mapping gives them.
regVars == <<Cooperative, uncoop>>

(* The facts about the registry's variables that every step needs: the     *)
(* peer map is a map of peers, and the peer collect syncs with, or will    *)
(* sync with, is a peer.                                                    *)
RegistryTyped ==
    /\ peerMap \in [Peers -> Info \cup {Absent}]
    /\ cur.peer \in Peers
    /\ \A c \in cands : c.peer \in Peers

(* Why a demotion is always justified: a session whose cooperative flag is *)
(* down is with an offender, and a session starts with the flag up.         *)
Demotion ==
    /\ uncoop \subseteq offenders
    /\ pc = "dial" => coop
    /\ (pc = "request" /\ ~coop) => cur.peer \in offenders

IInv == RegistryTyped /\ Demotion

-----------------------------------------------------------------------------
(* Every candidate GetAheadPeers returns is a peer.                        *)
LEMMA AheadArePeers ==
    ASSUME NEW h, NEW c \in GetAheadPeers(h)
    PROVE  c.peer \in Peers
BY DEF GetAheadPeers

(* The deferred demotion either leaves the registry alone or moves the     *)
(* session's peer out of the peer map into the uncooperative map.          *)
LEMMA MarkEffect ==
    ASSUME RegistryTyped, NEW b, MarkUncooperative(cur.peer, b)
    PROVE  /\ peerMap' \in [Peers -> Info \cup {Absent}]
           /\ \/ UNCHANGED <<peerMap, uncoop>>
              \/ /\ ~b
                 /\ uncoop' = uncoop \cup {cur.peer}
                 /\ peerMap' = [peerMap EXCEPT ![cur.peer] = Absent]
                 /\ cur.peer \in Cooperative
BY DEF MarkUncooperative, RegistryTyped, Cooperative

(* ... which is a step of the abstract registry or leaves it unchanged.    *)
LEMMA MarkRefines ==
    ASSUME RegistryTyped, NEW b, MarkUncooperative(cur.peer, b)
    PROVE  [Registry!Next]_regVars
<1>1. CASE UNCHANGED <<peerMap, uncoop>>
  BY <1>1 DEF regVars, Cooperative
<1>2. CASE /\ uncoop' = uncoop \cup {cur.peer}
           /\ peerMap' = [peerMap EXCEPT ![cur.peer] = Absent]
           /\ cur.peer \in Cooperative
  <2>1. Cooperative' = Cooperative \ {cur.peer}
    BY <1>2 DEF Cooperative, RegistryTyped
  <2>2. Registry!MarkUncooperative(cur.peer)
    BY <1>2, <2>1 DEF Registry!MarkUncooperative
  <2>3. QED
    BY <2>2, RegistryTyped DEF Registry!Next, RegistryTyped
<1>3. QED
  BY <1>1, <1>2, MarkEffect

(* Every return of sync keeps the registry typed.                          *)
LEMMA SyncReturnTyped ==
    ASSUME RegistryTyped, NEW nl, NEW b, SyncReturn(nl, b),
           UNCHANGED <<cands, cur>>
    PROVE  RegistryTyped'
BY MarkEffect DEF SyncReturn, RegistryTyped

-----------------------------------------------------------------------------
(* Each step keeps the registry typed.                                      *)
LEMMA TypedStep == RegistryTyped /\ [Next]_vars => RegistryTyped'
<1> SUFFICES ASSUME RegistryTyped, [Next]_vars PROVE RegistryTyped'
  OBVIOUS
<1>1. CASE Query
  BY <1>1, AheadArePeers DEF Query, RegistryTyped
<1>2. CASE Iter
  BY <1>2 DEF Iter, RegistryTyped
<1>3. CASE Dial
  BY <1>3, SyncReturnTyped DEF Dial, RegistryTyped
<1>4. CASE Request
  <2>1. CASE UNCHANGED <<peerMap, cands, cur>>
    BY <2>1 DEF RegistryTyped
  <2>2. CASE \E nl, b : SyncReturn(nl, b) /\ UNCHANGED <<cands, cur>>
    BY <2>2, SyncReturnTyped
  <2>3. QED
    BY <1>4, <2>1, <2>2 DEF Request, OnVerifyFailure
<1>5. CASE UpsertPeer
  BY <1>5 DEF UpsertPeer, RegistryTyped
<1>6. CASE ReceiveFrame \/ Stop \/ UNCHANGED vars
  BY <1>6 DEF ReceiveFrame, Stop, vars, RegistryTyped
<1>7. QED
  BY <1>1, <1>2, <1>3, <1>4, <1>5, <1>6 DEF Next, Collector

-----------------------------------------------------------------------------
(* A return of sync keeps demotions justified when the session's flag is   *)
(* down only for an offender and no offender is forgotten.                 *)
LEMMA SyncReturnDemotion ==
    ASSUME RegistryTyped, uncoop \subseteq offenders,
           NEW nl, NEW b, SyncReturn(nl, b),
           offenders \subseteq offenders',
           ~b => cur.peer \in offenders',
           UNCHANGED cur
    PROVE  Demotion'
<1>1. uncoop' \subseteq offenders'
  BY MarkEffect DEF SyncReturn
<1>2. pc' = "iter"
  BY DEF SyncReturn
<1>3. QED
  BY <1>1, <1>2 DEF Demotion

(* Each step keeps demotions justified.                                    *)
LEMMA DemotionStep == IInv /\ [Next]_vars => Demotion'
<1> SUFFICES ASSUME IInv, [Next]_vars PROVE Demotion'
  OBVIOUS
<1> USE DEF IInv
<1>1. CASE Query
  BY <1>1 DEF Query, Demotion
<1>2. CASE Iter
  BY <1>2 DEF Iter, Demotion
<1>3. CASE Dial
  <2>1. CASE /\ pc' = "request"
             /\ UNCHANGED <<peerMap, uncoop, latest, coop, offenders>>
    BY <1>3, <2>1 DEF Dial, Demotion
  <2>2. CASE /\ offenders' = offenders \cup {cur.peer}
             /\ SyncReturn(latest, FALSE)
    BY <1>3, <2>2, SyncReturnDemotion DEF Dial, Demotion
  <2>3. QED
    BY <1>3, <2>1, <2>2 DEF Dial
<1>4. CASE Request
  <2> USE <1>4
  <2> pc = "request" /\ UNCHANGED cur
    BY DEF Request
  <2>1. CASE stopping /\ SyncReturn(latest, coop) /\ UNCHANGED offenders
    BY <2>1, SyncReturnDemotion DEF Demotion
  <2>2. CASE /\ offenders' = offenders \cup {cur.peer}
             /\ \E b : SyncReturn(latest, b)
             /\ UNCHANGED reel
    BY <2>2, SyncReturnDemotion DEF Demotion
  <2>3. CASE \E f \in Answers :
               LET ok == coop /\ f.prover
               IN
               /\ offenders' = IF InOrder(f) /\ f.prover THEN offenders
                               ELSE offenders \cup {cur.peer}
               /\ IF ~InOrder(f)
                  THEN /\ SyncReturn(latest, FALSE)
                       /\ UNCHANGED reel
                  ELSE IF ~f.valid
                  THEN OnVerifyFailure(ok)
                  ELSE /\ reel' = Append(reel, f)
                       /\ IF ReachedMax(f)
                          THEN SyncReturn(f, ok)
                          ELSE /\ latest' = f
                               /\ coop' = ok
                               /\ UNCHANGED <<pc, peerMap, uncoop>>
    <3>1. PICK f \in Answers :
               LET ok == coop /\ f.prover
               IN
               /\ offenders' = IF InOrder(f) /\ f.prover THEN offenders
                               ELSE offenders \cup {cur.peer}
               /\ IF ~InOrder(f)
                  THEN /\ SyncReturn(latest, FALSE)
                       /\ UNCHANGED reel
                  ELSE IF ~f.valid
                  THEN OnVerifyFailure(ok)
                  ELSE /\ reel' = Append(reel, f)
                       /\ IF ReachedMax(f)
                          THEN SyncReturn(f, ok)
                          ELSE /\ latest' = f
                               /\ coop' = ok
                               /\ UNCHANGED <<pc, peerMap, uncoop>>
      BY <2>3
    <3>2. offenders \subseteq offenders'
      BY <3>1
    <3>3. ~(coop /\ f.prover) => cur.peer \in offenders'
      BY <3>1 DEF Demotion
    <3>4. CASE ~InOrder(f)
      BY <3>1, <3>2, <3>4, SyncReturnDemotion DEF Demotion
    <3>5. CASE InOrder(f) /\ ~f.valid
      BY <3>1, <3>2, <3>3, <3>5, SyncReturnDemotion DEF Demotion, OnVerifyFailure
    <3>6. CASE InOrder(f) /\ f.valid /\ ReachedMax(f)
      BY <3>1, <3>2, <3>3, <3>6, SyncReturnDemotion DEF Demotion
    <3>7. CASE InOrder(f) /\ f.valid /\ ~ReachedMax(f)
      BY <3>1, <3>3, <3>7 DEF Demotion
    <3>8. QED
      BY <3>4, <3>5, <3>6, <3>7
  <2>4. QED
    BY <2>1, <2>2, <2>3 DEF Request
<1>5. CASE UpsertPeer
  BY <1>5 DEF UpsertPeer, Demotion
<1>6. CASE ReceiveFrame \/ Stop \/ UNCHANGED vars
  BY <1>6 DEF ReceiveFrame, Stop, vars, Demotion
<1>7. QED
  BY <1>1, <1>2, <1>3, <1>4, <1>5, <1>6 DEF Next, Collector

(* The inductive invariant holds initially and is kept by every step.      *)
LEMMA IInvInit == Init => IInv
BY DEF Init, IInv, RegistryTyped, Demotion

LEMMA IInvStep == IInv /\ [Next]_vars => IInv'
BY TypedStep, DemotionStep DEF IInv

(* Spec section 7: a peer is demoted only for a behavioural violation of   *)
(* the protocol by that peer (a failed dial, a transport error, a nil or   *)
(* malformed answer, a frame out of order or from a non-prover), never for *)
(* a frame that only fails verification: the deferred function of lines    *)
(* 286-297 runs with cooperative down only after such a violation.         *)
THEOREM DemotionsJustified == Spec => []NoDemotionWithoutViolation
<1>1. IInv => NoDemotionWithoutViolation
  BY DEF IInv, Demotion, NoDemotionWithoutViolation
<1>2. QED
  BY <1>1, IInvInit, IInvStep, PTL DEF Spec

-----------------------------------------------------------------------------
(* Lines 148-156: UpsertPeer puts the peer in the peer map with real info  *)
(* and removes it from the uncooperative map: the registry's Upsert.       *)
LEMMA UpsertRefines ==
    ASSUME RegistryTyped, UpsertPeer
    PROVE  Registry!Next
<1>1. PICK p \in Peers, i \in Info :
          /\ peerMap' = [peerMap EXCEPT ![p] = i]
          /\ uncoop' = uncoop \ {p}
  BY DEF UpsertPeer
<1>2. Cooperative' = Cooperative \cup {p}
  BY <1>1 DEF Cooperative, RegistryTyped
<1>3. QED
  BY <1>1, <1>2 DEF Registry!Next, Registry!Upsert

(* Every step of the engine is a step of the registry or leaves the        *)
(* registry's variables unchanged.                                          *)
LEMMA RegistryStep ==
    RegistryTyped /\ [Next]_vars => [Registry!Next]_regVars
<1> SUFFICES ASSUME RegistryTyped, [Next]_vars PROVE [Registry!Next]_regVars
  OBVIOUS
<1>1. CASE UNCHANGED <<peerMap, uncoop>>
  BY <1>1 DEF regVars, Cooperative
<1>2. CASE \E nl, b : SyncReturn(nl, b)
  BY <1>2, MarkRefines DEF SyncReturn
<1>3. CASE UpsertPeer
  BY <1>3, UpsertRefines
<1>4. QED
  <2>1. CASE Query \/ Iter
    BY <2>1, <1>1 DEF Query, Iter
  <2>2. CASE Dial
    BY <2>2, <1>1, <1>2 DEF Dial
  <2>3. CASE Request
    BY <2>3, <1>1, <1>2 DEF Request, OnVerifyFailure
  <2>4. CASE ReceiveFrame \/ Stop \/ UNCHANGED vars
    BY <2>4, <1>1 DEF ReceiveFrame, Stop, vars
  <2>5. QED
    BY <1>3, <2>1, <2>2, <2>3, <2>4 DEF Next, Collector

(* Spec section 4.1: the engine's peer map and uncooperative map behave as *)
(* the abstract registry: UpsertPeer admits a peer, the deferred demotion  *)
(* of sync (lines 286-297) moves a peer from the peer map to the            *)
(* uncooperative map, and nothing else changes either map.                 *)
THEOREM RegistryRefinement == Spec => ImplementsRegistry
<1>1. Init => Registry!Init
  BY DEF Init, Registry!Init, Cooperative
<1>2. Init => RegistryTyped
  BY IInvInit DEF IInv
<1>3. RegistryTyped /\ [Next]_vars => RegistryTyped'
  BY TypedStep
<1>4. QED
  BY <1>1, <1>2, <1>3, RegistryStep, PTL
     DEF Spec, ImplementsRegistry, Registry!Spec, regVars

-----------------------------------------------------------------------------
(* The frame collect holds: the last frame sync inserted into the time     *)
(* reel, or the genesis frame collect started from when none was inserted. *)
Held == IF reel = <<>> THEN Genesis ELSE reel[Len(reel)]

(* Why the reel is consecutive and every frame is in range.  A nil latest  *)
(* (a verification failure, line 364) is never used to request again: it  *)
(* only leads to the dereference in collect.  Otherwise latest is the     *)
(* reel's head, its timestamp grows by at most one per frame, and while a *)
(* session runs, latest is below the candidate's advertised maxFrame,     *)
(* which is what keeps the next frame in range.                           *)
ReelInv ==
    /\ TypeOK
    /\ ReelConsecutive
    /\ latest # Nil => /\ latest = Held
                       /\ latest.ts <= latest.num
    /\ pc \in {"dial", "request"} => /\ latest # Nil
                                    /\ latest.num < cur.maxFrame

(* The type invariant gives the registry facts the earlier lemmas use.     *)
LEMMA TypedRegistry == TypeOK => RegistryTyped
BY DEF TypeOK, RegistryTyped, Candidate

(* GetAheadPeers returns candidates: peers with an advertised maxFrame.    *)
LEMMA AheadAreCandidates ==
    ASSUME peerMap \in [Peers -> Info \cup {Absent}], NEW h
    PROVE  GetAheadPeers(h) \subseteq Candidate
BY SentinelAssumption DEF GetAheadPeers, Candidate, Info

(* Lines 344-346 and 368-370: a frame that passes the order checks while   *)
(* latest is below the candidate's maxFrame is a frame in range, whose     *)
(* timestamp is at most its number.                                        *)
LEMMA InOrderInRange ==
    ASSUME ReelInv, pc = "request", NEW f \in Answers, InOrder(f)
    PROVE  /\ f \in Frame
           /\ f.num <= cur.maxFrame
           /\ f.ts <= f.num
<1>1. latest \in Frame /\ latest.ts <= latest.num /\ latest.num < cur.maxFrame
  BY DEF ReelInv, TypeOK
<1>2. cur.maxFrame \in 0..MaxFrame
  BY DEF ReelInv, TypeOK, Candidate
<1>3. f.num = latest.num + 1 /\ f.ts \in {latest.ts, latest.ts + 1}
  BY <1>1 DEF InOrder, Answers, Frame, Nums
<1>4. /\ f = [num |-> f.num, ts |-> f.ts, prover |-> f.prover, valid |-> f.valid]
      /\ f.prover \in BOOLEAN /\ f.valid \in BOOLEAN
  BY DEF Answers
<1>5. latest.num \in Nat /\ latest.ts \in Nat
  BY <1>1 DEF Frame, Nums
<1>6. f.num <= cur.maxFrame /\ f.ts <= f.num
  BY <1>1, <1>2, <1>3, <1>5
<1>7. f.num \in Nums /\ f.ts \in Nums
  BY <1>2, <1>3, <1>5, <1>6 DEF Nums
<1>8. QED
  BY <1>4, <1>6, <1>7 DEF Frame

(* Inserting the frame that follows the reel's head keeps it consecutive.  *)
LEMMA AppendConsecutive ==
    ASSUME reel \in Seq(Frame), ReelConsecutive, NEW f \in Frame,
           f.num = Held.num + 1, f.ts >= Held.ts,
           reel' = Append(reel, f)
    PROVE  /\ reel' \in Seq(Frame)
           /\ ReelConsecutive'
           /\ Held' = f
<1>1. Held \in Frame
  <2>1. CASE reel = <<>>
    BY <2>1 DEF Held, Genesis, Frame, Nums
  <2>2. CASE reel # <<>>
    BY <2>2 DEF Held
  <2>3. QED
    BY <2>1, <2>2
<1>2. reel' \in Seq(Frame) /\ Len(reel') = Len(reel) + 1
  OBVIOUS
<1>3. Held' = f
  BY <1>2 DEF Held
<1>4. \A i \in 1..Len(reel) : reel'[i] = reel[i]
  OBVIOUS
<1>5. ReelConsecutive'
  <2>1. CASE reel = <<>>
    BY <2>1, <1>1 DEF ReelConsecutive, Held, Frame
  <2>2. CASE reel # <<>>
    <3>1. reel'[Len(reel')] = f /\ reel'[Len(reel') - 1] = Held
      BY <2>2, <1>2 DEF Held
    <3>2. reel' # <<>> => reel'[1].num = Genesis.num + 1
                          /\ reel'[1].ts >= Genesis.ts
      BY <2>2, <1>4 DEF ReelConsecutive
    <3>3. ASSUME NEW i \in 2..Len(reel')
          PROVE  /\ reel'[i].num = reel'[i - 1].num + 1
                 /\ reel'[i].ts >= reel'[i - 1].ts
      <4>1. CASE i <= Len(reel)
        <5>1. reel'[i] = reel[i] /\ reel'[i - 1] = reel[i - 1]
          BY <4>1, <1>4
        <5>2. QED
          BY <4>1, <5>1 DEF ReelConsecutive
      <4>2. CASE i = Len(reel) + 1
        BY <4>2, <1>2, <3>1
      <4>3. QED
        BY <4>1, <4>2, <1>2
    <3>4. QED
      BY <3>2, <3>3 DEF ReelConsecutive
  <2>3. QED
    BY <2>1, <2>2
<1>6. QED
  BY <1>2, <1>3, <1>5

(* A return of sync keeps the invariant when what it hands back is nil or  *)
(* the reel's head.                                                         *)
LEMMA SyncReturnReel ==
    ASSUME ReelInv, NEW nl, NEW b \in BOOLEAN, SyncReturn(nl, b),
           nl = Nil \/ (nl \in Frame /\ nl = Held' /\ nl.ts <= nl.num),
           reel' \in Seq(Frame), ReelConsecutive',
           offenders' \subseteq Peers,
           UNCHANGED <<hwm, stopping, events, cands, cur>>
    PROVE  ReelInv'
<1>1. RegistryTyped
  BY TypedRegistry DEF ReelInv
<1>2. MarkUncooperative(cur.peer, b)
  BY DEF SyncReturn
<1>3. peerMap' \in [Peers -> Info \cup {Absent}] /\ uncoop' \subseteq Peers
  BY <1>1, <1>2, MarkEffect DEF ReelInv, TypeOK, RegistryTyped
<1>4. QED
  BY <1>3 DEF SyncReturn, ReelInv, TypeOK

(* A step that inserts no frame keeps the reel's facts.                    *)
LEMMA ReelUnchanged ==
    ASSUME reel \in Seq(Frame), ReelConsecutive, UNCHANGED reel
    PROVE  reel' \in Seq(Frame) /\ ReelConsecutive' /\ Held' = Held
BY DEF ReelConsecutive, Held

(* One turn of sync's request loop keeps the invariant.                     *)
LEMMA RequestReel ==
    ASSUME ReelInv, Request
    PROVE  ReelInv'
<1> USE DEF ReelInv
<1>1. /\ latest \in Frame /\ latest = Held /\ cur.peer \in Peers
      /\ coop \in BOOLEAN /\ pc = "request" /\ cur.maxFrame \in 0..MaxFrame
      /\ latest.ts <= latest.num
      /\ UNCHANGED <<hwm, stopping, events, cands, cur>>
  BY DEF Request, TypeOK, Candidate
<1>2. ASSUME NEW b \in BOOLEAN, SyncReturn(latest, b), UNCHANGED reel,
             offenders' \subseteq Peers
      PROVE  ReelInv'
  <2>1. reel' \in Seq(Frame) /\ ReelConsecutive' /\ Held' = Held
    BY <1>2, ReelUnchanged DEF TypeOK
  <2>2. QED
    BY <1>1, <1>2, <2>1, SyncReturnReel
<1>3. CASE stopping /\ SyncReturn(latest, coop) /\ UNCHANGED <<reel, offenders>>
  BY <1>1, <1>2, <1>3 DEF TypeOK
<1>4. CASE /\ offenders' = offenders \cup {cur.peer}
           /\ \E b \in BOOLEAN : SyncReturn(latest, b)
           /\ UNCHANGED reel
  BY <1>1, <1>2, <1>4 DEF TypeOK
<1>5. ASSUME NEW f \in Answers,
             LET ok == coop /\ f.prover
             IN
             /\ offenders' = IF InOrder(f) /\ f.prover THEN offenders
                             ELSE offenders \cup {cur.peer}
             /\ IF ~InOrder(f)
                THEN /\ SyncReturn(latest, FALSE)
                     /\ UNCHANGED reel
                ELSE IF ~f.valid
                THEN OnVerifyFailure(ok)
                ELSE /\ reel' = Append(reel, f)
                     /\ IF ReachedMax(f)
                        THEN SyncReturn(f, ok)
                        ELSE /\ latest' = f
                             /\ coop' = ok
                             /\ UNCHANGED <<pc, peerMap, uncoop>>
      PROVE  ReelInv'
  <2> DEFINE ok == coop /\ f.prover
  <2>1. offenders' \subseteq Peers /\ ok \in BOOLEAN
    BY <1>1, <1>5 DEF TypeOK, Answers
  <2>2. CASE ~InOrder(f)
    BY <1>5, <2>1, <2>2, <1>2
  <2>3. CASE InOrder(f) /\ ~f.valid
    <3>1. SyncReturn(Nil, ok) /\ UNCHANGED reel
      BY <1>5, <2>3 DEF OnVerifyFailure
    <3>2. reel' \in Seq(Frame) /\ ReelConsecutive'
      BY <3>1, ReelUnchanged DEF TypeOK
    <3>3. QED
      BY <1>1, <2>1, <3>1, <3>2, SyncReturnReel
  <2>4. CASE InOrder(f) /\ f.valid
    <3>1. f \in Frame /\ f.num <= cur.maxFrame /\ f.ts <= f.num
      BY <1>1, <2>4, InOrderInRange
    <3>2. f.num = Held.num + 1 /\ f.ts >= Held.ts
      BY <1>1, <2>4 DEF InOrder
    <3>3. reel' = Append(reel, f)
      BY <1>5, <2>4
    <3>4. reel' \in Seq(Frame) /\ ReelConsecutive' /\ Held' = f
      BY <3>1, <3>2, <3>3, AppendConsecutive DEF TypeOK
    <3>5. CASE ReachedMax(f)
      <4>1. SyncReturn(f, ok)
        BY <1>5, <2>4, <3>5
      <4>2. QED
        BY <1>1, <2>1, <3>1, <3>4, <4>1, SyncReturnReel
    <3>6. CASE ~ReachedMax(f)
      <4>1. latest' = f /\ coop' = ok /\ UNCHANGED <<pc, peerMap, uncoop>>
        BY <1>5, <2>4, <3>6
      <4>2. f.num < cur.maxFrame
        BY <1>1, <3>1, <3>6 DEF ReachedMax, Frame, Nums
      <4>3. f # Nil
        BY <3>1, SentinelAssumption
      <4>4. QED
        BY <1>1, <2>1, <3>1, <3>4, <4>1, <4>2, <4>3 DEF TypeOK
    <3>7. QED
      BY <3>5, <3>6
  <2>5. QED
    BY <2>2, <2>3, <2>4
<1>6. QED
  BY <1>1, <1>3, <1>4, <1>5 DEF Request

(* Each step keeps the invariant.                                           *)
LEMMA ReelStep == ReelInv /\ [Next]_vars => ReelInv'
<1> SUFFICES ASSUME ReelInv, [Next]_vars PROVE ReelInv'
  OBVIOUS
<1> USE DEF ReelInv
<1>0. reel' = reel => reel' \in Seq(Frame) /\ ReelConsecutive' /\ Held' = Held
  BY ReelUnchanged DEF TypeOK
<1>1. CASE Query
  <2>1. CASE latest = Nil
    BY <1>0, <1>1, <2>1 DEF Query, TypeOK
  <2>2. CASE latest # Nil
    <3>1. cands' = GetAheadPeers(Maximum(latest.num, hwm))
          /\ pc' \in {"done", "iter"}
      BY <1>1, <2>2 DEF Query
    <3>2. cands' \subseteq Candidate
      BY <3>1, AheadAreCandidates DEF TypeOK
    <3>3. QED
      BY <1>0, <1>1, <3>1, <3>2 DEF Query, TypeOK
  <2>3. QED
    BY <2>1, <2>2
<1>2. CASE Iter
  <2>1. CASE cands = {}
    BY <1>0, <1>2, <2>1 DEF Iter, TypeOK
  <2>2. CASE cands # {}
    <3>1. PICK c \in cands :
            /\ cands' = cands \ {c}
            /\ IF latest = Nil
               THEN /\ pc' = "panic"
                    /\ UNCHANGED <<cur, coop>>
               ELSE IF c.maxFrame <= Maximum(latest.num, hwm)
               THEN /\ pc' = "iter"
                    /\ UNCHANGED <<cur, coop>>
               ELSE /\ cur' = c
                    /\ coop' = TRUE
                    /\ pc' = "dial"
      BY <1>2, <2>2 DEF Iter
    <3>2. c \in Candidate
      BY DEF TypeOK
    <3>3. CASE latest # Nil /\ ~(c.maxFrame <= Maximum(latest.num, hwm))
      <4>1. latest.num \in Nat /\ hwm \in Nat /\ c.maxFrame \in Nat
        BY <3>2, <3>3 DEF TypeOK, Frame, Nums, Candidate
      <4>2. latest.num < c.maxFrame
        BY <3>3, <4>1 DEF Maximum
      <4>3. QED
        BY <1>0, <1>2, <3>1, <3>2, <3>3, <4>2 DEF Iter, TypeOK
    <3>4. QED
      BY <1>0, <1>2, <3>1, <3>3 DEF Iter, TypeOK
  <2>3. QED
    BY <2>1, <2>2
<1>3. CASE Dial
  <2>1. CASE pc' = "request" /\ UNCHANGED <<peerMap, uncoop, latest, coop, offenders>>
    BY <1>0, <1>3, <2>1 DEF Dial, TypeOK
  <2>2. CASE offenders' = offenders \cup {cur.peer} /\ SyncReturn(latest, FALSE)
    <3>1. latest \in Frame /\ latest = Held /\ cur.peer \in Peers
      BY <1>3 DEF Dial, TypeOK, Candidate
    <3>2. QED
      BY <1>0, <1>3, <2>2, <3>1, SyncReturnReel DEF Dial, TypeOK
  <2>3. QED
    BY <1>3, <2>1, <2>2 DEF Dial
<1>4. CASE Request
  BY <1>4, RequestReel
<1>5. CASE UpsertPeer
  BY <1>0, <1>5 DEF UpsertPeer, TypeOK
<1>6. CASE ReceiveFrame
  BY <1>0, <1>6 DEF ReceiveFrame, TypeOK
<1>7. CASE Stop \/ UNCHANGED vars
  BY <1>0, <1>7 DEF Stop, vars, TypeOK
<1>8. QED
  BY <1>1, <1>2, <1>3, <1>4, <1>5, <1>6, <1>7 DEF Next, Collector

(* The initial state satisfies the invariant: collect starts from genesis   *)
(* with an empty reel.                                                      *)
LEMMA ReelInit == Init => ReelInv
<1> SUFFICES ASSUME Init PROVE ReelInv
  OBVIOUS
<1>1. Genesis \in Frame /\ cur \in Candidate
  BY DEF Init, Genesis, Frame, Nums, Candidate
<1>2. TypeOK
  <2>1. hwm \in 0..MaxFrame /\ events \in 0..MaxEvents /\ reel \in Seq(Frame)
    BY DEF Init
  <2>2. QED
    BY <1>1, <2>1, Zenon DEF Init, TypeOK
<1>3. QED
  BY <1>1, <1>2 DEF Init, ReelInv, ReelConsecutive, Held, Genesis

(* Every reachable state of collect and sync is well typed: in particular, *)
(* every frame number stays within the advertised maximum, because sync    *)
(* stops pulling at the candidate's maxFrame (lines 368-370).              *)
THEOREM TypeCorrect == Spec => []TypeOK
<1>1. ReelInv => TypeOK
  BY DEF ReelInv
<1>2. QED
  BY <1>1, ReelInit, ReelStep, PTL DEF Spec

(* Spec section 8 property 1 and section 5: whatever the peers answer,     *)
(* frames enter the time reel with consecutive numbers from 1 and non-     *)
(* decreasing timestamps, because sync checks each answer against latest  *)
(* (lines 344-346) and collect carries latest from one session to the     *)
(* next (line 41).                                                         *)
THEOREM ReelAlwaysConsecutive == Spec => []ReelConsecutive
<1>1. ReelInv => ReelConsecutive
  BY DEF ReelInv
<1>2. QED
  BY <1>1, ReelInit, ReelStep, PTL DEF Spec

=============================================================================

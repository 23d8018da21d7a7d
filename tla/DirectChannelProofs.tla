------------------------- MODULE DirectChannelProofs -------------------------
(***************************************************************************)
(* Proofs about GetDirectChannel's dialer and extraCloseConn.Close, for    *)
(* every number of dialer runs and every bound on the rest of the node's   *)
(* connects and drops.                                                      *)
(***************************************************************************)
EXTENDS DirectChannel, TLAPS

USE ConstAssumption

(* Dialer run c is responsible for the connection: it found the peer       *)
(* unconnected (alreadyConnected false) and has not yet handed the         *)
(* connection over to a closed channel.                                     *)
Owner(c) == ~already[c] /\ pc[c] \in {"stream", "open"}

(* Why a connection a dialer opened is released, or else stranded by a    *)
(* failed stream open: such a connection is live, and so is a stranded     *)
(* one; a dialer run about to connect found the peer unconnected; an open  *)
(* channel owns the connection exactly when its run found the peer         *)
(* unconnected; and a live dialer-opened connection has an owner unless it *)
(* was stranded.                                                            *)
LeakInv ==
    /\ TypeOK
    /\ dialed => connected
    /\ stranded => (connected /\ dialed)
    /\ \A c \in Callers : pc[c] = "connect" => ~already[c]
    /\ \A c \in Callers : pc[c] = "open" => (owns[c] = ~already[c])
    /\ (connected /\ dialed) => (stranded \/ \E c \in Callers : Owner(c))

-----------------------------------------------------------------------------
(* The initial state is well typed.                                         *)
LEMMA InitTyped == Init => TypeOK
<1> SUFFICES ASSUME Init PROVE TypeOK
  OBVIOUS
<1>1. events \in 0..MaxEvents
  BY DEF Init
<1>2. QED
  BY <1>1, Zenon DEF Init, TypeOK, PC

(* Every step keeps the state well typed.                                   *)
LEMMA TypeStep == TypeOK /\ [Next]_vars => TypeOK'
<1> SUFFICES ASSUME TypeOK, [Next]_vars PROVE TypeOK'
  OBVIOUS
<1>1. CASE PeerConnect \/ PeerDrop
  <2>1. events' \in 0..MaxEvents
    BY <1>1 DEF PeerConnect, PeerDrop, TypeOK
  <2>2. QED
    BY <1>1, <2>1, Zenon DEF PeerConnect, PeerDrop, Teardown, TypeOK
<1>2. ASSUME NEW c \in Callers, Check(c) \/ Connect(c) \/ Stream(c) \/ Close(c)
      PROVE  TypeOK'
  BY <1>2 DEF Check, Connect, Stream, Close, Teardown, TypeOK, PC
<1>3. CASE UNCHANGED vars
  BY <1>3 DEF vars, TypeOK
<1>4. QED
  BY <1>1, <1>2, <1>3 DEF Next

(* Every reachable state of the dialer runs is well typed.                  *)
THEOREM TypeCorrect == Spec => []TypeOK
<1>1. Init => TypeOK
  BY InitTyped
<1>2. QED
  BY <1>1, TypeStep, PTL DEF Spec

-----------------------------------------------------------------------------
(* The steps of dialer run c keep the ownership facts.                      *)
LEMMA CallerStep ==
    ASSUME LeakInv, NEW c \in Callers,
           Check(c) \/ Connect(c) \/ Stream(c) \/ Close(c)
    PROVE  LeakInv'
<1> USE DEF LeakInv
<1>1. TypeOK'
  BY TypeStep DEF Next
<1> DEFINE Others == \A d \in Callers \ {c} :
                        /\ pc'[d] = pc[d]
                        /\ already'[d] = already[d]
                        /\ owns'[d] = owns[d]
<1>2. Others
  BY DEF Check, Connect, Stream, Close, TypeOK
<1>3. CASE Check(c)
  BY <1>1, <1>2, <1>3 DEF Check, TypeOK, Owner
<1>4. CASE Connect(c)
  BY <1>1, <1>2, <1>4 DEF Connect, TypeOK, Owner
<1>5. CASE Stream(c)
  <2>1. CASE connected /\ pc' = [pc EXCEPT ![c] = "open"]
    BY <1>1, <1>2, <1>5, <2>1 DEF Stream, TypeOK, Owner
  <2>2. CASE pc' = [pc EXCEPT ![c] = "done"]
    BY <1>1, <1>2, <1>5, <2>2 DEF Stream, TypeOK, Owner
  <2>3. QED
    BY <1>5, <2>1, <2>2 DEF Stream
<1>6. CASE Close(c)
  <2>1. CASE owns[c]
    BY <1>1, <1>2, <1>6, <2>1 DEF Close, TypeOK, Owner
  <2>2. CASE ~owns[c]
    BY <1>1, <1>2, <1>6, <2>2 DEF Close, TypeOK, Owner
  <2>3. QED
    BY <2>1, <2>2
<1>7. QED
  BY <1>3, <1>4, <1>5, <1>6

(* The rest of the node's connects and drops keep the ownership facts.      *)
LEMMA EnvStep ==
    ASSUME LeakInv, PeerConnect \/ PeerDrop
    PROVE  LeakInv'
<1> USE DEF LeakInv
<1>1. TypeOK'
  BY TypeStep DEF Next
<1>2. QED
  BY <1>1 DEF PeerConnect, PeerDrop, Teardown, Owner

(* The comment at lines 904-906 promises that a connection the dialer      *)
(* opened is closed with its direct channel.  For any number of concurrent *)
(* dialer runs, any connects and drops by the rest of the node, and        *)
(* whether or not gostream.Dial can fail, the only way a dialer-opened     *)
(* connection outlives every dialer run is a failed stream open (lines     *)
(* 924-925) by a run that found the peer unconnected.                      *)
THEOREM LeakOnlyByStreamFailureHolds == Spec => []LeakOnlyByStreamFailure
<1>1. Init => LeakInv
  BY InitTyped DEF Init, LeakInv
<1>2. LeakInv /\ [Next]_vars => LeakInv'
  <2> SUFFICES ASSUME LeakInv, [Next]_vars PROVE LeakInv'
    OBVIOUS
  <2>1. CASE PeerConnect \/ PeerDrop
    BY <2>1, EnvStep
  <2>2. ASSUME NEW c \in Callers,
               Check(c) \/ Connect(c) \/ Stream(c) \/ Close(c)
        PROVE  LeakInv'
    BY <2>2, CallerStep
  <2>3. CASE UNCHANGED vars
    BY <2>3 DEF vars, LeakInv, TypeOK, Owner
  <2>4. QED
    BY <2>1, <2>2, <2>3 DEF Next
<1>3. LeakInv => LeakOnlyByStreamFailure
  BY DEF LeakInv, LeakOnlyByStreamFailure, Owner
<1>4. QED
  BY <1>1, <1>2, <1>3, PTL DEF Spec

=============================================================================

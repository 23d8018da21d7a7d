--------------------------- MODULE DirectChannel ----------------------------
(***************************************************************************)
(* Direct channels to one remote peer: BlossomSub.GetDirectChannel and     *)
(* extraCloseConn.Close (blossomsub.go, lines 872-943).                    *)
(*                                                                         *)
(* Each element of Callers is one run of the context dialer that           *)
(* GetDirectChannel hands to gRPC (sync opens one per session, line 298 of *)
(* consensus_frames.go; gRPC runs the dialer again after a transport       *)
(* failure).  The dialer reads the host's connectedness to the peer,       *)
(* connects if it was not connected, opens a gostream stream on the        *)
(* connection and, when it did the connecting itself, wraps the stream so  *)
(* that closing it also closes the whole peer connection.  The host's      *)
(* connection to the peer is the Boolean connected; other parts of the     *)
(* node (discovery, bootstrap, the pub/sub mesh) connect and the peer may  *)
(* drop, which the environment actions model.                              *)
(***************************************************************************)
EXTENDS Naturals, FiniteSets

CONSTANTS
    Callers,      \* dialer runs
    StreamFails,  \* whether gostream.Dial may fail on a live connection
    MaxEvents     \* bound on connects and drops by the rest of the node

ASSUME ConstAssumption ==
    /\ Callers # {}
    /\ StreamFails \in BOOLEAN
    /\ MaxEvents \in Nat

VARIABLES
    connected,  \* the host has a connection to the peer
    dialed,     \* that connection was opened by a dialer of GetDirectChannel
    pc,         \* pc[c]: where dialer run c is
    already,    \* already[c]: alreadyConnected of run c
    owns,       \* owns[c]: c's stream is an extraCloseConn
    alive,      \* alive[c]: c's stream is usable
    events,     \* connects and drops by the rest of the node so far
    stranded    \* history: the live dialer-opened connection was left
                \* behind by a run whose stream open failed

vars == <<connected, dialed, pc, already, owns, alive, events, stranded>>

PC == {"idle", "connect", "stream", "open", "done"}

TypeOK ==
    /\ connected \in BOOLEAN
    /\ dialed \in BOOLEAN
    /\ pc \in [Callers -> PC]
    /\ already \in [Callers -> BOOLEAN]
    /\ owns \in [Callers -> BOOLEAN]
    /\ alive \in [Callers -> BOOLEAN]
    /\ events \in 0..MaxEvents
    /\ stranded \in BOOLEAN

Init ==
    /\ connected \in BOOLEAN
    /\ dialed = FALSE
    /\ pc = [c \in Callers |-> "idle"]
    /\ already = [c \in Callers |-> FALSE]
    /\ owns = [c \in Callers |-> FALSE]
    /\ alive = [c \in Callers |-> FALSE]
    /\ events = 0
    /\ stranded = FALSE

\* Closing the peer connection resets every stream on it.
Teardown == alive' = [c \in Callers |-> FALSE]

-----------------------------------------------------------------------------
(* Lines 907-911: Connectedness(id) is Connected or Limited.                *)
Check(c) ==
    /\ pc[c] = "idle"
    /\ already' = [already EXCEPT ![c] = connected]
    /\ pc' = [pc EXCEPT ![c] = IF connected THEN "stream" ELSE "connect"]
    /\ UNCHANGED <<connected, dialed, owns, alive, events, stranded>>

(* Lines 912-914: h.Connect; a no-op when a connection appeared meanwhile, *)
(* an error return otherwise.                                               *)
Connect(c) ==
    /\ pc[c] = "connect"
    /\ \/ /\ connected' = TRUE
          /\ dialed' = (dialed \/ ~connected)
          /\ pc' = [pc EXCEPT ![c] = "stream"]
       \/ /\ ~connected
          /\ pc' = [pc EXCEPT ![c] = "done"]
          /\ UNCHANGED <<connected, dialed>>
    /\ UNCHANGED <<already, owns, alive, events, stranded>>

(* Lines 916-933: gostream.Dial with WithNoDial needs a live connection;   *)
(* on an error (lines 924-925, or a panic recovered at 888-893) the dialer *)
(* returns and leaves the connection as it is: a run that connected the    *)
(* peer itself then strands that connection.  On success the stream is     *)
(* returned as is when the peer was already connected (927-929), and       *)
(* otherwise wrapped in an extraCloseConn whose extra close is ClosePeer   *)
(* (930-933).                                                              *)
Stream(c) ==
    /\ pc[c] = "stream"
    /\ \/ /\ connected
          /\ alive' = [alive EXCEPT ![c] = TRUE]
          /\ owns' = [owns EXCEPT ![c] = ~already[c]]
          /\ pc' = [pc EXCEPT ![c] = "open"]
          /\ UNCHANGED stranded
       \/ /\ ~connected \/ StreamFails
          /\ pc' = [pc EXCEPT ![c] = "done"]
          /\ stranded' = (stranded \/ (connected /\ dialed /\ ~already[c]))
          /\ UNCHANGED <<alive, owns>>
    /\ UNCHANGED <<connected, dialed, already, events>>

\* Mutant: the wrapper's Close forgets the extra close.
CloseNoExtra(c) ==
    /\ pc[c] = "open"
    /\ alive' = [alive EXCEPT ![c] = FALSE]
    /\ pc' = [pc EXCEPT ![c] = "done"]
    /\ UNCHANGED <<connected, dialed, already, owns, events, stranded>>

(* Lines 877-881: the caller closes the channel (sync's defer cc.Close()); *)
(* the stream is closed, then for an extraCloseConn the peer connection   *)
(* (ClosePeer, line 932).                                                   *)
Close(c) ==
    /\ pc[c] = "open"
    /\ pc' = [pc EXCEPT ![c] = "done"]
    /\ IF owns[c]
         THEN /\ Teardown
              /\ connected' = FALSE
              /\ dialed' = FALSE
              /\ stranded' = FALSE
         ELSE /\ alive' = [alive EXCEPT ![c] = FALSE]
              /\ UNCHANGED <<connected, dialed, stranded>>
    /\ UNCHANGED <<already, owns, events>>

(* The rest of the node connects to the peer.                              *)
PeerConnect ==
    /\ events < MaxEvents
    /\ ~connected
    /\ connected' = TRUE
    /\ events' = events + 1
    /\ UNCHANGED <<dialed, pc, already, owns, alive, stranded>>

(* The peer drops the connection.                                          *)
PeerDrop ==
    /\ events < MaxEvents
    /\ connected
    /\ connected' = FALSE
    /\ dialed' = FALSE
    /\ stranded' = FALSE
    /\ Teardown
    /\ events' = events + 1
    /\ UNCHANGED <<pc, already, owns>>

Next ==
    \/ PeerConnect \/ PeerDrop
    \/ \E c \in Callers : Check(c) \/ Connect(c) \/ Stream(c) \/ Close(c)

Spec == Init /\ [][Next]_vars

-----------------------------------------------------------------------------
(* Properties.                                                              *)

\* The comment at lines 904-906: a connection the dialer opened for a
\* direct channel is closed when that channel is closed.  So once no dialer
\* run is in progress or holds an open channel, no connection opened by a
\* dialer is left behind.
ConnectionReleased ==
    (\A c \in Callers : pc[c] \in {"idle", "done"}) => ~(connected /\ dialed)

\* The one way the promise of lines 904-906 is broken: whenever every
\* dialer run is idle or done and a connection opened by a dialer is still
\* live, a run that had opened it returned on a failed stream open (lines
\* 924-925) while it was live.  Whatever the interleaving of dialer runs,
\* connects by the rest of the node and drops, an extraCloseConn's Close
\* (877-881) releases every other dialer-opened connection.
LeakOnlyByStreamFailure ==
    ((\A c \in Callers : pc[c] \in {"idle", "done"}) /\ connected /\ dialed)
        => stranded

=============================================================================

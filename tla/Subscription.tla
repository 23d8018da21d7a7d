--------------------------- MODULE Subscription -----------------------------
(***************************************************************************)
(* Bitmask subscriptions of the pub/sub overlay: BlossomSub.Subscribe      *)
(* (blossomsub.go, lines 598-653) and the reader goroutine it starts for   *)
(* each bit of the bitmask.                                                 *)
(*                                                                         *)
(* A bitmask is split by Join into bits (BitsOf[m], in Join's order) and   *)
(* the overlay delivers a message published on bitmask m to the           *)
(* subscriptions of every bit of m, so a bit shared by two bitmasks        *)
(* carries the messages of both.  Each element of Calls is one Subscribe   *)
(* call, for the bitmask MaskOf[k], with its handler.  Messages are the    *)
(* numbers 1..MaxPublish, in publishing order; msgs[i] is the bitmask of   *)
(* message i.  sub.Next(b.ctx) waits for a message: b.ctx is the          *)
(* context.Background() of the constructors and is never cancelled, so a   *)
(* reader goroutine never sees an error and never leaves its loop.         *)
(***************************************************************************)
EXTENDS Naturals, Sequences, FiniteSets

CONSTANTS
    Calls,       \* Subscribe calls
    Masks,       \* bitmasks
    Bits,        \* the bits bitmasks are made of
    BitsOf,      \* BitsOf[m]: the bits Join returns for m, in order
    MaskOf,      \* MaskOf[k]: the bitmask of call k
    JoinFails,   \* whether ps.Join may fail
    SubFails,    \* whether bit.Subscribe may fail
    MaxPublish   \* bound on published messages

ASSUME ConstAssumption ==
    /\ BitsOf \in [Masks -> Seq(Bits)]
    /\ MaskOf \in [Calls -> Masks]
    /\ {JoinFails, SubFails} \subseteq BOOLEAN
    /\ MaxPublish \in Nat

VARIABLES
    spc,         \* spc[k]: where call k is
    idx,         \* idx[k]: the bit of Join's result call k is at
    subs,        \* live subscriptions, as <<call, bit>> pairs
    readers,     \* subscriptions with a reader goroutine
    bitmaskMap,  \* keys of b.bitmaskMap
    inbox,       \* inbox[s]: messages delivered to subscription s, unread
    handled,     \* handled[k]: messages k's handler received
    msgs         \* msgs[i]: the bitmask message i was published on

vars == <<spc, idx, subs, readers, bitmaskMap, inbox, handled, msgs>>

Sub == Calls \X Bits
Msg == 1..MaxPublish
SPC == {"idle", "subscribing", "returned", "failed"}

TypeOK ==
    /\ spc \in [Calls -> SPC]
    /\ idx \in [Calls -> Nat \ {0}]
    /\ subs \in SUBSET Sub
    /\ readers \in SUBSET subs
    /\ bitmaskMap \in SUBSET Bits
    /\ inbox \in [Sub -> SUBSET Msg]
    /\ handled \in [Calls -> SUBSET Msg]
    /\ msgs \in Seq(Masks)
    /\ Len(msgs) <= MaxPublish

Init ==
    /\ spc = [k \in Calls |-> "idle"]
    /\ idx = [k \in Calls |-> 1]
    /\ subs = {}
    /\ readers = {}
    /\ bitmaskMap = {}
    /\ inbox = [s \in Sub |-> {}]
    /\ handled = [k \in Calls |-> {}]
    /\ msgs = <<>>

\* The bits of bitmask m.
BitsOfMask(m) == {BitsOf[m][i] : i \in 1..Len(BitsOf[m])}

\* The bits of call k's bitmask.
BitsOfCall(k) == BitsOfMask(MaskOf[k])

-----------------------------------------------------------------------------
(* Lines 602-607: ps.Join(bitmask); on error Subscribe returns.            *)
Join(k) ==
    /\ spc[k] = "idle"
    /\ \/ spc' = [spc EXCEPT ![k] = "subscribing"]
       \/ JoinFails /\ spc' = [spc EXCEPT ![k] = "failed"]
    /\ UNCHANGED <<idx, subs, readers, bitmaskMap, inbox, handled, msgs>>

(* Lines 610-622: for each bit, bit.Subscribe(); on error return at once,  *)
(* leaving the bits already subscribed without a reader.  A bit not yet in *)
(* bitmaskMap is recorded there.                                           *)
SubscribeBit(k) ==
    /\ spc[k] = "subscribing"
    /\ idx[k] <= Len(BitsOf[MaskOf[k]])
    /\ LET bit == BitsOf[MaskOf[k]][idx[k]] IN
         \/ /\ subs' = subs \cup {<<k, bit>>}
            /\ bitmaskMap' = bitmaskMap \cup {bit}
            /\ idx' = [idx EXCEPT ![k] = @ + 1]
            /\ UNCHANGED spc
         \/ /\ SubFails
            /\ spc' = [spc EXCEPT ![k] = "failed"]
            /\ UNCHANGED <<subs, bitmaskMap, idx>>
    /\ UNCHANGED <<readers, inbox, handled, msgs>>

\* Mutant: without the copy `sub := sub` (line 632) every goroutine of the
\* loop reads the loop variable's last value (Go before 1.22), so only the
\* last subscription of the call gets readers.
StartReadersShared(k) ==
    /\ spc[k] = "subscribing"
    /\ idx[k] > Len(BitsOf[MaskOf[k]])
    /\ readers' = readers \cup
                     {s \in subs : s[1] = k /\ Len(BitsOf[MaskOf[k]]) > 0
                                  /\ s[2] = BitsOf[MaskOf[k]][Len(BitsOf[MaskOf[k]])]}
    /\ spc' = [spc EXCEPT ![k] = "returned"]
    /\ UNCHANGED <<idx, subs, bitmaskMap, inbox, handled, msgs>>

(* Lines 624-652: one reader goroutine per subscription, then return nil.  *)
StartReaders(k) ==
    /\ spc[k] = "subscribing"
    /\ idx[k] > Len(BitsOf[MaskOf[k]])
    /\ readers' = readers \cup {s \in subs : s[1] = k}
    /\ spc' = [spc EXCEPT ![k] = "returned"]
    /\ UNCHANGED <<idx, subs, bitmaskMap, inbox, handled, msgs>>

\* Mutant: the filter's test is negated.
ReaderNegated(s) ==
    /\ s \in readers
    /\ \E i \in inbox[s] :
         /\ inbox' = [inbox EXCEPT ![s] = @ \ {i}]
         /\ handled' = IF msgs[i] # MaskOf[s[1]]
                         THEN [handled EXCEPT ![s[1]] = @ \cup {i}]
                         ELSE handled
    /\ UNCHANGED <<spc, idx, subs, readers, bitmaskMap, msgs>>

(* Lines 635-647, one turn of the reader loop: sub.Next(b.ctx) returns the *)
(* next message delivered to the subscription, and it goes to the handler  *)
(* only when its bitmask is the subscribed one; the handler's error is     *)
(* logged and dropped.                                                     *)
Reader(s) ==
    /\ s \in readers
    /\ \E i \in inbox[s] :
         /\ inbox' = [inbox EXCEPT ![s] = @ \ {i}]
         /\ handled' = IF msgs[i] = MaskOf[s[1]]
                         THEN [handled EXCEPT ![s[1]] = @ \cup {i}]
                         ELSE handled
    /\ UNCHANGED <<spc, idx, subs, readers, bitmaskMap, msgs>>

(* The overlay delivers a message on bitmask m to every subscription of a  *)
(* bit of m.                                                               *)
Publish ==
    /\ Len(msgs) < MaxPublish
    /\ \E m \in Masks :
         /\ msgs' = Append(msgs, m)
         /\ inbox' = [s \in Sub |->
                        IF s \in subs /\ s[2] \in BitsOfMask(m)
                          THEN inbox[s] \cup {Len(msgs) + 1} ELSE inbox[s]]
    /\ UNCHANGED <<spc, idx, subs, readers, bitmaskMap, handled>>

Next ==
    \/ Publish
    \/ \E k \in Calls : Join(k) \/ SubscribeBit(k) \/ StartReaders(k)
    \/ \E s \in Sub : Reader(s)

Spec == Init /\ [][Next]_vars

(* A Subscribe call in progress runs on to its return, and a reader       *)
(* goroutine with a message waiting is eventually scheduled: the Go        *)
(* scheduler runs every runnable goroutine, and nothing else blocks them.  *)
(* Nothing obliges anyone to call Subscribe or Publish.                    *)
FairSpec ==
    /\ Spec
    /\ \A k \in Calls : WF_vars(SubscribeBit(k) \/ StartReaders(k))
    /\ \A s \in Sub : WF_vars(Reader(s))

-----------------------------------------------------------------------------
(* Properties.                                                              *)

\* Subscribe returns nil (line 652) only after every bit of its bitmask has
\* a subscription read by its own goroutine: whatever the other calls do
\* with shared bits and whichever bit subscriptions fail, a call that
\* succeeded listens on all of its bitmask.
ReadersOnEveryBit ==
    \A k \in Calls : spc[k] = "returned" =>
        \A b \in BitsOfCall(k) : <<k, b>> \in readers

\* Every message on a call's bitmask that the overlay delivered to one of
\* the call's subscriptions, even before Subscribe started its readers,
\* reaches the call's handler, unless Subscribe failed part-way and left
\* that subscription without a reader (line 615).
DeliveredToHandler ==
    \A k \in Calls, i \in Msg :
        (\E b \in Bits : i \in inbox[<<k, b>>] /\ msgs[i] = MaskOf[k])
            ~> (i \in handled[k] \/ spc[k] = "failed")

=============================================================================

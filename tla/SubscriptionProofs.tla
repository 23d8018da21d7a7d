------------------------- MODULE SubscriptionProofs --------------------------
(***************************************************************************)
(* Proofs about Subscribe and its reader goroutines, for every set of      *)
(* calls, bitmasks and bits, every split of bitmasks into bits and every   *)
(* bound on publishes.                                                      *)
(***************************************************************************)
EXTENDS Subscription, TLAPS

USE ConstAssumption

-----------------------------------------------------------------------------
(* The initial state is well typed.                                        *)
LEMMA InitTyped == Init => TypeOK
<1> SUFFICES ASSUME Init PROVE TypeOK
  OBVIOUS
<1>1. spc \in [Calls -> SPC] /\ idx \in [Calls -> Nat \ {0}]
  BY DEF Init, SPC
<1>2. inbox \in [Sub -> SUBSET Msg] /\ handled \in [Calls -> SUBSET Msg]
  BY DEF Init
<1>3. msgs \in Seq(Masks) /\ Len(msgs) <= MaxPublish
  BY DEF Init
<1>4. QED
  BY <1>1, <1>2, <1>3 DEF Init, TypeOK

(* Every step keeps the state well typed.  The one fact that is more than  *)
(* a type is readers \subseteq subs: StartReaders (line 629) starts a      *)
(* reader only for a subscription the call made.                            *)
LEMMA TypeStep == TypeOK /\ [Next]_vars => TypeOK'
<1> SUFFICES ASSUME TypeOK, [Next]_vars PROVE TypeOK'
  OBVIOUS
<1>1. CASE Publish
  <2>1. PICK m \in Masks :
          /\ msgs' = Append(msgs, m)
          /\ inbox' = [s \in Sub |->
                         IF s \in subs /\ s[2] \in BitsOfMask(m)
                           THEN inbox[s] \cup {Len(msgs) + 1} ELSE inbox[s]]
    BY <1>1 DEF Publish
  <2>2. Len(msgs) + 1 \in Msg /\ Len(msgs') <= MaxPublish
    BY <1>1, <2>1 DEF Publish, TypeOK, Msg
  <2>3. QED
    BY <1>1, <2>1, <2>2 DEF Publish, TypeOK
<1>2. ASSUME NEW k \in Calls, Join(k) PROVE TypeOK'
  BY <1>2 DEF Join, TypeOK, SPC
<1>3. ASSUME NEW k \in Calls, SubscribeBit(k) PROVE TypeOK'
  <2> DEFINE bit == BitsOf[MaskOf[k]][idx[k]]
  <2>1. bit \in Bits
    BY <1>3 DEF SubscribeBit, TypeOK
  <2>2. idx[k] + 1 \in Nat \ {0}
    BY <1>3 DEF TypeOK
  <2>3. CASE /\ subs' = subs \cup {<<k, bit>>}
             /\ bitmaskMap' = bitmaskMap \cup {bit}
             /\ idx' = [idx EXCEPT ![k] = @ + 1]
             /\ UNCHANGED spc
    BY <1>3, <2>1, <2>2, <2>3 DEF SubscribeBit, TypeOK, Sub
  <2>4. CASE /\ spc' = [spc EXCEPT ![k] = "failed"]
             /\ UNCHANGED <<subs, bitmaskMap, idx>>
    BY <1>3, <2>4 DEF SubscribeBit, TypeOK, SPC
  <2>5. QED
    BY <1>3, <2>3, <2>4 DEF SubscribeBit
<1>4. ASSUME NEW k \in Calls, StartReaders(k) PROVE TypeOK'
  BY <1>4 DEF StartReaders, TypeOK, SPC
<1>5. ASSUME NEW s \in Sub, Reader(s) PROVE TypeOK'
  <2>1. s[1] \in Calls
    BY DEF Sub
  <2>2. PICK i \in inbox[s] :
          /\ inbox' = [inbox EXCEPT ![s] = @ \ {i}]
          /\ handled' = IF msgs[i] = MaskOf[s[1]]
                          THEN [handled EXCEPT ![s[1]] = @ \cup {i}]
                          ELSE handled
    BY <1>5 DEF Reader
  <2>3. i \in Msg
    BY DEF TypeOK
  <2>4. QED
    BY <1>5, <2>1, <2>2, <2>3 DEF Reader, TypeOK
<1>6. CASE UNCHANGED vars
  BY <1>6 DEF vars, TypeOK
<1>7. QED
  BY <1>1, <1>2, <1>3, <1>4, <1>5, <1>6 DEF Next

(* Every reachable state of Subscribe and its readers is well typed.       *)
THEOREM TypeCorrect == Spec => []TypeOK
<1>1. Init => TypeOK
  BY InitTyped
<1>2. QED
  BY <1>1, TypeStep, PTL DEF Spec

-----------------------------------------------------------------------------
(* Why a call that returned nil has a reader on every bit: a call that has *)
(* not joined is at the first bit; a call in its loop has subscribed to    *)
(* every bit before idx[k], and idx[k] never passes one past the last bit; *)
(* and subscriptions and readers are never taken away.                     *)
SubInv ==
    /\ TypeOK
    /\ \A k \in Calls : spc[k] = "idle" => idx[k] = 1
    /\ \A k \in Calls : spc[k] = "subscribing" =>
         /\ idx[k] <= Len(BitsOf[MaskOf[k]]) + 1
         /\ \A i \in 1..(idx[k] - 1) : <<k, BitsOf[MaskOf[k]][i]>> \in subs
    /\ ReadersOnEveryBit


(* The steps of Subscribe call k keep the subscription facts.               *)
LEMMA CallStep ==
    ASSUME SubInv, NEW k \in Calls,
           Join(k) \/ SubscribeBit(k) \/ StartReaders(k)
    PROVE  SubInv'
<1> USE DEF SubInv
<1>1. TypeOK'
  BY TypeStep DEF Next
<1>2. /\ subs \subseteq subs'
      /\ readers \subseteq readers'
      /\ \A j \in Calls \ {k} : spc'[j] = spc[j] /\ idx'[j] = idx[j]
  BY DEF Join, SubscribeBit, StartReaders, TypeOK
<1>3. CASE Join(k)
  <2>1. idx'[k] = 1 /\ spc'[k] \in {"subscribing", "failed"}
    BY <1>3 DEF Join, TypeOK
  <2>2. \A j \in Calls : spc'[j] = "subscribing" =>
          /\ idx'[j] <= Len(BitsOf[MaskOf[j]]) + 1
          /\ \A i \in 1..(idx'[j] - 1) : <<j, BitsOf[MaskOf[j]][i]>> \in subs'
    BY <1>2, <1>3, <2>1 DEF Join, TypeOK
  <2>3. ReadersOnEveryBit'
    BY <1>2, <1>3, <2>1 DEF Join, TypeOK, ReadersOnEveryBit
  <2>4. \A j \in Calls : spc'[j] = "idle" => idx'[j] = 1
    BY <1>2, <1>3, <2>1 DEF Join, TypeOK
  <2>5. QED
    BY <1>1, <2>2, <2>3, <2>4
<1>4. CASE SubscribeBit(k)
  <2> DEFINE bit == BitsOf[MaskOf[k]][idx[k]]
  <2>1. CASE /\ subs' = subs \cup {<<k, bit>>}
             /\ idx' = [idx EXCEPT ![k] = @ + 1]
             /\ UNCHANGED <<spc, readers>>
    <3>1. \A i \in 1..(idx'[k] - 1) : <<k, BitsOf[MaskOf[k]][i]>> \in subs'
      BY <1>4, <2>1 DEF SubscribeBit, TypeOK
    <3>2. idx'[k] <= Len(BitsOf[MaskOf[k]]) + 1
      BY <1>4, <2>1 DEF SubscribeBit, TypeOK
    <3>3. QED
      BY <1>1, <1>2, <1>4, <2>1, <3>1, <3>2 DEF SubscribeBit, TypeOK,
         ReadersOnEveryBit
  <2>2. CASE /\ spc' = [spc EXCEPT ![k] = "failed"]
             /\ UNCHANGED <<subs, idx, readers>>
    BY <1>1, <1>2, <1>4, <2>2 DEF SubscribeBit, TypeOK, ReadersOnEveryBit
  <2>3. QED
    BY <1>4, <2>1, <2>2 DEF SubscribeBit
<1>5. CASE StartReaders(k)
  <2>1. \A b \in BitsOfCall(k) : <<k, b>> \in readers'
    <3> SUFFICES ASSUME NEW b \in BitsOfCall(k) PROVE <<k, b>> \in readers'
      OBVIOUS
    <3>1. PICK i \in 1..Len(BitsOf[MaskOf[k]]) : b = BitsOf[MaskOf[k]][i]
      BY DEF BitsOfCall, BitsOfMask
    <3>2. i \in 1..(idx[k] - 1)
      BY <1>5, <3>1 DEF StartReaders, TypeOK
    <3>3. <<k, b>> \in subs
      BY <1>5, <3>1, <3>2 DEF StartReaders
    <3>4. QED
      BY <1>5, <3>3 DEF StartReaders
  <2>2. QED
    BY <1>1, <1>2, <1>5, <2>1 DEF StartReaders, TypeOK, ReadersOnEveryBit
<1>6. QED
  BY <1>3, <1>4, <1>5

(* Publishes and reader turns leave calls, subscriptions and readers alone. *)
LEMMA OtherStep ==
    ASSUME SubInv, Publish \/ \E s \in Sub : Reader(s)
    PROVE  SubInv'
<1>1. TypeOK'
  BY TypeStep DEF Next, SubInv
<1>2. UNCHANGED <<spc, idx, subs, readers>>
  BY DEF Publish, Reader
<1>3. QED
  BY <1>1, <1>2 DEF SubInv, ReadersOnEveryBit, BitsOfCall, BitsOfMask

(* Line 652: Subscribe returns nil only after the loop of lines 629-650    *)
(* has started a reader on every subscription of the call, and the loop of *)
(* lines 611-622 has subscribed to every bit that Join returned.  So for   *)
(* any calls, bitmasks and splits into shared bits, a call that succeeded  *)
(* has a reader on every bit of its bitmask.                               *)
THEOREM ReadersOnEveryBitHolds == Spec => []ReadersOnEveryBit
<1>1. Init => SubInv
  BY InitTyped DEF Init, SubInv, ReadersOnEveryBit
<1>2. SubInv /\ [Next]_vars => SubInv'
  <2> SUFFICES ASSUME SubInv, [Next]_vars PROVE SubInv'
    OBVIOUS
  <2>1. CASE Publish \/ \E s \in Sub : Reader(s)
    BY <2>1, OtherStep
  <2>2. ASSUME NEW k \in Calls, Join(k) \/ SubscribeBit(k) \/ StartReaders(k)
        PROVE  SubInv'
    BY <2>2, CallStep
  <2>3. CASE UNCHANGED vars
    BY <2>3 DEF vars, SubInv, TypeOK, ReadersOnEveryBit, BitsOfCall, BitsOfMask
  <2>4. QED
    BY <2>1, <2>2, <2>3 DEF Next
<1>3. QED
  BY <1>1, <1>2, PTL DEF Spec, SubInv

=============================================================================

-------------------------- MODULE MPMCRingBufferProofs --------------------------
(***************************************************************************)
(* The ring for any number of slots, producers and consumers: no two       *)
(* threads meet at a slot, and what comes out is what went in at that      *)
(* position.                                                               *)
(***************************************************************************)
EXTENDS MPMCRingBuffer, TLAPS

(***************************************************************************)
(* The invariant of the ring. The Size positions from tail_ on have one    *)
(* slot each: those below head_ are claimed, being filled or ready to be   *)
(* read; those from head_ on are free, or still being emptied by a thread  *)
(* that holds the position one round before. A claim that can still        *)
(* succeed has a slot whose sequence number has not moved since its check. *)
(***************************************************************************)
HoldsFill(p) == \E t \in Filling : pos[t] = p
HoldsEmpty(p) == \E t \in Emptying : pos[t] = p

Bounds ==
    /\ tail_ <= head_ /\ head_ <= tail_ + Size
    /\ Len(claims) = head_

Labels ==
    /\ \A t \in Producers : pc[t] \in {"idle"} \cup EnqLabels
    /\ \A t \in Consumers : pc[t] \in {"idle"} \cup DeqLabels

Ready ==
    \A p \in Nat : (tail_ <= p /\ p < head_ /\ ~HoldsFill(p)) =>
        sequence[Slot(p)] = p + 1 /\ data[Slot(p)] = claims[p + 1]

Free ==
    \A p \in Nat : (head_ <= p /\ p < tail_ + Size /\ ~HoldsEmpty(p - Size)) =>
        sequence[Slot(p)] = p

Fillers ==
    /\ \A t \in Filling : /\ tail_ <= pos[t] /\ pos[t] < head_
                          /\ sequence[Slot(pos[t])] = pos[t]
                          /\ item[t] = claims[pos[t] + 1]
                          /\ pc[t] = "enqPublish" => data[Slot(pos[t])] = claims[pos[t] + 1]
    /\ \A t, u \in Filling : t # u => pos[t] # pos[u]

Emptiers ==
    /\ \A t \in Emptying : /\ head_ <= pos[t] + Size /\ pos[t] < tail_
                           /\ sequence[Slot(pos[t])] = pos[t] + 1
                           /\ data[Slot(pos[t])] = claims[pos[t] + 1]
    /\ \A t, u \in Emptying : t # u => pos[t] # pos[u]

Claimers ==
    /\ \A t \in Producers :
          /\ pc[t] \in {"enqCheck", "enqClaim"} => pos[t] <= head_
          /\ (pc[t] = "enqClaim" /\ pos[t] = head_) => sequence[Slot(pos[t])] = pos[t]
    /\ \A t \in Consumers :
          /\ pc[t] \in {"deqCheck", "deqClaim"} => pos[t] <= tail_
          /\ (pc[t] = "deqClaim" /\ pos[t] = tail_) => sequence[Slot(pos[t])] = pos[t] + 1

Results ==
    \A t \in Consumers : pc[t] \in {"deqRelease", "deqTrue"} =>
        pos[t] < head_ /\ item[t] = claims[pos[t] + 1]

Carried ==
    \A t \in Producers : pc[t] \in EnqLabels => item[t] \in Items

RingInv ==
    /\ RingTypeOK /\ Labels /\ Bounds /\ Ready /\ Free /\ Fillers /\ Emptiers /\ Claimers /\ Results
    /\ Carried

-----------------------------------------------------------------------------
\* fast_mod() names a slot.
LEMMA SlotType == \A a \in Nat : Slot(a) \in Slots
BY RingAssumption DEF Slot, Slots

\* A position is a number of rounds and a slot.
LEMMA Rounds == \A a \in Nat : a \div Size \in Nat /\ a = Size * (a \div Size) + (a % Size)
BY RingAssumption

\* A later round is at least Size positions later.
LEMMA LaterRound == ASSUME NEW k \in Int, NEW l \in Int, k < l PROVE Size * l >= Size * k + Size
<1>1. Size * (l - k) >= Size * 1
  BY RingAssumption
<1>2. Size * (l - k) = Size * l - Size * k
  BY RingAssumption
<1> QED BY <1>1, <1>2, RingAssumption

\* Two positions of one slot are at least Size apart.
LEMMA SlotGap ==
  ASSUME NEW a \in Nat, NEW b \in Nat, Slot(a) = Slot(b), a < b
  PROVE  b - a >= Size
<1> DEFINE k == a \div Size  l == b \div Size
<1>1. k \in Nat /\ l \in Nat /\ a = Size * k + (a % Size) /\ b = Size * l + (b % Size)
  BY Rounds
<1>2. a % Size = b % Size /\ a % Size \in Int
  BY RingAssumption DEF Slot
<1>3. Size * k \in Int /\ Size * l \in Int
  BY <1>1, RingAssumption
<1>4. Size * k < Size * l
  BY <1>1, <1>2, <1>3
<1>5. k < l
  <2>1. CASE l < k
    <3>1. Size * k >= Size * l + Size
      BY <2>1, <1>1, LaterRound
    <3> QED BY <3>1, <1>3, <1>4, RingAssumption
  <2>2. CASE l = k
    BY <2>2, <1>3, <1>4
  <2> QED BY <2>1, <2>2, <1>1
<1>6. Size * l >= Size * k + Size
  BY <1>1, <1>5, LaterRound
<1> QED BY <1>1, <1>2, <1>3, <1>6, RingAssumption

\* Within Size consecutive positions a slot occurs once.
LEMMA SameSlot ==
  ASSUME NEW a \in Nat, NEW b \in Nat, Slot(a) = Slot(b), a < b + Size, b < a + Size
  PROVE  a = b
<1>1. ~ (a < b)
  BY SlotGap, RingAssumption
<1>2. ~ (b < a)
  BY SlotGap, RingAssumption
<1> QED BY <1>1, <1>2

\* One round later the slot is the same.
LEMMA NextRound == ASSUME NEW a \in Nat PROVE Slot(a + Size) = Slot(a)
<1> DEFINE b == a + Size  k == a \div Size  l == b \div Size
<1>1. k \in Nat /\ l \in Nat /\ a = Size * k + Slot(a) /\ b = Size * l + Slot(b)
  BY Rounds, RingAssumption DEF Slot
<1>2. Slot(a) \in 0 .. Size - 1 /\ Slot(b) \in 0 .. Size - 1
  BY SlotType, RingAssumption DEF Slots
<1>3. /\ Size * k \in Int /\ Size * l \in Int /\ Size * (k + 1) \in Int
      /\ Size * (k + 1) = Size * k + Size
  BY <1>1, RingAssumption
<1> HIDE DEF k, l
<1>4. ~ (l < k + 1)
  BY <1>1, <1>2, <1>3, RingAssumption, LaterRound
<1>5. ~ (k + 1 < l)
  BY <1>1, <1>2, <1>3, RingAssumption, LaterRound
<1>6. l = k + 1
  BY <1>1, <1>4, <1>5
<1> QED BY <1>1, <1>2, <1>3, <1>6, RingAssumption

\* The invariant says what SlotsExclusive says.
LEMMA RingInvExclusive == RingInv => SlotsExclusive
<1> SUFFICES ASSUME RingInv PROVE SlotsExclusive
  OBVIOUS
<1>1. pos \in [Threads -> Nat] /\ head_ \in Nat /\ tail_ \in Nat /\ Bounds /\ Fillers /\ Emptiers /\ Results
  BY DEF RingInv, RingTypeOK
<1>2. ASSUME NEW t \in Filling \cup Emptying, NEW u \in Filling \cup Emptying, t # u
      PROVE  Slot(pos[t]) # Slot(pos[u])
  <2>1. t \in Threads /\ u \in Threads
    BY <1>2 DEF Filling, Emptying, Threads
  <2>2. pos[t] \in Nat /\ pos[u] \in Nat
    BY <1>1, <2>1
  <2>3. CASE t \in Filling /\ u \in Filling
    <3>1. pos[t] # pos[u] /\ pos[t] < pos[u] + Size /\ pos[u] < pos[t] + Size
      BY <1>1, <1>2, <2>2, <2>3, RingAssumption DEF Bounds, Fillers
    <3> QED BY <3>1, <2>2, SameSlot
  <2>4. CASE t \in Emptying /\ u \in Emptying
    <3>1. pos[t] # pos[u] /\ pos[t] < pos[u] + Size /\ pos[u] < pos[t] + Size
      BY <1>1, <1>2, <2>2, <2>4, RingAssumption DEF Bounds, Emptiers
    <3> QED BY <3>1, <2>2, SameSlot
  <2>5. CASE t \in Filling /\ u \in Emptying
    <3>1. pos[t] # pos[u] /\ pos[t] < pos[u] + Size /\ pos[u] < pos[t] + Size
      BY <1>1, <2>2, <2>5, RingAssumption DEF Bounds, Fillers, Emptiers
    <3> QED BY <3>1, <2>2, SameSlot
  <2>6. CASE t \in Emptying /\ u \in Filling
    <3>1. pos[t] # pos[u] /\ pos[t] < pos[u] + Size /\ pos[u] < pos[t] + Size
      BY <1>1, <2>2, <2>6, RingAssumption DEF Bounds, Fillers, Emptiers
    <3> QED BY <3>1, <2>2, SameSlot
  <2> QED BY <1>2, <2>3, <2>4, <2>5, <2>6
<1> QED BY <1>1, <1>2 DEF SlotsExclusive, Results

\* A new ring satisfies the invariant.
LEMMA RingInvInit == RingInit => RingInv
<1> SUFFICES ASSUME RingInit PROVE RingInv
  OBVIOUS
<1>1. Filling = {} /\ Emptying = {}
  BY DEF RingInit, Filling, Emptying, Threads
<1>2. RingTypeOK
  BY RingAssumption DEF RingInit, RingTypeOK, Slots, Threads
<1>3. Labels /\ Claimers /\ Results /\ Carried
  BY DEF RingInit, Labels, Claimers, Results, Carried, Threads, EnqLabels, DeqLabels
<1>4. Bounds /\ Ready
  BY RingAssumption DEF RingInit, Bounds, Ready
<1>5. Free
  <2>1. ASSUME NEW p \in Nat, p < Size PROVE Slot(p) = p
    BY <2>1, RingAssumption DEF Slot
  <2> QED BY <2>1, RingAssumption DEF Free, RingInit, Slots
<1>6. Fillers /\ Emptiers
  BY <1>1 DEF Fillers, Emptiers
<1> QED BY <1>2, <1>3, <1>4, <1>5, <1>6 DEF RingInv

-----------------------------------------------------------------------------
(***************************************************************************)
(* A step that leaves the shared state alone, by a thread that holds no    *)
(* position before it and none after it.                                   *)
(***************************************************************************)
Holding == {"enqWrite", "enqPublish", "deqRead", "deqRelease"}

PrivateStep(t) ==
    /\ UNCHANGED <<head_, tail_, sequence, data, claims>>
    /\ \A u \in Threads \ {t} : pc'[u] = pc[u] /\ pos'[u] = pos[u] /\ item'[u] = item[u]
    /\ pc[t] \notin Holding /\ pc'[t] \notin Holding

\* A private step keeps what the invariant says of the slots.
LEMMA PrivateKeepsSlots ==
  ASSUME RingInv, NEW t \in Threads, PrivateStep(t)
  PROVE  Bounds' /\ Ready' /\ Free' /\ Fillers' /\ Emptiers'
<1>1. Filling' = Filling /\ Emptying' = Emptying
  BY DEF PrivateStep, Filling, Emptying, Threads, Holding
<1>2. \A u \in Filling \cup Emptying : pc'[u] = pc[u] /\ pos'[u] = pos[u] /\ item'[u] = item[u]
  BY DEF PrivateStep, Filling, Emptying, Threads, Holding
<1>3. /\ head_' = head_ /\ tail_' = tail_ /\ sequence' = sequence /\ data' = data /\ claims' = claims
      /\ Bounds /\ Ready /\ Free /\ Fillers /\ Emptiers
  BY DEF PrivateStep, RingInv
<1>4. Bounds'
  BY <1>3 DEF Bounds
<1>5. \A p : HoldsFill(p)' = HoldsFill(p) /\ HoldsEmpty(p)' = HoldsEmpty(p)
  BY <1>1, <1>2 DEF HoldsFill, HoldsEmpty
<1>6. Ready' /\ Free'
  BY <1>3, <1>5 DEF Ready, Free
<1>7. Fillers'
  BY <1>1, <1>2, <1>3 DEF Fillers
<1>8. Emptiers'
  BY <1>1, <1>2, <1>3 DEF Emptiers
<1> QED BY <1>4, <1>6, <1>7, <1>8

\* enqueue()'s steps up to its claim, and its failed claim, keep the invariant.
LEMMA EnqPrivate ==
  ASSUME RingInv, NEW t \in Producers,
         (\E v \in Items : EnqCall(t, v)) \/ EnqLoad(t) \/ EnqCheck(t) \/ EnqClaimFails(t)
  PROVE  RingInv'
<1>0. t \in Threads /\ t \notin Consumers
  BY RingAssumption DEF Threads
<1>1. RingTypeOK /\ Labels /\ Claimers /\ Results /\ Carried
  BY DEF RingInv
<1> DEFINE D == sequence[Slot(pos[t])] - pos[t]
<1>2. pos[t] \in Nat /\ Slot(pos[t]) \in Slots /\ sequence[Slot(pos[t])] \in Nat /\ D \in Int
  BY <1>0, <1>1, SlotType DEF RingTypeOK
<1>3. D < 0 \/ D = 0 \/ D > 0
  BY <1>2
<1>4. EnqCheck(t) => pc'[t] \in {"enqClaim", "enqFalse", "enqLoad"} /\ (pc'[t] = "enqClaim" => D = 0)
  BY <1>0, <1>1, <1>3 DEF EnqCheck, Goto, RingTypeOK
<1>5. /\ UNCHANGED <<head_, tail_, sequence, data, claims>>
      /\ pc' = [pc EXCEPT ![t] = pc'[t]]
      /\ pc[t] \in {"idle", "enqLoad", "enqCheck", "enqClaim"}
      /\ pc'[t] \in {"enqCheck", "enqClaim", "enqFalse", "enqLoad"}
      /\ pc'[t] = "enqClaim" => D = 0 /\ pos'[t] = pos[t]
      /\ pc'[t] = "enqCheck" => pos'[t] = head_
      /\ pc[t] = "idle" => item'[t] \in Items
      /\ pc[t] # "idle" => item'[t] = item[t]
      /\ \A u \in Threads \ {t} : pos'[u] = pos[u] /\ item'[u] = item[u]
      /\ pos' \in [Threads -> Nat] /\ item' \in [Threads -> Items \cup {NoItem}]
  <2>1. CASE \E v \in Items : EnqCall(t, v)
    BY <1>0, <1>1, <2>1 DEF EnqCall, Goto, RingTypeOK
  <2>2. CASE EnqLoad(t)
    BY <1>0, <1>1, <2>2 DEF EnqLoad, Goto, RingTypeOK
  <2>3. CASE EnqCheck(t)
    BY <1>0, <1>1, <1>4, <2>3 DEF EnqCheck, Goto, RingTypeOK
  <2>4. CASE EnqClaimFails(t)
    BY <1>0, <1>1, <2>4 DEF EnqClaimFails, Goto, RingTypeOK
  <2> QED BY <2>1, <2>2, <2>3, <2>4
<1>6. pc' \in [Threads -> {"idle"} \cup EnqLabels \cup DeqLabels] /\ \A u \in Threads \ {t} : pc'[u] = pc[u]
  BY <1>0, <1>1, <1>5 DEF RingTypeOK, EnqLabels
<1>7. PrivateStep(t)
  BY <1>5, <1>6 DEF PrivateStep, Holding
<1>8. Bounds' /\ Ready' /\ Free' /\ Fillers' /\ Emptiers'
  BY <1>0, <1>7, PrivateKeepsSlots
<1>9. RingTypeOK'
  BY <1>1, <1>5, <1>6 DEF RingTypeOK
<1>10. Labels'
  BY <1>0, <1>1, <1>5, <1>6 DEF Labels, EnqLabels, Threads
<1>11. Claimers'
  <2>1. /\ pc'[t] \in {"enqCheck", "enqClaim"} => pos'[t] <= head_
        /\ (pc'[t] = "enqClaim" /\ pos'[t] = head_) => sequence[Slot(pos'[t])] = pos'[t]
    <3>1. CASE pc'[t] = "enqClaim"
      <4>1. EnqCheck(t)
        BY <1>0, <1>1, <3>1 DEF EnqCall, EnqLoad, EnqClaimFails, Goto, RingTypeOK
      <4> QED BY <1>1, <1>2, <1>5, <3>1, <4>1 DEF Claimers, EnqCheck
    <3>2. CASE pc'[t] = "enqCheck"
      BY <1>1, <1>5, <3>2 DEF RingTypeOK
    <3> QED BY <3>1, <3>2
  <2> QED BY <1>0, <1>1, <1>5, <1>6, <2>1 DEF Claimers, Threads
<1>12. Results'
  BY <1>0, <1>1, <1>5, <1>6 DEF Results, Threads
<1>13. Carried'
  <2>1. item'[t] \in Items
    BY <1>1, <1>5 DEF Carried, EnqLabels
  <2> QED BY <1>1, <1>5, <1>6, <2>1 DEF Carried, Threads
<1> QED BY <1>8, <1>9, <1>10, <1>11, <1>12, <1>13 DEF RingInv

\* dequeue()'s steps up to its claim, its failed claim, and the return from either call.
LEMMA DeqPrivate ==
  ASSUME RingInv, NEW t \in Threads,
         (t \in Consumers /\ (DeqCall(t) \/ DeqLoad(t) \/ DeqCheck(t) \/ DeqClaimFails(t))) \/ Return(t)
  PROVE  RingInv'
<1>1. RingTypeOK /\ Labels /\ Claimers /\ Results /\ Carried
  BY DEF RingInv
<1> DEFINE D == sequence[Slot(pos[t])] - (pos[t] + 1)
<1>2. pos[t] \in Nat /\ Slot(pos[t]) \in Slots /\ sequence[Slot(pos[t])] \in Nat /\ D \in Int
  BY <1>1, SlotType DEF RingTypeOK
<1>3. D < 0 \/ D = 0 \/ D > 0
  BY <1>2
<1>4. DeqCheck(t) => pc'[t] \in {"deqClaim", "deqFalse", "deqLoad"} /\ (pc'[t] = "deqClaim" => D = 0)
  BY <1>1, <1>3 DEF DeqCheck, Goto, RingTypeOK
<1>5. /\ UNCHANGED <<head_, tail_, sequence, data, claims>>
      /\ pc' = [pc EXCEPT ![t] = pc'[t]]
      /\ pc[t] \notin Holding
      /\ pc'[t] \in {"idle", "deqCheck", "deqClaim", "deqFalse", "deqLoad"}
      /\ pc'[t] # "idle" => t \in Consumers
      /\ pc'[t] = "deqClaim" => D = 0 /\ pos'[t] = pos[t] /\ pc[t] = "deqCheck"
      /\ pc'[t] = "deqCheck" => pos'[t] = tail_
      /\ \A u \in Threads \ {t} : pos'[u] = pos[u] /\ item'[u] = item[u]
      /\ pos' \in [Threads -> Nat] /\ item' \in [Threads -> Items \cup {NoItem}]
  <2>1. CASE t \in Consumers /\ DeqCall(t)
    BY <1>1, <2>1 DEF DeqCall, Goto, RingTypeOK, Holding
  <2>2. CASE t \in Consumers /\ DeqLoad(t)
    BY <1>1, <2>2 DEF DeqLoad, Goto, RingTypeOK, Holding
  <2>3. CASE t \in Consumers /\ DeqCheck(t)
    BY <1>1, <1>4, <2>3 DEF DeqCheck, Goto, RingTypeOK, Holding
  <2>4. CASE t \in Consumers /\ DeqClaimFails(t)
    BY <1>1, <2>4 DEF DeqClaimFails, Goto, RingTypeOK, Holding
  <2>5. CASE Return(t)
    BY <1>1, <2>5 DEF Return, Goto, RingTypeOK, Holding
  <2> QED BY <2>1, <2>2, <2>3, <2>4, <2>5
<1>6. pc' \in [Threads -> {"idle"} \cup EnqLabels \cup DeqLabels] /\ \A u \in Threads \ {t} : pc'[u] = pc[u]
  BY ZenonT(60), <1>1, <1>5 DEF RingTypeOK, DeqLabels
<1>7. PrivateStep(t)
  BY <1>5, <1>6 DEF PrivateStep, Holding
<1>8. Bounds' /\ Ready' /\ Free' /\ Fillers' /\ Emptiers'
  BY <1>7, PrivateKeepsSlots
<1>9. RingTypeOK'
  BY <1>1, <1>5, <1>6 DEF RingTypeOK
<1>10. Labels'
  BY <1>1, <1>5, <1>6, RingAssumption DEF Labels, DeqLabels, Threads
<1>11. Claimers'
  <2>1. /\ pc'[t] \in {"deqCheck", "deqClaim"} => pos'[t] <= tail_
        /\ (pc'[t] = "deqClaim" /\ pos'[t] = tail_) => sequence[Slot(pos'[t])] = pos'[t] + 1
    BY <1>1, <1>2, <1>5 DEF Claimers, RingTypeOK
  <2> QED BY ZenonT(60), <1>1, <1>5, <1>6, <2>1 DEF Claimers, Threads
<1>12. Results'
  BY <1>1, <1>5, <1>6 DEF Results, Threads
<1>13. Carried'
  BY <1>1, <1>5, <1>6 DEF Carried, Threads, EnqLabels
<1> QED BY <1>8, <1>9, <1>10, <1>11, <1>12, <1>13 DEF RingInv

-----------------------------------------------------------------------------
\* A claim of head_ that succeeds finds a slot nobody is at: the position is
\* less than Size above tail_, and its slot is not still being emptied.
LEMMA EnqClaimFree ==
  ASSUME RingInv, NEW t \in Producers, EnqClaim(t)
  PROVE  head_ < tail_ + Size /\ \A u \in Emptying : head_ < pos[u] + Size
<1>1. /\ head_ \in Nat /\ tail_ \in Nat /\ Size \in Nat /\ Size >= 2
      /\ tail_ <= head_ /\ head_ <= tail_ + Size
      /\ sequence[Slot(head_)] = head_
  BY RingAssumption DEF RingInv, RingTypeOK, Bounds, Claimers, EnqClaim
<1>2. head_ # tail_ + Size
  <2> SUFFICES ASSUME head_ = tail_ + Size PROVE FALSE
    OBVIOUS
  <2>1. sequence[Slot(tail_)] = head_
    BY <1>1, NextRound
  <2>2. CASE HoldsFill(tail_)
    BY <1>1, <2>1, <2>2 DEF RingInv, Fillers, HoldsFill
  <2>3. CASE ~HoldsFill(tail_)
    <3>1. tail_ < head_
      BY <1>1
    <3>2. sequence[Slot(tail_)] = tail_ + 1
      BY <1>1, <2>3, <3>1 DEF RingInv, Ready
    <3> QED BY <1>1, <2>1, <3>2
  <2> QED BY <2>2, <2>3
<1>3. ASSUME NEW u \in Emptying PROVE head_ < pos[u] + Size
  <2>1. pos[u] \in Nat /\ head_ <= pos[u] + Size /\ sequence[Slot(pos[u])] = pos[u] + 1
    BY DEF RingInv, RingTypeOK, Emptiers, Emptying, Threads
  <2>2. head_ # pos[u] + Size
    BY <1>1, <2>1, NextRound
  <2> QED BY <1>1, <2>1, <2>2
<1> QED BY <1>1, <1>2, <1>3

\* enqueue()'s claim keeps the invariant.
LEMMA EnqClaimKeeps == ASSUME RingInv, NEW t \in Producers, EnqClaim(t) PROVE RingInv'
<1>0. t \in Threads /\ t \notin Consumers
  BY RingAssumption DEF Threads
<1>1. /\ RingTypeOK /\ Labels /\ Bounds /\ Ready /\ Free /\ Fillers /\ Emptiers /\ Claimers /\ Results /\ Carried
      /\ head_ \in Nat /\ tail_ \in Nat /\ Size \in Nat
  BY RingAssumption DEF RingInv, RingTypeOK
<1>2. head_ < tail_ + Size /\ \A u \in Emptying : head_ < pos[u] + Size
  BY EnqClaimFree
<1>3. /\ pos[t] = head_ /\ head_' = head_ + 1 /\ pc[t] = "enqClaim" /\ pc'[t] = "enqWrite"
      /\ \A u \in Threads \ {t} : pc'[u] = pc[u]
      /\ pc' \in [Threads -> {"idle"} \cup EnqLabels \cup DeqLabels]
      /\ tail_' = tail_ /\ sequence' = sequence /\ data' = data /\ pos' = pos /\ item' = item
  BY <1>0, <1>1 DEF EnqClaim, Goto, RingTypeOK, EnqLabels
<1>4. /\ claims' \in Seq(Items) /\ Len(claims') = head_ + 1 /\ claims'[head_ + 1] = item[t]
      /\ \A i \in 1 .. head_ : claims'[i] = claims[i]
  <2>1. claims \in Seq(Items) /\ item[t] \in Items /\ Len(claims) = head_
    BY <1>1, <1>3 DEF RingTypeOK, Carried, Bounds, EnqLabels
  <2>2. claims' = Append(claims, item[t])
    BY DEF EnqClaim
  <2> QED BY <1>1, <2>1, <2>2
<1>5. Filling' = Filling \cup {t} /\ t \notin Filling /\ Emptying' = Emptying
  BY <1>0, <1>3 DEF Filling, Emptying, Threads
<1>6. \A u \in Filling \cup Emptying : u \in Threads \ {t} /\ pos[u] \in Nat /\ pc'[u] = pc[u]
  BY <1>0, <1>1, <1>3, <1>5 DEF Filling, Emptying, Threads, RingTypeOK
<1>7. RingTypeOK'
  BY <1>1, <1>3, <1>4 DEF RingTypeOK
<1>8. Labels'
  BY <1>0, <1>1, <1>3 DEF Labels, EnqLabels, Threads
<1>9. Bounds'
  BY <1>1, <1>2, <1>3, <1>4 DEF Bounds
<1>10. Ready'
  <2> SUFFICES ASSUME NEW p \in Nat, tail_ <= p, p < head_ + 1, ~HoldsFill(p)'
               PROVE  sequence[Slot(p)] = p + 1 /\ data[Slot(p)] = claims'[p + 1]
    BY <1>3 DEF Ready
  <2>1. p # head_ /\ ~HoldsFill(p)
    BY <1>3, <1>5 DEF HoldsFill
  <2>2. p < head_ /\ claims'[p + 1] = claims[p + 1]
    BY <1>1, <1>4, <2>1
  <2> QED BY <1>1, <2>1, <2>2 DEF Ready
<1>11. Free'
  <2> SUFFICES ASSUME NEW p \in Nat, head_ + 1 <= p, p < tail_ + Size, ~HoldsEmpty(p - Size)'
               PROVE  sequence[Slot(p)] = p
    BY <1>3 DEF Free
  <2>1. ~HoldsEmpty(p - Size)
    BY <1>3, <1>5 DEF HoldsEmpty
  <2> QED BY <1>1, <2>1 DEF Free
<1>12. Fillers'
  <2>1. ASSUME NEW u \in Filling
        PROVE  /\ tail_ <= pos[u] /\ pos[u] < head_ + 1
               /\ sequence[Slot(pos[u])] = pos[u]
               /\ item[u] = claims'[pos[u] + 1]
               /\ pc'[u] = "enqPublish" => data[Slot(pos[u])] = claims'[pos[u] + 1]
               /\ pos[u] # pos[t]
    <3>1. claims'[pos[u] + 1] = claims[pos[u] + 1]
      <4>1. pos[u] < head_ /\ pos[u] \in Nat
        BY <1>1, <1>6 DEF Fillers
      <4>2. pos[u] + 1 \in 1 .. head_
        BY <4>1, <1>1
      <4> QED BY <4>2, <1>4
    <3> QED BY <1>1, <1>3, <1>6, <3>1 DEF Fillers
  <2>2. /\ tail_ <= pos[t] /\ pos[t] < head_ + 1 /\ sequence[Slot(pos[t])] = pos[t]
        /\ item[t] = claims'[pos[t] + 1] /\ pc'[t] # "enqPublish"
    <3>1. tail_ <= head_
      BY <1>1 DEF Bounds
    <3>2. sequence[Slot(pos[t])] = pos[t]
      BY <1>1, <1>3 DEF Claimers
    <3> QED BY <1>1, <1>3, <1>4, <3>1, <3>2
  <2>3. \A u, w \in Filling : u # w => pos[u] # pos[w]
    BY <1>1 DEF Fillers
  <2> QED BY <1>3, <1>5, <2>1, <2>2, <2>3 DEF Fillers
<1>13. Emptiers'
  <2>1. ASSUME NEW u \in Emptying
        PROVE  /\ head_ + 1 <= pos[u] + Size
               /\ claims'[pos[u] + 1] = claims[pos[u] + 1]
    BY <1>1, <1>2, <1>4, <1>6 DEF Emptiers, Bounds
  <2> QED BY <1>1, <1>3, <1>5, <2>1 DEF Emptiers
<1>14. Claimers'
  <2>1. \A u \in Producers : pc'[u] \in {"enqCheck", "enqClaim"} => pc'[u] = pc[u] /\ pos[u] \in Nat
    BY <1>1, <1>3 DEF RingTypeOK, Threads
  <2>2. \A u \in Consumers : pc'[u] = pc[u]
    BY <1>0, <1>3 DEF Threads
  <2> QED BY <1>1, <1>3, <2>1, <2>2 DEF Claimers
<1>15. Results'
  <2>1. \A u \in Consumers : pc'[u] = pc[u] /\ pos[u] \in Nat
    BY <1>0, <1>1, <1>3 DEF Threads, RingTypeOK
  <2> QED BY <1>1, <1>3, <1>4, <2>1 DEF Results
<1>16. Carried'
  BY <1>0, <1>1, <1>3 DEF Carried, EnqLabels, Threads
<1> QED BY <1>7, <1>8, <1>9, <1>10, <1>11, <1>12, <1>13, <1>14, <1>15, <1>16 DEF RingInv

\* Copying the item into the claimed slot disturbs no other slot.
LEMMA EnqWriteKeeps == ASSUME RingInv, NEW t \in Producers, EnqWrite(t) PROVE RingInv'
<1>0. t \in Threads /\ t \notin Consumers
  BY RingAssumption DEF Threads
<1>1. /\ RingTypeOK /\ Labels /\ Bounds /\ Ready /\ Free /\ Fillers /\ Emptiers /\ Claimers /\ Results /\ Carried
      /\ head_ \in Nat /\ tail_ \in Nat /\ Size \in Nat
  BY RingAssumption DEF RingInv, RingTypeOK
<1>2. /\ pc[t] = "enqWrite" /\ pc'[t] = "enqPublish"
      /\ \A u \in Threads \ {t} : pc'[u] = pc[u]
      /\ pc' \in [Threads -> {"idle"} \cup EnqLabels \cup DeqLabels]
      /\ head_' = head_ /\ tail_' = tail_ /\ sequence' = sequence /\ pos' = pos /\ item' = item
      /\ claims' = claims
  BY <1>0, <1>1 DEF EnqWrite, Goto, RingTypeOK, EnqLabels
<1>3. t \in Filling /\ pos[t] \in Nat /\ Slot(pos[t]) \in Slots /\ item[t] \in Items
  BY <1>0, <1>1, <1>2, SlotType DEF Filling, RingTypeOK, Carried, EnqLabels
<1>4. /\ data' \in [Slots -> Items \cup {NoItem}]
      /\ data'[Slot(pos[t])] = item[t]
      /\ \A i \in Slots : i # Slot(pos[t]) => data'[i] = data[i]
  BY <1>1, <1>3 DEF EnqWrite, RingTypeOK
<1>5. Filling' = Filling /\ Emptying' = Emptying
  BY <1>0, <1>2 DEF Filling, Emptying, Threads
<1>6. \A u \in Filling \cup Emptying : u \in Threads /\ pos[u] \in Nat /\ Slot(pos[u]) \in Slots
  BY <1>1, SlotType DEF Filling, Emptying, Threads, RingTypeOK
<1>7. \A u \in Filling \cup Emptying : u # t => Slot(pos[u]) # Slot(pos[t])
  BY <1>3, RingInvExclusive DEF SlotsExclusive
<1>8. RingTypeOK'
  BY <1>1, <1>2, <1>4 DEF RingTypeOK
<1>9. Labels' /\ Bounds'
  BY <1>0, <1>1, <1>2 DEF Labels, EnqLabels, Threads, Bounds
<1>10. Ready'
  <2> SUFFICES ASSUME NEW p \in Nat, tail_ <= p, p < head_, ~HoldsFill(p)'
               PROVE  sequence[Slot(p)] = p + 1 /\ data'[Slot(p)] = claims[p + 1]
    BY <1>2 DEF Ready
  <2>1. ~HoldsFill(p) /\ p # pos[t]
    BY <1>2, <1>3, <1>5 DEF HoldsFill
  <2>2. p < pos[t] + Size /\ pos[t] < p + Size
    BY <1>1, <1>3 DEF Bounds, Fillers
  <2>3. Slot(p) # Slot(pos[t])
    BY <1>3, <2>1, <2>2, SameSlot
  <2> QED BY <1>1, <1>4, <2>1, <2>3, SlotType DEF Ready
<1>11. Free'
  BY <1>1, <1>2, <1>5 DEF Free, HoldsEmpty
<1>12. Fillers'
  <2>1. data'[Slot(pos[t])] = claims[pos[t] + 1]
    BY <1>1, <1>3, <1>4 DEF Fillers
  <2>2. \A u \in Filling : u # t => data'[Slot(pos[u])] = data[Slot(pos[u])] /\ pc'[u] = pc[u]
    BY <1>2, <1>4, <1>6, <1>7
  <2> QED BY ZenonT(60), <1>1, <1>2, <1>5, <2>1, <2>2 DEF Fillers
<1>13. Emptiers'
  <2>1. t \notin Emptying
    BY <1>0 DEF Emptying
  <2>2. \A u \in Emptying : data'[Slot(pos[u])] = data[Slot(pos[u])]
    BY <1>4, <1>6, <1>7, <2>1
  <2> QED BY <1>1, <1>2, <1>5, <2>2 DEF Emptiers
<1>14. Claimers' /\ Results' /\ Carried'
  BY <1>0, <1>1, <1>2 DEF Claimers, Results, Carried, EnqLabels, Threads
<1> QED BY <1>8, <1>9, <1>10, <1>11, <1>12, <1>13, <1>14 DEF RingInv

\* Publishing a filled slot keeps the invariant.
LEMMA EnqPublishKeeps == ASSUME RingInv, NEW t \in Producers, EnqPublish(t) PROVE RingInv'
<1>0. t \in Threads /\ t \notin Consumers
  BY RingAssumption DEF Threads
<1>1. /\ RingTypeOK /\ Labels /\ Bounds /\ Ready /\ Free /\ Fillers /\ Emptiers /\ Claimers /\ Results /\ Carried
      /\ head_ \in Nat /\ tail_ \in Nat /\ Size \in Nat /\ Size >= 2
  BY RingAssumption DEF RingInv, RingTypeOK
<1>2. /\ pc[t] = "enqPublish" /\ pc'[t] = "enqTrue"
      /\ \A u \in Threads \ {t} : pc'[u] = pc[u]
      /\ pc' \in [Threads -> {"idle"} \cup EnqLabels \cup DeqLabels]
      /\ head_' = head_ /\ tail_' = tail_ /\ data' = data /\ pos' = pos /\ item' = item
      /\ claims' = claims
  BY <1>0, <1>1 DEF EnqPublish, Goto, RingTypeOK, EnqLabels
<1>3. /\ t \in Filling /\ pos[t] \in Nat /\ Slot(pos[t]) \in Slots
      /\ tail_ <= pos[t] /\ pos[t] < head_ /\ sequence[Slot(pos[t])] = pos[t]
  BY <1>0, <1>1, <1>2, SlotType DEF Filling, RingTypeOK, Fillers
<1>4. /\ sequence' \in [Slots -> Nat]
      /\ sequence'[Slot(pos[t])] = pos[t] + 1
      /\ \A i \in Slots : i # Slot(pos[t]) => sequence'[i] = sequence[i]
  BY <1>1, <1>3 DEF EnqPublish, RingTypeOK
<1>5. Filling' = Filling \ {t} /\ Emptying' = Emptying
  BY <1>0, <1>2 DEF Filling, Emptying, Threads
<1>6. \A u \in Filling \cup Emptying : u \in Threads /\ pos[u] \in Nat /\ Slot(pos[u]) \in Slots
  BY <1>1, SlotType DEF Filling, Emptying, Threads, RingTypeOK
<1>7. \A u \in Filling \cup Emptying : u # t => sequence'[Slot(pos[u])] = sequence[Slot(pos[u])]
  BY <1>3, <1>4, <1>6, RingInvExclusive DEF SlotsExclusive
<1>8. ASSUME NEW p \in Nat, tail_ <= p, p < tail_ + Size, p # pos[t]
      PROVE  Slot(p) # Slot(pos[t]) /\ sequence'[Slot(p)] = sequence[Slot(p)]
  <2>1. p < pos[t] + Size /\ pos[t] < p + Size
    BY <1>1, <1>3, <1>8 DEF Bounds
  <2> QED BY <1>3, <1>4, <1>8, <2>1, SameSlot, SlotType
<1>9. RingTypeOK'
  BY <1>1, <1>2, <1>4 DEF RingTypeOK
<1>10. Labels' /\ Bounds'
  BY <1>0, <1>1, <1>2 DEF Labels, EnqLabels, Threads, Bounds
<1>11. Ready'
  <2> SUFFICES ASSUME NEW p \in Nat, tail_ <= p, p < head_, ~HoldsFill(p)'
               PROVE  sequence'[Slot(p)] = p + 1 /\ data[Slot(p)] = claims[p + 1]
    BY <1>2 DEF Ready
  <2>1. CASE p = pos[t]
    BY <1>1, <1>2, <1>3, <1>4, <2>1 DEF Fillers
  <2>2. CASE p # pos[t]
    <3>1. ~HoldsFill(p)
      BY <1>2, <1>5, <2>2 DEF HoldsFill
    <3>2. p < tail_ + Size
      BY <1>1 DEF Bounds
    <3> QED BY <1>1, <1>8, <2>2, <3>1, <3>2 DEF Ready
  <2> QED BY <2>1, <2>2
<1>12. Free'
  <2> SUFFICES ASSUME NEW p \in Nat, head_ <= p, p < tail_ + Size, ~HoldsEmpty(p - Size)'
               PROVE  sequence'[Slot(p)] = p
    BY <1>2 DEF Free
  <2>1. ~HoldsEmpty(p - Size) /\ p # pos[t] /\ tail_ <= p
    BY <1>1, <1>2, <1>3, <1>5 DEF HoldsEmpty, Bounds
  <2> QED BY <1>1, <1>8, <2>1 DEF Free
<1>13. Fillers'
  BY ZenonT(60), <1>1, <1>2, <1>5, <1>6, <1>7 DEF Fillers
<1>14. Emptiers'
  <2>1. t \notin Emptying
    BY <1>0 DEF Emptying
  <2> QED BY <1>1, <1>2, <1>5, <1>7, <2>1 DEF Emptiers
<1>15. Claimers'
  <2>1. ASSUME NEW u \in Producers, pc'[u] = "enqClaim", pos[u] = head_
        PROVE  sequence'[Slot(pos[u])] = pos[u]
    <3>1. pc[u] = "enqClaim" /\ sequence[Slot(head_)] = head_
      BY <1>1, <1>2, <2>1 DEF Claimers, Threads
    <3>2. Slot(head_) # Slot(pos[t])
      BY <1>1, <1>3, <3>1
    <3> QED BY <1>1, <1>4, <2>1, <3>1, <3>2, SlotType
  <2>2. ASSUME NEW u \in Consumers, pc'[u] = "deqClaim", pos[u] = tail_
        PROVE  sequence'[Slot(pos[u])] = pos[u] + 1
    <3>1. sequence[Slot(tail_)] = tail_ + 1
      BY <1>0, <1>1, <1>2, <2>2 DEF Claimers, Threads
    <3>2. tail_ # pos[t]
      BY <1>1, <1>3, <3>1
    <3>3. tail_ < tail_ + Size
      BY <1>1
    <3> QED BY <1>1, <1>8, <2>2, <3>1, <3>2, <3>3
  <2> QED BY <1>0, <1>1, <1>2, <2>1, <2>2 DEF Claimers, Threads
<1>16. Results' /\ Carried'
  BY <1>0, <1>1, <1>2 DEF Results, Carried, EnqLabels, Threads
<1> QED BY <1>9, <1>10, <1>11, <1>12, <1>13, <1>14, <1>15, <1>16 DEF RingInv

\* A claim of tail_ that succeeds finds a position that was claimed and published.
LEMMA DeqClaimReady ==
  ASSUME RingInv, NEW t \in Consumers, DeqClaim(t)
  PROVE  tail_ < head_ /\ ~HoldsFill(tail_)
<1>1. /\ head_ \in Nat /\ tail_ \in Nat /\ Size \in Nat /\ Size >= 2
      /\ tail_ <= head_ /\ sequence[Slot(tail_)] = tail_ + 1
  BY RingAssumption DEF RingInv, RingTypeOK, Bounds, Claimers, DeqClaim
<1>2. tail_ # head_
  <2> SUFFICES ASSUME tail_ = head_ PROVE FALSE
    OBVIOUS
  <2>1. CASE HoldsEmpty(tail_ - Size)
    <3>1. PICK u \in Emptying : pos[u] = tail_ - Size
      BY <2>1 DEF HoldsEmpty
    <3>2. pos[u] \in Nat /\ sequence[Slot(pos[u])] = pos[u] + 1
      BY DEF RingInv, RingTypeOK, Emptiers, Emptying, Threads
    <3>3. pos[u] + Size = tail_
      BY <1>1, <3>1, <3>2
    <3> QED BY <1>1, <3>2, <3>3, NextRound
  <2>2. CASE ~HoldsEmpty(tail_ - Size)
    <3>1. tail_ < tail_ + Size
      BY <1>1
    <3>2. sequence[Slot(tail_)] = tail_
      BY <1>1, <2>2, <3>1 DEF RingInv, Free
    <3> QED BY <1>1, <3>2
  <2> QED BY <2>1, <2>2
<1>3. ~HoldsFill(tail_)
  BY <1>1 DEF HoldsFill, RingInv, Fillers
<1> QED BY <1>1, <1>2, <1>3

\* dequeue()'s claim keeps the invariant.
LEMMA DeqClaimKeeps == ASSUME RingInv, NEW t \in Consumers, DeqClaim(t) PROVE RingInv'
<1>0. t \in Threads /\ t \notin Producers
  BY RingAssumption DEF Threads
<1>1. /\ RingTypeOK /\ Labels /\ Bounds /\ Ready /\ Free /\ Fillers /\ Emptiers /\ Claimers /\ Results /\ Carried
      /\ head_ \in Nat /\ tail_ \in Nat /\ Size \in Nat
  BY RingAssumption DEF RingInv, RingTypeOK
<1>2. tail_ < head_ /\ ~HoldsFill(tail_)
  BY DeqClaimReady
<1>3. /\ pos[t] = tail_ /\ tail_' = tail_ + 1 /\ pc[t] = "deqClaim" /\ pc'[t] = "deqRead"
      /\ \A u \in Threads \ {t} : pc'[u] = pc[u]
      /\ pc' \in [Threads -> {"idle"} \cup EnqLabels \cup DeqLabels]
      /\ head_' = head_ /\ sequence' = sequence /\ data' = data /\ pos' = pos /\ item' = item
      /\ claims' = claims
  BY <1>0, <1>1 DEF DeqClaim, Goto, RingTypeOK, DeqLabels
<1>4. Filling' = Filling /\ Emptying' = Emptying \cup {t} /\ t \notin Emptying
  BY <1>0, <1>3 DEF Filling, Emptying, Threads
<1>5. \A u \in Filling \cup Emptying : u \in Threads \ {t} /\ pos[u] \in Nat /\ pc'[u] = pc[u]
  BY <1>0, <1>1, <1>3, <1>4 DEF Filling, Emptying, Threads, RingTypeOK
<1>6. RingTypeOK' /\ Bounds'
  BY <1>1, <1>2, <1>3 DEF RingTypeOK, Bounds
<1>7. Labels'
  BY <1>0, <1>1, <1>3 DEF Labels, DeqLabels, Threads
<1>8. Ready'
  <2> SUFFICES ASSUME NEW p \in Nat, tail_ + 1 <= p, p < head_, ~HoldsFill(p)'
               PROVE  sequence[Slot(p)] = p + 1 /\ data[Slot(p)] = claims[p + 1]
    BY <1>3 DEF Ready
  <2>1. ~HoldsFill(p) /\ tail_ <= p
    BY <1>1, <1>3, <1>4 DEF HoldsFill
  <2> QED BY <1>1, <2>1 DEF Ready
<1>9. Free'
  <2> SUFFICES ASSUME NEW p \in Nat, head_ <= p, p < tail_ + 1 + Size, ~HoldsEmpty(p - Size)'
               PROVE  sequence[Slot(p)] = p
    BY <1>3 DEF Free
  <2>1. ~HoldsEmpty(p - Size) /\ p - Size # tail_
    BY <1>3, <1>4 DEF HoldsEmpty
  <2>2. p < tail_ + Size
    BY <1>1, <2>1
  <2> QED BY <1>1, <2>1, <2>2 DEF Free
<1>10. Fillers'
  <2>1. ASSUME NEW u \in Filling PROVE tail_ + 1 <= pos[u]
    <3>1. tail_ <= pos[u]
      BY <1>1 DEF Fillers
    <3>2. pos[u] # tail_
      BY <1>2 DEF HoldsFill
    <3> QED BY <1>1, <1>5, <3>1, <3>2
  <2>2. ASSUME NEW u \in Filling
        PROVE  /\ pos[u] < head_ /\ sequence[Slot(pos[u])] = pos[u] /\ item[u] = claims[pos[u] + 1]
               /\ pc'[u] = "enqPublish" => data[Slot(pos[u])] = claims[pos[u] + 1]
    BY <1>1, <1>5 DEF Fillers
  <2>3. \A u, w \in Filling : u # w => pos[u] # pos[w]
    BY <1>1 DEF Fillers
  <2> QED BY <1>3, <1>4, <2>1, <2>2, <2>3 DEF Fillers
<1>11. Emptiers'
  <2>1. /\ head_ <= pos[t] + Size /\ pos[t] < tail_ + 1
        /\ sequence[Slot(pos[t])] = pos[t] + 1
        /\ data[Slot(pos[t])] = claims[pos[t] + 1]
    BY <1>1, <1>2, <1>3 DEF Bounds, Ready
  <2>2. \A u \in Emptying : pos[u] < tail_ /\ pos[u] < tail_ + 1 /\ pos[u] # pos[t]
    BY <1>1, <1>3, <1>5 DEF Emptiers
  <2> QED BY <1>1, <1>3, <1>4, <2>1, <2>2 DEF Emptiers
<1>12. Claimers'
  <2>1. \A u \in Consumers : pc'[u] \in {"deqCheck", "deqClaim"} => pc'[u] = pc[u] /\ pos[u] \in Nat
    BY <1>1, <1>3 DEF RingTypeOK, Threads
  <2>2. \A u \in Producers : pc'[u] = pc[u]
    BY <1>0, <1>3 DEF Threads
  <2> QED BY <1>1, <1>3, <2>1, <2>2 DEF Claimers
<1>13. Results' /\ Carried'
  BY <1>0, <1>1, <1>3 DEF Results, Carried, Threads
<1> QED BY <1>6, <1>7, <1>8, <1>9, <1>10, <1>11, <1>12, <1>13 DEF RingInv

\* Copying the item out of the slot changes only the reader's result.
LEMMA DeqReadKeeps == ASSUME RingInv, NEW t \in Consumers, DeqRead(t) PROVE RingInv'
<1>0. t \in Threads /\ t \notin Producers
  BY RingAssumption DEF Threads
<1>1. /\ RingTypeOK /\ Labels /\ Bounds /\ Ready /\ Free /\ Fillers /\ Emptiers /\ Claimers /\ Results /\ Carried
      /\ head_ \in Nat /\ tail_ \in Nat
  BY DEF RingInv, RingTypeOK
<1>2. /\ pc[t] = "deqRead" /\ pc'[t] = "deqRelease"
      /\ \A u \in Threads \ {t} : pc'[u] = pc[u]
      /\ pc' \in [Threads -> {"idle"} \cup EnqLabels \cup DeqLabels]
      /\ head_' = head_ /\ tail_' = tail_ /\ sequence' = sequence /\ data' = data /\ pos' = pos
      /\ claims' = claims
  BY <1>0, <1>1 DEF DeqRead, Goto, RingTypeOK, DeqLabels
<1>3. t \in Emptying /\ pos[t] \in Nat /\ Slot(pos[t]) \in Slots
  BY <1>0, <1>1, <1>2, SlotType DEF Emptying, RingTypeOK
<1>4. /\ item' \in [Threads -> Items \cup {NoItem}] /\ item'[t] = data[Slot(pos[t])]
      /\ \A u \in Threads \ {t} : item'[u] = item[u]
  BY <1>0, <1>1, <1>3 DEF DeqRead, RingTypeOK
<1>5. Filling' = Filling /\ Emptying' = Emptying
  BY <1>0, <1>2 DEF Filling, Emptying, Threads
<1>6. \A u \in Filling : u \in Threads \ {t}
  BY <1>0 DEF Filling, Threads
<1>7. RingTypeOK' /\ Bounds'
  BY <1>1, <1>2, <1>4 DEF RingTypeOK, Bounds
<1>8. Labels'
  BY <1>0, <1>1, <1>2 DEF Labels, DeqLabels, Threads
<1>9. Ready' /\ Free'
  BY <1>1, <1>2, <1>5 DEF Ready, Free, HoldsFill, HoldsEmpty
<1>10. Fillers'
  BY ZenonT(60), <1>1, <1>2, <1>4, <1>5, <1>6 DEF Fillers
<1>11. Emptiers' /\ Claimers'
  BY <1>0, <1>1, <1>2, <1>5 DEF Emptiers, Claimers, Threads
<1>12. Results'
  <2>1. pos[t] < head_ /\ item'[t] = claims[pos[t] + 1]
    <3>1. pos[t] < tail_ /\ data[Slot(pos[t])] = claims[pos[t] + 1]
      BY <1>1, <1>3 DEF Emptiers
    <3>2. tail_ <= head_
      BY <1>1 DEF Bounds
    <3>3. pos[t] < head_
      BY <1>1, <1>3, <3>1, <3>2
    <3> QED BY <1>4, <3>1, <3>3
  <2> QED BY <1>0, <1>1, <1>2, <1>4, <2>1 DEF Results, Threads
<1>13. Carried'
  BY <1>0, <1>1, <1>2, <1>4 DEF Carried, Threads
<1> QED BY <1>7, <1>8, <1>9, <1>10, <1>11, <1>12, <1>13 DEF RingInv

\* Passing an emptied slot on to the next round keeps the invariant.
LEMMA DeqReleaseKeeps == ASSUME RingInv, NEW t \in Consumers, DeqRelease(t) PROVE RingInv'
<1>0. t \in Threads /\ t \notin Producers
  BY RingAssumption DEF Threads
<1>1. /\ RingTypeOK /\ Labels /\ Bounds /\ Ready /\ Free /\ Fillers /\ Emptiers /\ Claimers /\ Results /\ Carried
      /\ head_ \in Nat /\ tail_ \in Nat /\ Size \in Nat /\ Size >= 2
  BY RingAssumption DEF RingInv, RingTypeOK
<1>2. /\ pc[t] = "deqRelease" /\ pc'[t] = "deqTrue"
      /\ \A u \in Threads \ {t} : pc'[u] = pc[u]
      /\ pc' \in [Threads -> {"idle"} \cup EnqLabels \cup DeqLabels]
      /\ head_' = head_ /\ tail_' = tail_ /\ data' = data /\ pos' = pos /\ item' = item
      /\ claims' = claims
  BY <1>0, <1>1 DEF DeqRelease, Goto, RingTypeOK, DeqLabels
<1>3. /\ t \in Emptying /\ pos[t] \in Nat /\ Slot(pos[t]) \in Slots
      /\ head_ <= pos[t] + Size /\ pos[t] < tail_ /\ sequence[Slot(pos[t])] = pos[t] + 1
  BY <1>0, <1>1, <1>2, SlotType DEF Emptying, RingTypeOK, Emptiers
<1>3a. pos[t] + Size \in Nat /\ Slot(pos[t] + Size) = Slot(pos[t])
  BY <1>1, <1>3, NextRound
<1>4. /\ sequence' \in [Slots -> Nat]
      /\ sequence'[Slot(pos[t])] = pos[t] + Size
      /\ \A i \in Slots : i # Slot(pos[t]) => sequence'[i] = sequence[i]
  BY <1>1, <1>3, <1>3a DEF DeqRelease, RingTypeOK
<1>5. Filling' = Filling /\ Emptying' = Emptying \ {t}
  BY <1>0, <1>2 DEF Filling, Emptying, Threads
<1>6. \A u \in Filling \cup Emptying : u \in Threads /\ pos[u] \in Nat /\ Slot(pos[u]) \in Slots
  BY <1>1, SlotType DEF Filling, Emptying, Threads, RingTypeOK
<1>7. \A u \in Filling \cup Emptying : u # t => sequence'[Slot(pos[u])] = sequence[Slot(pos[u])]
  BY <1>3, <1>4, <1>6, RingInvExclusive DEF SlotsExclusive
<1>8. ASSUME NEW p \in Nat, tail_ <= p, p < tail_ + Size, p # pos[t] + Size
      PROVE  sequence'[Slot(p)] = sequence[Slot(p)]
  <2>1. p < (pos[t] + Size) + Size /\ pos[t] + Size < p + Size
    BY <1>1, <1>3, <1>8 DEF Bounds
  <2>2. Slot(p) # Slot(pos[t])
    BY <1>3a, <1>8, <2>1, SameSlot
  <2> QED BY <1>4, <2>2, SlotType
<1>9. RingTypeOK'
  BY <1>1, <1>2, <1>4 DEF RingTypeOK
<1>10. Labels' /\ Bounds'
  BY <1>0, <1>1, <1>2 DEF Labels, DeqLabels, Threads, Bounds
<1>11. Ready'
  <2> SUFFICES ASSUME NEW p \in Nat, tail_ <= p, p < head_, ~HoldsFill(p)'
               PROVE  sequence'[Slot(p)] = p + 1 /\ data[Slot(p)] = claims[p + 1]
    BY <1>2 DEF Ready
  <2>1. ~HoldsFill(p) /\ p < tail_ + Size /\ p # pos[t] + Size
    BY <1>1, <1>2, <1>3, <1>5 DEF HoldsFill, Bounds
  <2> QED BY <1>1, <1>8, <2>1 DEF Ready
<1>12. Free'
  <2> SUFFICES ASSUME NEW p \in Nat, head_ <= p, p < tail_ + Size, ~HoldsEmpty(p - Size)'
               PROVE  sequence'[Slot(p)] = p
    BY <1>2 DEF Free
  <2>1. CASE p = pos[t] + Size
    BY <1>3a, <1>4, <2>1
  <2>2. CASE p # pos[t] + Size
    <3>1. p - Size # pos[t] /\ tail_ <= p
      BY <1>1, <1>3, <2>2 DEF Bounds
    <3>2. ~HoldsEmpty(p - Size)
      BY <1>2, <1>5, <3>1 DEF HoldsEmpty
    <3> QED BY <1>1, <1>8, <2>2, <3>1, <3>2 DEF Free
  <2> QED BY <2>1, <2>2
<1>13. Fillers'
  <2>1. t \notin Filling
    BY <1>0 DEF Filling
  <2>2. \A u \in Filling : pc'[u] = pc[u] /\ sequence'[Slot(pos[u])] = sequence[Slot(pos[u])]
    BY <1>2, <1>6, <1>7, <2>1
  <2> QED BY ZenonT(60), <1>1, <1>2, <1>5, <2>2 DEF Fillers
<1>14. Emptiers'
  BY <1>1, <1>2, <1>5, <1>7 DEF Emptiers
<1>15. Claimers'
  <2>1. ASSUME NEW u \in Producers, pc'[u] = "enqClaim", pos[u] = head_
        PROVE  sequence'[Slot(pos[u])] = pos[u]
    <3>1. sequence[Slot(head_)] = head_
      BY <1>0, <1>1, <1>2, <2>1 DEF Claimers, Threads
    <3>2. head_ < (pos[t] + Size) + Size /\ pos[t] + Size < head_ + Size
      BY <1>1, <1>3 DEF Bounds
    <3>3. head_ # pos[t] + Size
      BY <1>1, <1>3, <1>3a, <3>1
    <3>4. Slot(head_) # Slot(pos[t])
      BY <1>1, <1>3a, <3>2, <3>3, SameSlot
    <3> QED BY <1>1, <1>4, <2>1, <3>1, <3>4, SlotType
  <2>2. ASSUME NEW u \in Consumers, pc'[u] = "deqClaim", pos[u] = tail_
        PROVE  sequence'[Slot(pos[u])] = pos[u] + 1
    <3>1. sequence[Slot(tail_)] = tail_ + 1
      BY <1>1, <1>2, <2>2 DEF Claimers, Threads
    <3>2. Slot(tail_) # Slot(pos[t])
      BY <1>1, <1>3, <3>1
    <3> QED BY <1>1, <1>4, <2>2, <3>1, <3>2, SlotType
  <2> QED BY <1>0, <1>1, <1>2, <2>1, <2>2 DEF Claimers, Threads
<1>16. Results' /\ Carried'
  BY <1>0, <1>1, <1>2 DEF Results, Carried, Threads
<1> QED BY <1>9, <1>10, <1>11, <1>12, <1>13, <1>14, <1>15, <1>16 DEF RingInv

\* Every step of the ring, by any thread, keeps the invariant.
LEMMA RingInvNext == RingInv /\ [RingNext]_ringVars => RingInv'
<1> SUFFICES ASSUME RingInv, [RingNext]_ringVars PROVE RingInv'
  OBVIOUS
<1>1. ASSUME NEW t \in Producers, (\E v \in Items : EnqCall(t, v)) \/ EnqStep(t) PROVE RingInv'
  BY <1>1, EnqPrivate, EnqClaimKeeps, EnqWriteKeeps, EnqPublishKeeps DEF EnqStep
<1>2. ASSUME NEW t \in Consumers, DeqCall(t) \/ DeqStep(t) \/ DeqContended(t) PROVE RingInv'
  <2>1. t \in Threads
    BY DEF Threads
  <2> QED BY <1>2, <2>1, DeqPrivate, DeqClaimKeeps, DeqReadKeeps, DeqReleaseKeeps DEF DeqStep, DeqContended
<1>3. ASSUME NEW t \in Threads, Return(t) PROVE RingInv'
  BY <1>3, DeqPrivate
<1>4. CASE UNCHANGED ringVars
  <2>1. /\ head_' = head_ /\ tail_' = tail_ /\ sequence' = sequence /\ data' = data
        /\ pc' = pc /\ pos' = pos /\ item' = item /\ claims' = claims
    BY <1>4 DEF ringVars
  <2>2. Filling' = Filling /\ Emptying' = Emptying
    BY <2>1 DEF Filling, Emptying
  <2>3. RingTypeOK' /\ Labels' /\ Bounds'
    BY <2>1 DEF RingInv, RingTypeOK, Labels, Bounds
  <2>4. Ready' /\ Free'
    BY <2>1, <2>2 DEF RingInv, Ready, Free, HoldsFill, HoldsEmpty
  <2>5. Fillers' /\ Emptiers'
    BY <2>1, <2>2 DEF RingInv, Fillers, Emptiers
  <2>6. Claimers' /\ Results' /\ Carried'
    BY <2>1 DEF RingInv, Claimers, Results, Carried
  <2> QED BY <2>3, <2>4, <2>5, <2>6 DEF RingInv
<1> QED BY <1>1, <1>2, <1>3, <1>4 DEF RingNext

\* MPMCRingBuffer, with any numbers of producers and consumers calling as they
\* like and compare-exchanges that may fail for no reason: no two threads are at a
\* slot's data at once, and what dequeue() hands out for a position is what
\* enqueue() was given for it.
THEOREM RingExclusive == RingSpec => []SlotsExclusive
<1>1. RingInit => RingInv
  BY RingInvInit
<1>2. RingInv /\ [RingNext]_ringVars => RingInv'
  BY RingInvNext
<1>3. RingInv => SlotsExclusive
  BY RingInvExclusive
<1> QED BY <1>1, <1>2, <1>3, PTL DEF RingSpec
=============================================================================

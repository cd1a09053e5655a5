---------------------------- MODULE MPMCRingBuffer ----------------------------
(***************************************************************************)
(* src/src/ring_buffer/MPMCRingBuffer.hpp: a bounded queue in an array of  *)
(* slots, each with a sequence number that says whose turn the slot is.    *)
(* Threads claim a position by a compare-exchange on head_ or tail_, work  *)
(* on the slot outside any lock, and pass it on by storing its next        *)
(* sequence number. Every access to shared memory is a step of its own.    *)
(* An access takes effect in one global order: the build's atomics are     *)
(* relaxed only where the algorithm tolerates an older value. Positions  *)
(* are 64 bits wide in the code and are taken not to run out.              *)
(***************************************************************************)
EXTENDS Integers, Sequences

CONSTANTS
    Size,        \* slots of the ring
    Producers,   \* threads that call enqueue
    Consumers,   \* threads that call dequeue
    Items,       \* what is enqueued
    NoItem,      \* a slot or a variable that holds none
    Spurious     \* whether compare_exchange_weak may fail for no reason, as it may on some machines

\* The static_assert asks for a power of two and so accepts 1, where a published
\* slot looks like a free one; every instance in the repository has 4 slots or more.
ASSUME RingAssumption ==
    /\ Size \in Nat /\ Size >= 2
    /\ Producers \cap Consumers = {}
    /\ NoItem \notin Items
    /\ Spurious \in BOOLEAN

VARIABLES
    head_, tail_,   \* next position to enqueue at, next position to dequeue from
    sequence,       \* slots_[i].sequence
    data,           \* slots_[i].data
    pc,             \* where a thread is in enqueue() or dequeue()
    pos,            \* its local pos
    item,           \* the item it carries: enqueue's argument, dequeue's result
    claims          \* history: the items in the order of their positions

ringVars == <<head_, tail_, sequence, data, pc, pos, item, claims>>

Threads == Producers \cup Consumers
Slots == 0 .. Size - 1

EnqLabels == {"enqLoad", "enqCheck", "enqClaim", "enqWrite", "enqPublish", "enqTrue", "enqFalse"}
DeqLabels == {"deqLoad", "deqCheck", "deqClaim", "deqRead", "deqRelease", "deqTrue", "deqFalse"}

\* fast_mod(pos, Size)
Slot(p) == p % Size

RingInit ==
    /\ head_ = 0 /\ tail_ = 0
    /\ sequence = [i \in Slots |-> i]
    /\ data = [i \in Slots |-> NoItem]
    /\ pc = [t \in Threads |-> "idle"]
    /\ pos = [t \in Threads |-> 0]
    /\ item = [t \in Threads |-> NoItem]
    /\ claims = << >>

Goto(t, label) == pc' = [pc EXCEPT ![t] = label]

(***************************************************************************)
(* enqueue(). The call loads head_; the loop loads it again when another   *)
(* producer was faster.                                                    *)
(***************************************************************************)
EnqCall(t, v) ==
    /\ pc[t] = "idle"
    /\ item' = [item EXCEPT ![t] = v]
    /\ pos' = [pos EXCEPT ![t] = head_]
    /\ Goto(t, "enqCheck")
    /\ UNCHANGED <<head_, tail_, sequence, data, claims>>

EnqLoad(t) ==
    /\ pc[t] = "enqLoad"
    /\ pos' = [pos EXCEPT ![t] = head_]
    /\ Goto(t, "enqCheck")
    /\ UNCHANGED <<head_, tail_, sequence, data, item, claims>>

\* The sign of seq - pos: the slot is free for this position, still to be read
\* by a dequeue (the ring is full), or another producer was here first.
EnqCheck(t) ==
    /\ pc[t] = "enqCheck"
    /\ LET diff == sequence[Slot(pos[t])] - pos[t]
       IN  Goto(t, IF diff = 0 THEN "enqClaim" ELSE IF diff < 0 THEN "enqFalse" ELSE "enqLoad")
    /\ UNCHANGED <<head_, tail_, sequence, data, pos, item, claims>>

EnqClaim_Store(t) ==
    /\ pc[t] = "enqClaim"
    /\ head_' = pos[t] + 1
    /\ claims' = Append(claims, item[t])
    /\ Goto(t, "enqWrite")
    /\ UNCHANGED <<tail_, sequence, data, pos, item>>

EnqClaim_PublishesFirst(t) ==
    /\ pc[t] = "enqClaim"
    /\ head_ = pos[t]
    /\ head_' = pos[t] + 1
    /\ claims' = Append(claims, item[t])
    /\ sequence' = [sequence EXCEPT ![Slot(pos[t])] = pos[t] + 1]
    /\ Goto(t, "enqWrite")
    /\ UNCHANGED <<tail_, data, pos, item>>

EnqClaim(t) ==
    /\ pc[t] = "enqClaim"
    /\ head_ = pos[t]
    /\ head_' = pos[t] + 1
    /\ claims' = Append(claims, item[t])
    /\ Goto(t, "enqWrite")
    /\ UNCHANGED <<tail_, sequence, data, pos, item>>

\* A compare-exchange that fails loads head_ into pos.
EnqClaimFails(t) ==
    /\ pc[t] = "enqClaim"
    /\ head_ # pos[t] \/ Spurious
    /\ pos' = [pos EXCEPT ![t] = head_]
    /\ Goto(t, "enqCheck")
    /\ UNCHANGED <<head_, tail_, sequence, data, item, claims>>

EnqWrite(t) ==
    /\ pc[t] = "enqWrite"
    /\ data' = [data EXCEPT ![Slot(pos[t])] = item[t]]
    /\ Goto(t, "enqPublish")
    /\ UNCHANGED <<head_, tail_, sequence, pos, item, claims>>

EnqPublish(t) ==
    /\ pc[t] = "enqPublish"
    /\ sequence' = [sequence EXCEPT ![Slot(pos[t])] = pos[t] + 1]
    /\ Goto(t, "enqTrue")
    /\ UNCHANGED <<head_, tail_, data, pos, item, claims>>

(***************************************************************************)
(* dequeue().                                                              *)
(***************************************************************************)
DeqCall(t) ==
    /\ pc[t] = "idle"
    /\ pos' = [pos EXCEPT ![t] = tail_]
    /\ Goto(t, "deqCheck")
    /\ UNCHANGED <<head_, tail_, sequence, data, item, claims>>

DeqLoad(t) ==
    /\ pc[t] = "deqLoad"
    /\ pos' = [pos EXCEPT ![t] = tail_]
    /\ Goto(t, "deqCheck")
    /\ UNCHANGED <<head_, tail_, sequence, data, item, claims>>

\* A claimed slot that is not published yet counts as empty, whatever lies behind it.
DeqCheck(t) ==
    /\ pc[t] = "deqCheck"
    /\ LET diff == sequence[Slot(pos[t])] - (pos[t] + 1)
       IN  Goto(t, IF diff = 0 THEN "deqClaim" ELSE IF diff < 0 THEN "deqFalse" ELSE "deqLoad")
    /\ UNCHANGED <<head_, tail_, sequence, data, pos, item, claims>>

DeqClaim(t) ==
    /\ pc[t] = "deqClaim"
    /\ tail_ = pos[t]
    /\ tail_' = pos[t] + 1
    /\ Goto(t, "deqRead")
    /\ UNCHANGED <<head_, sequence, data, pos, item, claims>>

DeqClaimFails(t) ==
    /\ pc[t] = "deqClaim"
    /\ tail_ # pos[t] \/ Spurious
    /\ pos' = [pos EXCEPT ![t] = tail_]
    /\ Goto(t, "deqCheck")
    /\ UNCHANGED <<head_, tail_, sequence, data, item, claims>>

DeqRead(t) ==
    /\ pc[t] = "deqRead"
    /\ item' = [item EXCEPT ![t] = data[Slot(pos[t])]]
    /\ Goto(t, "deqRelease")
    /\ UNCHANGED <<head_, tail_, sequence, data, pos, claims>>

DeqRelease(t) ==
    /\ pc[t] = "deqRelease"
    /\ sequence' = [sequence EXCEPT ![Slot(pos[t])] = pos[t] + Size]
    /\ Goto(t, "deqTrue")
    /\ UNCHANGED <<head_, tail_, data, pos, item, claims>>

\* The caller takes the result, true or false; the locals are gone.
Return(t) ==
    /\ pc[t] \in {"enqTrue", "enqFalse", "deqTrue", "deqFalse"}
    /\ pos' = [pos EXCEPT ![t] = 0]
    /\ item' = [item EXCEPT ![t] = NoItem]
    /\ Goto(t, "idle")
    /\ UNCHANGED <<head_, tail_, sequence, data, claims>>

\* What a thread inside the ring does by itself.
EnqStep(t) ==
    \/ EnqLoad(t) \/ EnqCheck(t) \/ EnqClaim(t) \/ EnqClaimFails(t) \/ EnqWrite(t) \/ EnqPublish(t)

DeqStep(t) ==
    \/ DeqCheck(t) \/ DeqClaim(t) \/ DeqRead(t) \/ DeqRelease(t)

\* What it meets only when there are other consumers.
DeqContended(t) == DeqLoad(t) \/ DeqClaimFails(t)

\* Any number of callers, calling as they like.
RingNext ==
    \/ \E t \in Producers : (\E v \in Items : EnqCall(t, v)) \/ EnqStep(t)
    \/ \E t \in Consumers : DeqCall(t) \/ DeqStep(t) \/ DeqContended(t)
    \/ \E t \in Threads : Return(t)

RingSpec == RingInit /\ [][RingNext]_ringVars

-----------------------------------------------------------------------------
RingTypeOK ==
    /\ head_ \in Nat /\ tail_ \in Nat
    /\ sequence \in [Slots -> Nat]
    /\ data \in [Slots -> Items \cup {NoItem}]
    /\ pc \in [Threads -> {"idle"} \cup EnqLabels \cup DeqLabels]
    /\ pos \in [Threads -> Nat]
    /\ item \in [Threads -> Items \cup {NoItem}]
    /\ claims \in Seq(Items)

\* The threads between claiming a position and passing its slot on.
Filling == {t \in Producers : pc[t] \in {"enqWrite", "enqPublish"}}
Emptying == {t \in Consumers : pc[t] \in {"deqRead", "deqRelease"}}

(***************************************************************************)
(* The plain field Slot::data is touched without a lock, so no two threads *)
(* may be at one slot at once; and what dequeue() hands out for a position *)
(* is what enqueue() was given for it, however the claims, the copies and  *)
(* the sequence numbers of other threads interleave.                       *)
(***************************************************************************)
SlotsExclusive ==
    /\ \A t, u \in Filling \cup Emptying : t # u => Slot(pos[t]) # Slot(pos[u])
    /\ \A t \in Consumers : pc[t] \in {"deqRelease", "deqTrue"} => item[t] = claims[pos[t] + 1]
=============================================================================

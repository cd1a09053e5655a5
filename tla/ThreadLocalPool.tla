---------------------------- MODULE ThreadLocalPool ----------------------------
(***************************************************************************)
(* src/include/caduvelox/util/ThreadLocalPool.hpp, and PoolManager.hpp,    *)
(* which keeps one pool per type and thread. A pool is a record of the     *)
(* class's members, and of three that the code does not have: which        *)
(* allocation lives in a slot (tenant), how many there were (allocs), and  *)
(* the free slots in the order of the list (order). A slot is a number     *)
(* from 1 on and stands for the pointer to its object; 0 is nullptr.       *)
(***************************************************************************)
EXTENDS Integers, Sequences

NullSlot == 0

\* next shares its storage with the object: while the slot is live its value means nothing.
Storage == -1

\* The constructor links all slots in order.
NewPool(capacity) ==
    [free_head_   |-> IF capacity = 0 THEN NullSlot ELSE 1,
     next         |-> [s \in 1 .. capacity |-> IF s = capacity THEN NullSlot ELSE s + 1],
     live_        |-> [s \in 1 .. capacity |-> FALSE],
     generations_ |-> [s \in 1 .. capacity |-> 0],
     tenant       |-> [s \in 1 .. capacity |-> 0],
     allocs       |-> 0,
     order        |-> [s \in 1 .. capacity |-> s]]

Exhausted(P) == P.free_head_ = NullSlot

\* allocate() hands out the first free slot and pops it.
allocated(P) == P.free_head_

allocate(P) ==
    LET s == P.free_head_
    IN  [free_head_   |-> P.next[s],
         next         |-> [P.next EXCEPT ![s] = Storage],
         live_        |-> [P.live_ EXCEPT ![s] = TRUE],
         generations_ |-> P.generations_,
         tenant       |-> [P.tenant EXCEPT ![s] = P.allocs + 1],
         allocs       |-> P.allocs + 1,
         order        |-> Tail(P.order)]

\* Written in the other order, slot->next would point at the slot itself.
deallocate_HeadFirst(P, s) ==
    [free_head_   |-> s,
     next         |-> [P.next EXCEPT ![s] = s],
     live_        |-> [P.live_ EXCEPT ![s] = FALSE],
     generations_ |-> [P.generations_ EXCEPT ![s] = @ + 1],
     tenant       |-> P.tenant,
     allocs       |-> P.allocs,
     order        |-> <<s>> \o P.order]

deallocate_SameGeneration(P, s) ==
    [free_head_   |-> s,
     next         |-> [P.next EXCEPT ![s] = P.free_head_],
     live_        |-> [P.live_ EXCEPT ![s] = FALSE],
     generations_ |-> P.generations_,
     tenant       |-> P.tenant,
     allocs       |-> P.allocs,
     order        |-> <<s>> \o P.order]

deallocate(P, s) ==
    [free_head_   |-> s,
     next         |-> [P.next EXCEPT ![s] = P.free_head_],
     live_        |-> [P.live_ EXCEPT ![s] = FALSE],
     generations_ |-> [P.generations_ EXCEPT ![s] = @ + 1],
     tenant       |-> P.tenant,
     allocs       |-> P.allocs,
     order        |-> <<s>> \o P.order]

generationOf(P, s) == P.generations_[s]

isLive(P, s, generation) == P.live_[s] /\ P.generations_[s] = generation

\* What sweepLive() calls back for.
Live(P) == {s \in DOMAIN P.live_ : P.live_[s]}

-----------------------------------------------------------------------------
PoolType(P, capacity) ==
    P \in [free_head_   : 0 .. capacity,
           next         : [1 .. capacity -> -1 .. capacity],
           live_        : [1 .. capacity -> BOOLEAN],
           generations_ : [1 .. capacity -> Nat],
           tenant       : [1 .. capacity -> Nat],
           allocs       : Nat,
           order        : Seq(1 .. capacity)]

(***************************************************************************)
(* Following next from free_head_ meets every slot that is not live, each  *)
(* once, and ends: no slot is lost, none is handed out twice.              *)
(***************************************************************************)
ListExact(P) ==
    /\ P.free_head_ = IF P.order = << >> THEN NullSlot ELSE P.order[1]
    /\ \A i \in 1 .. Len(P.order) :
          P.next[P.order[i]] = IF i = Len(P.order) THEN NullSlot ELSE P.order[i + 1]
    /\ \A i, j \in 1 .. Len(P.order) : P.order[i] = P.order[j] => i = j
    /\ \A s \in DOMAIN P.live_ : ~P.live_[s] <=> \E i \in 1 .. Len(P.order) : P.order[i] = s
=============================================================================

--------------------------- MODULE RecvBuffersProofs ---------------------------
(***************************************************************************)
(* Receiving for any number of connections, recv jobs and buffers: the     *)
(* free lists are exact, a handle names the connection it was made for, a  *)
(* job outlives its completions, and no buffer is lost or given out twice. *)
(***************************************************************************)
EXTENDS RecvBuffers, FiniteSetTheorems, TLAPS

-----------------------------------------------------------------------------
(***************************************************************************)
(* ThreadLocalPool's free list.                                            *)
(***************************************************************************)
\* A pool of n slots.
PoolOK(P, n) == PoolType(P, n) /\ ListExact(P)

\* ListExact of the members by themselves: the head h, next, live_ and the order o.
List(n, h, next, live, o) ==
    /\ next \in [1 .. n -> -1 .. n] /\ live \in [1 .. n -> BOOLEAN] /\ o \in Seq(1 .. n)
    /\ h = IF Len(o) = 0 THEN 0 ELSE o[1]
    /\ \A i \in 1 .. Len(o) : next[o[i]] = IF i = Len(o) THEN 0 ELSE o[i + 1]
    /\ \A i, j \in 1 .. Len(o) : o[i] = o[j] => i = j
    /\ \A s \in 1 .. n : ~live[s] <=> \E i \in 1 .. Len(o) : o[i] = s

\* Writing one element of an array.
LEMMA Write ==
  ASSUME NEW S, NEW T, NEW f \in [S -> T], NEW x \in S, NEW v \in T
  PROVE  /\ [f EXCEPT ![x] = v] \in [S -> T] /\ [f EXCEPT ![x] = v][x] = v
         /\ \A y \in S : y # x => [f EXCEPT ![x] = v][y] = f[y]
OBVIOUS

\* A pool is a record of its members.
LEMMA PoolRecord ==
  ASSUME NEW n \in Nat, NEW fh \in 0 .. n, NEW nx \in [1 .. n -> -1 .. n],
         NEW lv \in [1 .. n -> BOOLEAN], NEW gs \in [1 .. n -> Nat], NEW tn \in [1 .. n -> Nat],
         NEW a \in Nat, NEW o \in Seq(1 .. n)
  PROVE  PoolType([free_head_ |-> fh, next |-> nx, live_ |-> lv, generations_ |-> gs, tenant |-> tn,
                   allocs |-> a, order |-> o], n)
BY DEF PoolType

\* ListExact speaks of the members.
LEMMA PoolMembers ==
  ASSUME NEW n \in Nat, NEW P
  PROVE  PoolOK(P, n) <=> PoolType(P, n) /\ List(n, P.free_head_, P.next, P.live_, P.order)
<1> SUFFICES ASSUME PoolType(P, n)
             PROVE  ListExact(P) <=> List(n, P.free_head_, P.next, P.live_, P.order)
  BY DEF PoolOK
<1>1. P.next \in [1 .. n -> -1 .. n] /\ P.live_ \in [1 .. n -> BOOLEAN] /\ P.order \in Seq(1 .. n)
  BY DEF PoolType
<1>2. (P.order = << >> <=> Len(P.order) = 0) /\ DOMAIN P.live_ = 1 .. n
  BY <1>1
<1> QED BY Zenon, <1>1, <1>2 DEF ListExact, List, NullSlot

\* allocate() pops the list: the first slot leaves it, and no other moves.
LEMMA Pop ==
  ASSUME NEW n \in Nat, NEW h, NEW next, NEW live, NEW o, List(n, h, next, live, o), h # 0
  PROVE  /\ h \in 1 .. n /\ ~live[h] /\ next[h] \in 0 .. n /\ Tail(o) \in Seq(1 .. n)
         /\ List(n, next[h], [next EXCEPT ![h] = -1], [live EXCEPT ![h] = TRUE], Tail(o))
<1>1. /\ next \in [1 .. n -> -1 .. n] /\ live \in [1 .. n -> BOOLEAN] /\ o \in Seq(1 .. n)
      /\ h = IF Len(o) = 0 THEN 0 ELSE o[1]
      /\ \A i \in 1 .. Len(o) : next[o[i]] = IF i = Len(o) THEN 0 ELSE o[i + 1]
      /\ \A i, j \in 1 .. Len(o) : o[i] = o[j] => i = j
      /\ \A s \in 1 .. n : ~live[s] <=> \E i \in 1 .. Len(o) : o[i] = s
  BY DEF List
<1>2. Len(o) \in Nat /\ Len(o) # 0 /\ h = o[1] /\ 1 \in 1 .. Len(o)
  BY <1>1
<1>3. \A i \in 1 .. Len(o) : o[i] \in 1 .. n
  <2>1. o \in Seq(1 .. n)
    BY <1>1
  <2> QED BY <2>1
<1>4. h \in 1 .. n /\ ~live[h]
  BY <1>1, <1>2, <1>3
<1>5. next[h] \in 0 .. n
  <2>1. next[h] = IF 1 = Len(o) THEN 0 ELSE o[1 + 1]
    BY <1>1, <1>2
  <2>2. CASE Len(o) # 1
    <3>1. 1 + 1 \in 1 .. Len(o)
      BY <2>2, <1>2
    <3>2. o[1 + 1] \in 1 .. n
      BY <3>1, <1>3
    <3> QED BY <2>1, <2>2, <3>2
  <2> QED BY <2>1, <2>2
<1> DEFINE u == Tail(o)  nx == [next EXCEPT ![h] = -1]  lv == [live EXCEPT ![h] = TRUE]
<1>6. u \in Seq(1 .. n) /\ Len(u) = Len(o) - 1 /\ \A i \in 1 .. Len(u) : u[i] = o[i + 1]
  BY <1>1, <1>2
<1>7. nx \in [1 .. n -> -1 .. n] /\ \A s \in 1 .. n : s # h => nx[s] = next[s]
  <2>1. -1 \in -1 .. n
    OBVIOUS
  <2> QED BY Zenon, <2>1, <1>1, <1>4, Write
<1>8. lv \in [1 .. n -> BOOLEAN] /\ lv[h] /\ \A s \in 1 .. n : s # h => lv[s] = live[s]
  BY Zenon, <1>1, <1>4, Write
<1> HIDE DEF u, nx, lv
<1>9. ASSUME NEW i \in 1 .. Len(u) PROVE i + 1 \in 1 .. Len(o) /\ u[i] = o[i + 1] /\ u[i] # h /\ u[i] \in 1 .. n
  <2>1. i + 1 \in 1 .. Len(o) /\ i + 1 # 1 /\ u[i] = o[i + 1]
    BY <1>2, <1>6
  <2> QED BY <2>1, <1>1, <1>2, <1>3
<1>10. next[h] = IF Len(u) = 0 THEN 0 ELSE u[1]
  <2>1. next[h] = IF 1 = Len(o) THEN 0 ELSE o[1 + 1]
    BY <1>1, <1>2
  <2>2. Len(u) # 0 => u[1] = o[1 + 1]
    BY <1>2, <1>6
  <2> QED BY <2>1, <2>2, <1>2, <1>6
<1>11. ASSUME NEW i \in 1 .. Len(u) PROVE nx[u[i]] = IF i = Len(u) THEN 0 ELSE u[i + 1]
  <2>1. nx[u[i]] = next[o[i + 1]]
    BY <1>7, <1>9
  <2>2. next[o[i + 1]] = IF i + 1 = Len(o) THEN 0 ELSE o[(i + 1) + 1]
    BY <1>1, <1>9
  <2>3. i # Len(u) => i + 1 \in 1 .. Len(u)
    BY <1>2, <1>6
  <2> QED BY <2>1, <2>2, <2>3, <1>2, <1>6
<1>12. ASSUME NEW i \in 1 .. Len(u), NEW j \in 1 .. Len(u), u[i] = u[j] PROVE i = j
  <2>1. i + 1 = j + 1
    BY <1>1, <1>9, <1>12
  <2> QED BY <2>1
<1>13. ASSUME NEW s \in 1 .. n PROVE ~lv[s] <=> \E i \in 1 .. Len(u) : u[i] = s
  <2>1. CASE s = h
    BY <2>1, <1>8, <1>9
  <2>2. CASE s # h
    <3>1. ASSUME NEW i \in 1 .. Len(u), u[i] = s PROVE \E k \in 1 .. Len(o) : o[k] = s
      BY <3>1, <1>9
    <3>2. ASSUME NEW k \in 1 .. Len(o), o[k] = s PROVE \E i \in 1 .. Len(u) : u[i] = s
      <4>1. k # 1
        BY <3>2, <2>2, <1>2
      <4>2. k - 1 \in 1 .. Len(u) /\ (k - 1) + 1 = k
        BY <4>1, <1>2, <1>6
      <4>3. u[k - 1] = s
        BY <4>2, <1>6, <3>2
      <4> QED BY <4>2, <4>3
    <3> QED BY <3>1, <3>2, <2>2, <1>1, <1>8
  <2> QED BY <2>1, <2>2
<1>14. List(n, next[h], nx, lv, u)
  BY <1>6, <1>7, <1>8, <1>10, <1>11, <1>12, <1>13 DEF List
<1> QED BY <1>4, <1>5, <1>6, <1>14 DEF u, nx, lv
\* deallocate() pushes a slot that is not in the list.
LEMMA Push ==
  ASSUME NEW n \in Nat, NEW h, NEW next, NEW live, NEW o, List(n, h, next, live, o),
         NEW s \in 1 .. n, live[s]
  PROVE  /\ h \in 0 .. n /\ <<s>> \o o \in Seq(1 .. n)
         /\ List(n, s, [next EXCEPT ![s] = h], [live EXCEPT ![s] = FALSE], <<s>> \o o)
<1>1. /\ next \in [1 .. n -> -1 .. n] /\ live \in [1 .. n -> BOOLEAN] /\ o \in Seq(1 .. n)
      /\ h = IF Len(o) = 0 THEN 0 ELSE o[1]
      /\ \A i \in 1 .. Len(o) : next[o[i]] = IF i = Len(o) THEN 0 ELSE o[i + 1]
      /\ \A i, j \in 1 .. Len(o) : o[i] = o[j] => i = j
      /\ \A t \in 1 .. n : ~live[t] <=> \E i \in 1 .. Len(o) : o[i] = t
  BY DEF List
<1>2. Len(o) \in Nat /\ \A i \in 1 .. Len(o) : o[i] \in 1 .. n
  <2>1. o \in Seq(1 .. n)
    BY <1>1
  <2> QED BY <2>1
<1>3. h \in 0 .. n
  BY <1>1, <1>2
<1> DEFINE u == <<s>> \o o  nx == [next EXCEPT ![s] = h]  lv == [live EXCEPT ![s] = FALSE]
<1>4. /\ u \in Seq(1 .. n) /\ Len(u) = Len(o) + 1 /\ u[1] = s
      /\ \A i \in 1 .. Len(o) : u[i + 1] = o[i]
  BY <1>1
<1>5. nx \in [1 .. n -> -1 .. n] /\ nx[s] = h /\ \A t \in 1 .. n : t # s => nx[t] = next[t]
  <2>1. h \in -1 .. n
    BY <1>3
  <2> QED BY Zenon, <2>1, <1>1, Write
<1>6. lv \in [1 .. n -> BOOLEAN] /\ ~lv[s] /\ \A t \in 1 .. n : t # s => lv[t] = live[t]
  BY Zenon, <1>1, Write
<1> HIDE DEF u, nx, lv
<1>7. ASSUME NEW i \in 1 .. Len(u), i # 1
      PROVE  i - 1 \in 1 .. Len(o) /\ u[i] = o[i - 1] /\ u[i] # s /\ u[i] \in 1 .. n
  <2>1. i - 1 \in 1 .. Len(o) /\ (i - 1) + 1 = i
    BY <1>2, <1>4, <1>7
  <2>2. o[i - 1] # s
    BY <2>1, <1>1
  <2> QED BY <2>1, <2>2, <1>2, <1>4
<1>8. ASSUME NEW i \in 1 .. Len(u) PROVE nx[u[i]] = IF i = Len(u) THEN 0 ELSE u[i + 1]
  <2>1. i # Len(u) => i \in 1 .. Len(o) /\ u[i + 1] = o[i]
    BY <1>2, <1>4
  <2>2. CASE i = 1
    <3>1. nx[u[i]] = h
      BY <2>2, <1>4, <1>5
    <3>2. h = IF Len(o) = 0 THEN 0 ELSE o[1]
      BY <1>1
    <3>3. i = Len(u) <=> Len(o) = 0
      BY <2>2, <1>2, <1>4
    <3> QED BY <2>1, <2>2, <3>1, <3>2, <3>3
  <2>3. CASE i # 1
    <3>1. nx[u[i]] = next[o[i - 1]] /\ i - 1 \in 1 .. Len(o)
      BY <2>3, <1>5, <1>7
    <3>2. next[o[i - 1]] = IF i - 1 = Len(o) THEN 0 ELSE o[(i - 1) + 1]
      BY <3>1, <1>1
    <3> QED BY <3>1, <3>2, <2>1, <1>2, <1>4
  <2> QED BY <2>2, <2>3
<1>9. ASSUME NEW i \in 1 .. Len(u), NEW j \in 1 .. Len(u), u[i] = u[j] PROVE i = j
  <2>1. CASE i = 1 \/ j = 1
    BY <2>1, <1>4, <1>7, <1>9
  <2>2. CASE i # 1 /\ j # 1
    <3>1. i - 1 \in 1 .. Len(o) /\ j - 1 \in 1 .. Len(o) /\ o[i - 1] = o[j - 1]
      BY <2>2, <1>7, <1>9
    <3>2. i - 1 = j - 1
      BY <3>1, <1>1
    <3> QED BY <3>2
  <2> QED BY <2>1, <2>2
<1>10. ASSUME NEW t \in 1 .. n PROVE ~lv[t] <=> \E i \in 1 .. Len(u) : u[i] = t
  <2>1. CASE t = s
    <3>1. 1 \in 1 .. Len(u)
      BY <1>2, <1>4
    <3> QED BY <3>1, <2>1, <1>4, <1>6
  <2>2. CASE t # s
    <3>1. ASSUME NEW i \in 1 .. Len(u), u[i] = t PROVE \E k \in 1 .. Len(o) : o[k] = t
      BY <3>1, <2>2, <1>4, <1>7
    <3>2. ASSUME NEW k \in 1 .. Len(o), o[k] = t PROVE \E i \in 1 .. Len(u) : u[i] = t
      <4>1. k + 1 \in 1 .. Len(u)
        BY <1>2, <1>4
      <4>2. u[k + 1] = t
        BY <3>2, <1>4
      <4> QED BY <4>1, <4>2
    <3> QED BY <3>1, <3>2, <2>2, <1>1, <1>6
  <2> QED BY <2>1, <2>2
<1>11. s = IF Len(u) = 0 THEN 0 ELSE u[1]
  BY <1>2, <1>4
<1>12. List(n, s, nx, lv, u)
  BY <1>4, <1>5, <1>6, <1>8, <1>9, <1>10, <1>11 DEF List
<1> QED BY <1>3, <1>4, <1>12 DEF u, nx, lv

\* The constructor's list is exact.
LEMMA NewPoolOK == ASSUME NEW n \in Nat PROVE PoolOK(NewPool(n), n)
<1> DEFINE P == NewPool(n)  o == [s \in 1 .. n |-> s]
<1>1. /\ P.free_head_ = IF n = 0 THEN 0 ELSE 1
      /\ P.next = [s \in 1 .. n |-> IF s = n THEN 0 ELSE s + 1]
      /\ P.live_ = [s \in 1 .. n |-> FALSE] /\ P.order = o
  BY DEF NewPool, NullSlot
<1>2. o \in Seq(1 .. n) /\ Len(o) = n /\ \A i \in 1 .. n : o[i] = i
  OBVIOUS
<1>3. PoolType(P, n)
  BY <1>2 DEF PoolType, NewPool, NullSlot
<1> HIDE DEF P, o
<1>4. /\ P.next \in [1 .. n -> -1 .. n] /\ P.live_ \in [1 .. n -> BOOLEAN]
      /\ \A s \in 1 .. n : P.next[s] = (IF s = n THEN 0 ELSE s + 1) /\ ~P.live_[s]
  BY <1>1
<1>5. List(n, P.free_head_, P.next, P.live_, P.order)
  BY <1>1, <1>2, <1>4 DEF List
<1> QED BY <1>3, <1>5, PoolMembers DEF P

\* allocate() takes a slot that was not live, and changes nothing of any other.
LEMMA AllocateOK ==
  ASSUME NEW n \in Nat, NEW P, PoolOK(P, n), ~Exhausted(P)
  PROVE  /\ PoolOK(allocate(P), n)
         /\ allocated(P) \in 1 .. n /\ ~P.live_[allocated(P)]
         /\ allocate(P).live_ = [P.live_ EXCEPT ![allocated(P)] = TRUE]
         /\ allocate(P).generations_ = P.generations_
         /\ allocate(P).tenant = [P.tenant EXCEPT ![allocated(P)] = P.allocs + 1]
         /\ allocate(P).allocs = P.allocs + 1
<1> DEFINE s == P.free_head_  Q == allocate(P)
<1>1. PoolType(P, n) /\ List(n, s, P.next, P.live_, P.order) /\ s # 0
  BY PoolMembers DEF Exhausted, NullSlot
<1>2. /\ s \in 1 .. n /\ ~P.live_[s] /\ P.next[s] \in 0 .. n /\ Tail(P.order) \in Seq(1 .. n)
      /\ List(n, P.next[s], [P.next EXCEPT ![s] = -1], [P.live_ EXCEPT ![s] = TRUE], Tail(P.order))
  BY <1>1, Pop
<1>3. /\ Q.free_head_ = P.next[s] /\ Q.next = [P.next EXCEPT ![s] = -1]
      /\ Q.live_ = [P.live_ EXCEPT ![s] = TRUE] /\ Q.generations_ = P.generations_
      /\ Q.tenant = [P.tenant EXCEPT ![s] = P.allocs + 1] /\ Q.allocs = P.allocs + 1
      /\ Q.order = Tail(P.order)
  BY DEF allocate, Storage
<1>4. PoolType(Q, n)
  <2> DEFINE nx == [P.next EXCEPT ![s] = -1]  lv == [P.live_ EXCEPT ![s] = TRUE]
             a == P.allocs + 1  tn == [P.tenant EXCEPT ![s] = a]  fh == P.next[s]
             o == Tail(P.order)  g == P.generations_
  <2>1. nx \in [1 .. n -> -1 .. n] /\ lv \in [1 .. n -> BOOLEAN] /\ fh \in 0 .. n /\ o \in Seq(1 .. n)
    BY Zenon, <1>2 DEF List
  <2>2. g \in [1 .. n -> Nat] /\ P.tenant \in [1 .. n -> Nat] /\ P.allocs \in Nat
    BY <1>1 DEF PoolType
  <2>3. a \in Nat
    BY <2>2
  <2>4. tn \in [1 .. n -> Nat]
    BY Zenon, <1>2, <2>2, <2>3, Write
  <2> QED BY Zenon, <2>1, <2>2, <2>3, <2>4, PoolRecord DEF allocate, Storage
<1>5. PoolOK(Q, n)
  BY <1>2, <1>3, <1>4, PoolMembers
<1> QED BY <1>2, <1>3, <1>5 DEF allocated

\* deallocate() of a live slot puts it in front of the list, under a new generation.
LEMMA DeallocateOK ==
  ASSUME NEW n \in Nat, NEW P, PoolOK(P, n), NEW s \in 1 .. n, P.live_[s]
  PROVE  /\ PoolOK(deallocate(P, s), n)
         /\ deallocate(P, s).live_ = [P.live_ EXCEPT ![s] = FALSE]
         /\ deallocate(P, s).generations_ = [P.generations_ EXCEPT ![s] = P.generations_[s] + 1]
         /\ deallocate(P, s).tenant = P.tenant
         /\ deallocate(P, s).allocs = P.allocs
<1> DEFINE Q == deallocate(P, s)
<1>1. PoolType(P, n) /\ List(n, P.free_head_, P.next, P.live_, P.order)
  BY PoolMembers
<1>2. /\ P.free_head_ \in 0 .. n /\ <<s>> \o P.order \in Seq(1 .. n)
      /\ List(n, s, [P.next EXCEPT ![s] = P.free_head_], [P.live_ EXCEPT ![s] = FALSE], <<s>> \o P.order)
  BY <1>1, Push
<1>3. /\ Q.free_head_ = s /\ Q.next = [P.next EXCEPT ![s] = P.free_head_]
      /\ Q.live_ = [P.live_ EXCEPT ![s] = FALSE]
      /\ Q.generations_ = [P.generations_ EXCEPT ![s] = P.generations_[s] + 1]
      /\ Q.tenant = P.tenant /\ Q.allocs = P.allocs /\ Q.order = <<s>> \o P.order
  BY DEF deallocate
<1>4. PoolType(Q, n)
  <2> DEFINE nx == [P.next EXCEPT ![s] = P.free_head_]  lv == [P.live_ EXCEPT ![s] = FALSE]
             g == P.generations_[s] + 1  gs == [P.generations_ EXCEPT ![s] = g]
             o == <<s>> \o P.order
  <2>1. nx \in [1 .. n -> -1 .. n] /\ lv \in [1 .. n -> BOOLEAN] /\ s \in 0 .. n /\ o \in Seq(1 .. n)
    <3>1. s \in 0 .. n
      OBVIOUS
    <3> QED BY Zenon, <1>2, <3>1 DEF List
  <2>2. P.generations_ \in [1 .. n -> Nat] /\ P.tenant \in [1 .. n -> Nat] /\ P.allocs \in Nat
    BY <1>1 DEF PoolType
  <2>3. g \in Nat
    BY <2>2
  <2>4. gs \in [1 .. n -> Nat]
    BY Zenon, <2>2, <2>3, Write
  <2> QED BY Zenon, <2>1, <2>2, <2>4, PoolRecord DEF deallocate
<1>5. PoolOK(Q, n)
  BY <1>2, <1>3, <1>4, PoolMembers
<1> QED BY <1>3, <1>5

-----------------------------------------------------------------------------
(***************************************************************************)
(* What a recv job's handler remembers: its generation is the slot's       *)
(* exactly while the allocation it was made for is in the slot.            *)
(***************************************************************************)
Handle(C, h) ==
    /\ h.connection \in 1 .. ConnSlots
    /\ h.connection_gen <= C.generations_[h.connection] /\ h.tenant <= C.allocs
    /\ h.connection_gen = C.generations_[h.connection]
       <=> C.live_[h.connection] /\ C.tenant[h.connection] = h.tenant

HandleInv == \A r \in Live(recvs) : Handle(conns, handler_[r])

\* Giving a slot to another connection keeps every handle: whoever had it has a lower number.
LEMMA AllocateHandle ==
  ASSUME NEW C, PoolOK(C, ConnSlots), ~Exhausted(C), NEW h \in Handlers, Handle(C, h)
  PROVE  Handle(allocate(C), h)
<1> DEFINE s == allocated(C)  Q == allocate(C)  c == h.connection
<1>1. /\ s \in 1 .. ConnSlots /\ ~C.live_[s]
      /\ Q.live_ = [C.live_ EXCEPT ![s] = TRUE] /\ Q.generations_ = C.generations_
      /\ Q.tenant = [C.tenant EXCEPT ![s] = C.allocs + 1] /\ Q.allocs = C.allocs + 1
  BY AllocateOK, BufferAssumption
<1>2. /\ C.live_ \in [1 .. ConnSlots -> BOOLEAN] /\ C.tenant \in [1 .. ConnSlots -> Nat]
      /\ C.allocs \in Nat /\ C.generations_ \in [1 .. ConnSlots -> Nat]
  BY DEF PoolOK, PoolType
<1>3. c \in 1 .. ConnSlots /\ h.connection_gen \in Nat /\ h.tenant \in Nat
  BY DEF Handle, Handlers
<1>4. /\ h.connection_gen <= C.generations_[c] /\ h.tenant <= C.allocs
      /\ h.connection_gen = C.generations_[c] <=> C.live_[c] /\ C.tenant[c] = h.tenant
  BY DEF Handle
<1>5. C.allocs + 1 \in Nat /\ h.tenant <= C.allocs + 1 /\ h.tenant # C.allocs + 1
  BY <1>2, <1>3, <1>4
<1>6. CASE c = s
  <2>0. Q.live_[s] /\ Q.tenant[s] = C.allocs + 1
    <3>1. [C.live_ EXCEPT ![s] = TRUE][s] /\ [C.tenant EXCEPT ![s] = C.allocs + 1][s] = C.allocs + 1
      BY <1>1, <1>2, <1>5
    <3> QED BY Zenon, <1>1, <3>1
  <2>1. Q.live_[c] /\ Q.tenant[c] = C.allocs + 1
    BY <1>6, <2>0
  <2> QED BY <1>1, <1>3, <1>4, <1>5, <1>6, <2>1 DEF Handle
<1>7. CASE c # s
  <2>1. Q.live_[c] = C.live_[c] /\ Q.tenant[c] = C.tenant[c]
    BY <1>1, <1>2, <1>3, <1>5, <1>7, Write
  <2> QED BY <1>1, <1>3, <1>4, <1>5, <2>1 DEF Handle
<1> QED BY <1>6, <1>7

\* Freeing a connection keeps every handle: the slot's generation has left them behind.
LEMMA DeallocateHandle ==
  ASSUME NEW C, PoolOK(C, ConnSlots), NEW s \in 1 .. ConnSlots, C.live_[s], NEW h \in Handlers, Handle(C, h)
  PROVE  Handle(deallocate(C, s), h)
<1> DEFINE Q == deallocate(C, s)  c == h.connection  g == C.generations_[s] + 1
<1>1. /\ Q.live_ = [C.live_ EXCEPT ![s] = FALSE] /\ Q.generations_ = [C.generations_ EXCEPT ![s] = g]
      /\ Q.tenant = C.tenant /\ Q.allocs = C.allocs
  BY DeallocateOK, BufferAssumption
<1>2. /\ C.live_ \in [1 .. ConnSlots -> BOOLEAN] /\ C.tenant \in [1 .. ConnSlots -> Nat]
      /\ C.allocs \in Nat /\ C.generations_ \in [1 .. ConnSlots -> Nat]
  BY DEF PoolOK, PoolType
<1>3. c \in 1 .. ConnSlots /\ h.connection_gen \in Nat /\ h.tenant \in Nat
  BY DEF Handle, Handlers
<1>4. /\ h.connection_gen <= C.generations_[c] /\ h.tenant <= C.allocs
      /\ h.connection_gen = C.generations_[c] <=> C.live_[c] /\ C.tenant[c] = h.tenant
  BY DEF Handle
<1>5. C.generations_[s] \in Nat /\ g \in Nat
  <2>1. C.generations_ \in [1 .. ConnSlots -> Nat]
    BY <1>2
  <2> QED BY <2>1, BufferAssumption
<1>6. CASE c = s
  <2>0. ~Q.live_[s] /\ Q.generations_[s] = g
    <3>1. ~[C.live_ EXCEPT ![s] = FALSE][s] /\ [C.generations_ EXCEPT ![s] = g][s] = g
      BY <1>2, <1>5
    <3> QED BY Zenon, <1>1, <3>1
  <2>1. ~Q.live_[c] /\ Q.generations_[c] = g
    BY <1>6, <2>0
  <2>2. h.connection_gen <= g /\ h.connection_gen # g
    BY <1>3, <1>4, <1>5, <1>6
  <2> QED BY <1>1, <1>3, <1>4, <1>6, <2>1, <2>2 DEF Handle
<1>7. CASE c # s
  <2>1. Q.live_[c] = C.live_[c] /\ Q.generations_[c] = C.generations_[c]
    BY <1>1, <1>2, <1>3, <1>5, <1>7, Write
  <2> QED BY <1>1, <1>3, <1>4, <2>1 DEF Handle
<1> QED BY <1>6, <1>7

\* A new recv job's handle is that of the connection just allocated.
LEMMA NewHandle ==
  ASSUME NEW C, PoolOK(C, ConnSlots), NEW s \in 1 .. ConnSlots, C.live_[s], C.tenant[s] <= C.allocs
  PROVE  LET h == [connection |-> s, connection_gen |-> C.generations_[s], tenant |-> C.tenant[s]]
         IN  h \in Handlers /\ Handle(C, h)
<1>1. C.tenant[s] \in Nat /\ C.generations_[s] \in Nat
  BY DEF PoolOK, PoolType
<1> QED BY <1>1, BufferAssumption DEF Handle, Handlers

\* A handle is taken for a live connection exactly while its own allocation lives.
LEMMA HandleValid ==
  ASSUME NEW C, NEW h, Handle(C, h)
  PROVE  /\ h.connection # NullSlot
         /\ isLive(C, h.connection, h.connection_gen) <=> C.live_[h.connection] /\ C.tenant[h.connection] = h.tenant
<1>1. h.connection # NullSlot
  BY DEF Handle, NullSlot
<1> QED BY <1>1 DEF Handle, isLive

-----------------------------------------------------------------------------
(***************************************************************************)
(* JobOutlivesCompletions of the members by themselves: live_ and tenant   *)
(* of the recv pool, the armed jobs A and the completions q that wait.     *)
(***************************************************************************)
Slots == 1 .. RecvSlots

JobsType(lv, tn, A, q) ==
    lv \in [Slots -> BOOLEAN] /\ tn \in [Slots -> Nat] /\ A \subseteq Slots /\ q \in Seq(Completions)

JobsOK(lv, tn, A, q) ==
    /\ \A i \in 1 .. Len(q) : /\ lv[q[i].job] /\ q[i].tenant = tn[q[i].job]
                              /\ ~q[i].more => q[i].job \notin A
    /\ \A i, j \in 1 .. Len(q) : (~q[i].more /\ q[i].job = q[j].job) => j <= i
    /\ \A r \in Slots : lv[r] => r \in A \/ \E i \in 1 .. Len(q) : q[i].job = r /\ ~q[i].more
    /\ \A r \in A : lv[r]

Jobs(lv, tn, A, q) == JobsType(lv, tn, A, q) /\ JobsOK(lv, tn, A, q)

\* The waiting completions, each with its fields.
LEMMA CqType ==
  ASSUME NEW q \in Seq(Completions)
  PROVE  /\ Len(q) \in Nat
         /\ \A i \in 1 .. Len(q) : /\ q[i].job \in Slots /\ q[i].tenant \in Nat
                                   /\ q[i].buffer \in Buffers \cup {NoBuffer} /\ q[i].more \in BOOLEAN
<1>1. Len(q) \in Nat /\ \A i \in 1 .. Len(q) : q[i] \in Completions
  OBVIOUS
<1> QED BY <1>1 DEF Completions, Slots

\* The completions left when the first has been taken.
LEMMA CqTail ==
  ASSUME NEW q \in Seq(Completions), q # << >>
  PROVE  /\ Len(q) \in Nat /\ 1 \in 1 .. Len(q) /\ Tail(q) \in Seq(Completions) /\ Len(Tail(q)) = Len(q) - 1
         /\ \A i \in 1 .. Len(Tail(q)) : i + 1 \in 1 .. Len(q) /\ i + 1 > 1 /\ Tail(q)[i] = q[i + 1]
         /\ \A i \in 1 .. Len(q) : i # 1 => i - 1 \in 1 .. Len(Tail(q)) /\ Tail(q)[i - 1] = q[i]
<1>1. Len(q) \in Nat /\ Len(q) # 0
  OBVIOUS
<1>2. /\ Tail(q) \in Seq(Completions) /\ Len(Tail(q)) = Len(q) - 1
      /\ \A i \in 1 .. Len(q) - 1 : Tail(q)[i] = q[i + 1]
  OBVIOUS
<1>3. ASSUME NEW i \in 1 .. Len(q), i # 1 PROVE i - 1 \in 1 .. Len(Tail(q)) /\ Tail(q)[i - 1] = q[i]
  <2>1. i - 1 \in 1 .. Len(q) - 1 /\ (i - 1) + 1 = i
    BY <1>1, <1>3
  <2> QED BY <2>1, <1>2
<1>4. ASSUME NEW i \in 1 .. Len(Tail(q)) PROVE i + 1 \in 1 .. Len(q) /\ i + 1 > 1 /\ Tail(q)[i] = q[i + 1]
  BY <1>1, <1>2
<1> QED BY <1>1, <1>2, <1>3, <1>4

\* The completions when one more has been posted.
LEMMA CqAppend ==
  ASSUME NEW q \in Seq(Completions), NEW e \in Completions
  PROVE  /\ Len(q) \in Nat /\ Append(q, e) \in Seq(Completions) /\ Len(Append(q, e)) = Len(q) + 1
         /\ \A i \in 1 .. Len(q) : i \in 1 .. Len(q) + 1 /\ Append(q, e)[i] = q[i]
         /\ Append(q, e)[Len(q) + 1] = e
OBVIOUS

\* The kernel posts a completion of an armed job, perhaps its last.
LEMMA JobsPost ==
  ASSUME NEW lv, NEW tn, NEW A, NEW q, Jobs(lv, tn, A, q), NEW e \in Completions,
         e.job \in A, e.tenant = tn[e.job]
  PROVE  Jobs(lv, tn, IF e.more THEN A ELSE A \ {e.job}, Append(q, e))
<1> DEFINE p == Append(q, e)  B == IF e.more THEN A ELSE A \ {e.job}  n == Len(q)
<1>1. JobsType(lv, tn, A, q) /\ JobsOK(lv, tn, A, q)
  BY DEF Jobs
<1>2. /\ n \in Nat /\ p \in Seq(Completions) /\ Len(p) = n + 1
      /\ (\A i \in 1 .. n : i \in 1 .. n + 1 /\ p[i] = q[i]) /\ p[n + 1] = e
  BY <1>1, CqAppend DEF JobsType
<1>3. B \subseteq A /\ (e.more => B = A) /\ (~e.more => B = A \ {e.job})
  OBVIOUS
<1>4. \A i \in 1 .. n + 1 : i \in 1 .. n \/ i = n + 1
  BY <1>2
<1> HIDE DEF p, B
<1>5. JobsType(lv, tn, B, p)
  BY <1>1, <1>2, <1>3 DEF JobsType
<1>6. ASSUME NEW i \in 1 .. n + 1
      PROVE  lv[p[i].job] /\ p[i].tenant = tn[p[i].job] /\ (~p[i].more => p[i].job \notin B)
  <2>1. CASE i \in 1 .. n
    BY <2>1, <1>1, <1>2, <1>3 DEF JobsOK
  <2>2. CASE i = n + 1
    BY <2>2, <1>1, <1>2, <1>3 DEF JobsOK
  <2> QED BY <2>1, <2>2, <1>4
<1>7. ASSUME NEW i \in 1 .. n + 1, NEW j \in 1 .. n + 1, ~p[i].more, p[i].job = p[j].job
      PROVE  j <= i
  <2>1. CASE i = n + 1
    BY <2>1, <1>2
  <2>2. CASE i \in 1 .. n /\ j \in 1 .. n
    BY <2>2, <1>1, <1>2, <1>7 DEF JobsOK
  <2>3. CASE i \in 1 .. n /\ j = n + 1
    <3>1. q[i].job = e.job /\ ~q[i].more
      BY <2>3, <1>2, <1>7
    <3> QED BY <2>3, <3>1, <1>1 DEF JobsOK
  <2> QED BY <2>1, <2>2, <2>3, <1>4
<1>8. ASSUME NEW r \in Slots, lv[r] PROVE r \in B \/ \E i \in 1 .. n + 1 : p[i].job = r /\ ~p[i].more
  <2>1. CASE r = e.job /\ ~e.more
    <3>1. n + 1 \in 1 .. n + 1
      BY <1>2
    <3> QED BY <2>1, <3>1, <1>2
  <2>2. CASE r \in A /\ (r # e.job \/ e.more)
    BY <2>2, <1>3
  <2>3. CASE r \notin A
    <3>1. \E i \in 1 .. n : q[i].job = r /\ ~q[i].more
      BY <2>3, <1>1, <1>8 DEF JobsOK
    <3> QED BY <3>1, <1>2
  <2> QED BY <2>1, <2>2, <2>3
<1>9. \A r \in B : lv[r]
  BY <1>1, <1>3 DEF JobsOK
<1>10. JobsOK(lv, tn, B, p)
  BY <1>2, <1>6, <1>7, <1>8, <1>9 DEF JobsOK
<1> QED BY <1>5, <1>10 DEF Jobs, p, B

\* The ring's thread takes a completion that is not the last.
LEMMA JobsTake ==
  ASSUME NEW lv, NEW tn, NEW A, NEW q, Jobs(lv, tn, A, q), q # << >>, q[1].more
  PROVE  Jobs(lv, tn, A, Tail(q))
<1> DEFINE p == Tail(q)
<1>1. JobsType(lv, tn, A, q) /\ JobsOK(lv, tn, A, q)
  BY DEF Jobs
<1>2. /\ Len(q) \in Nat /\ p \in Seq(Completions) /\ Len(p) = Len(q) - 1
      /\ \A i \in 1 .. Len(p) : i + 1 \in 1 .. Len(q) /\ p[i] = q[i + 1]
      /\ \A i \in 1 .. Len(q) : i # 1 => i - 1 \in 1 .. Len(p) /\ p[i - 1] = q[i]
  BY <1>1, CqTail DEF JobsType
<1> HIDE DEF p
<1>3. JobsType(lv, tn, A, p)
  BY <1>1, <1>2 DEF JobsType
<1>4. ASSUME NEW i \in 1 .. Len(p)
      PROVE  lv[p[i].job] /\ p[i].tenant = tn[p[i].job] /\ (~p[i].more => p[i].job \notin A)
  BY <1>1, <1>2 DEF JobsOK
<1>5. ASSUME NEW i \in 1 .. Len(p), NEW j \in 1 .. Len(p), ~p[i].more, p[i].job = p[j].job
      PROVE  j <= i
  <2>1. i + 1 \in 1 .. Len(q) /\ j + 1 \in 1 .. Len(q) /\ ~q[i + 1].more /\ q[i + 1].job = q[j + 1].job
    BY <1>2, <1>5
  <2>2. j + 1 <= i + 1
    BY <2>1, <1>1 DEF JobsOK
  <2> QED BY <2>2
<1>6. ASSUME NEW r \in Slots, lv[r] PROVE r \in A \/ \E i \in 1 .. Len(p) : p[i].job = r /\ ~p[i].more
  <2>1. CASE r \notin A
    <3>1. PICK i \in 1 .. Len(q) : q[i].job = r /\ ~q[i].more
      BY <2>1, <1>1, <1>6 DEF JobsOK
    <3>2. i # 1
      BY <3>1
    <3> QED BY <3>1, <3>2, <1>2
  <2> QED BY <2>1
<1>7. \A r \in A : lv[r]
  BY <1>1 DEF JobsOK
<1>8. JobsOK(lv, tn, A, p)
  BY <1>4, <1>5, <1>6, <1>7 DEF JobsOK
<1> QED BY <1>3, <1>8 DEF Jobs, p

\* The job r is neither armed nor in the completions p; but for it all is well.
LastTaken(lv, tn, A, p, r) ==
    /\ JobsType(lv, tn, A, p) /\ r \in Slots /\ lv[r] /\ r \notin A
    /\ \A i \in 1 .. Len(p) : /\ p[i].job \in Slots /\ p[i].job # r /\ lv[p[i].job]
                              /\ p[i].tenant = tn[p[i].job]
                              /\ ~p[i].more => p[i].job \notin A
    /\ \A i, j \in 1 .. Len(p) : (~p[i].more /\ p[i].job = p[j].job) => j <= i
    /\ \A s \in Slots : (lv[s] /\ s # r) => s \in A \/ \E i \in 1 .. Len(p) : p[i].job = s /\ ~p[i].more
    /\ \A s \in A : lv[s]

\* Taking the last completion of a job leaves none of it, and an unarmed job.
LEMMA JobsLast ==
  ASSUME NEW lv, NEW tn, NEW A, NEW q, Jobs(lv, tn, A, q), q # << >>, ~q[1].more
  PROVE  LastTaken(lv, tn, A, Tail(q), q[1].job)
<1> DEFINE p == Tail(q)
<1>1. JobsType(lv, tn, A, q) /\ JobsOK(lv, tn, A, q)
  BY DEF Jobs
<1>2. /\ Len(q) \in Nat /\ 1 \in 1 .. Len(q) /\ p \in Seq(Completions) /\ Len(p) = Len(q) - 1
      /\ \A i \in 1 .. Len(p) : i + 1 \in 1 .. Len(q) /\ i + 1 > 1 /\ p[i] = q[i + 1]
      /\ \A i \in 1 .. Len(q) : i # 1 => i - 1 \in 1 .. Len(p) /\ p[i - 1] = q[i]
  BY <1>1, CqTail DEF JobsType
<1> HIDE DEF p
<1>3. q[1].job \in Slots
  BY <1>1, <1>2, CqType DEF JobsType
<1>4. lv[q[1].job] /\ q[1].job \notin A
  BY <1>1, <1>2 DEF JobsOK
<1>5. ASSUME NEW i \in 1 .. Len(p)
      PROVE  /\ p[i].job \in Slots /\ p[i].job # q[1].job /\ lv[p[i].job]
             /\ p[i].tenant = tn[p[i].job] /\ (~p[i].more => p[i].job \notin A)
  <2>1. p[i].job \in Slots
    BY <1>2, CqType
  <2>2. lv[p[i].job] /\ p[i].tenant = tn[p[i].job] /\ (~p[i].more => p[i].job \notin A)
    <3>1. i + 1 \in 1 .. Len(q) /\ p[i] = q[i + 1]
      BY <1>2
    <3> QED BY <3>1, <1>1 DEF JobsOK
  <2>3. ASSUME p[i].job = q[1].job PROVE FALSE
    <3>1. i + 1 \in 1 .. Len(q) /\ q[1].job = q[i + 1].job /\ i + 1 > 1
      BY <2>3, <1>2
    <3>2. i + 1 <= 1
      BY <3>1, <1>1, <1>2 DEF JobsOK
    <3> QED BY <3>1, <3>2
  <2> QED BY <2>1, <2>2, <2>3
<1>6. ASSUME NEW i \in 1 .. Len(p), NEW j \in 1 .. Len(p), ~p[i].more, p[i].job = p[j].job
      PROVE  j <= i
  <2>1. i + 1 \in 1 .. Len(q) /\ j + 1 \in 1 .. Len(q) /\ ~q[i + 1].more /\ q[i + 1].job = q[j + 1].job
    BY <1>2, <1>6
  <2>2. j + 1 <= i + 1
    BY <2>1, <1>1 DEF JobsOK
  <2> QED BY <2>2
<1>7. ASSUME NEW r \in Slots, lv[r], r # q[1].job, r \notin A
      PROVE  \E i \in 1 .. Len(p) : p[i].job = r /\ ~p[i].more
  <2>1. PICK i \in 1 .. Len(q) : q[i].job = r /\ ~q[i].more
    BY <1>1, <1>7 DEF JobsOK
  <2>2. i # 1
    BY <2>1, <1>7
  <2> QED BY <2>1, <2>2, <1>2
<1>8. JobsType(lv, tn, A, p) /\ \A s \in A : lv[s]
  BY <1>1, <1>2 DEF JobsType, JobsOK
<1>9. LastTaken(lv, tn, A, p, q[1].job)
  BY <1>3, <1>4, <1>5, <1>6, <1>7, <1>8 DEF LastTaken
<1> QED BY <1>9 DEF p

\* The job is armed again after its last completion.
LEMMA JobsRearm ==
  ASSUME NEW lv, NEW tn, NEW A, NEW p, NEW r, LastTaken(lv, tn, A, p, r)
  PROVE  Jobs(lv, tn, A \cup {r}, p)
<1>1. JobsType(lv, tn, A \cup {r}, p)
  BY DEF LastTaken, JobsType
<1>2. JobsOK(lv, tn, A \cup {r}, p)
  BY DEF LastTaken, JobsOK
<1> QED BY <1>1, <1>2 DEF Jobs

\* The job goes back to the pool after its last completion.
LEMMA JobsFree ==
  ASSUME NEW lv, NEW tn, NEW A, NEW p, NEW r, LastTaken(lv, tn, A, p, r)
  PROVE  Jobs([lv EXCEPT ![r] = FALSE], tn, A, p)
<1> DEFINE l == [lv EXCEPT ![r] = FALSE]
<1>1. JobsType(lv, tn, A, p) /\ r \in Slots /\ A \subseteq Slots /\ lv \in [Slots -> BOOLEAN]
  BY DEF LastTaken, JobsType
<1>2. l \in [Slots -> BOOLEAN] /\ ~l[r] /\ \A s \in Slots : s # r => l[s] = lv[s]
  BY Zenon, <1>1, Write
<1> HIDE DEF l
<1>3. JobsType(l, tn, A, p)
  BY <1>1, <1>2 DEF JobsType
<1>4. \A s \in A : l[s]
  BY <1>1, <1>2 DEF LastTaken
<1>5. \A i \in 1 .. Len(p) : l[p[i].job]
  BY <1>2 DEF LastTaken
<1>6. \A s \in Slots : l[s] => lv[s] /\ s # r
  BY <1>2
<1>7. JobsOK(l, tn, A, p)
  BY <1>4, <1>5, <1>6 DEF JobsOK, LastTaken
<1> QED BY <1>3, <1>7 DEF Jobs, l

\* A job is taken from the pool and armed.
LEMMA JobsNew ==
  ASSUME NEW lv, NEW tn, NEW A, NEW q, Jobs(lv, tn, A, q), NEW r \in Slots, ~lv[r], NEW v \in Nat
  PROVE  /\ Jobs([lv EXCEPT ![r] = TRUE], [tn EXCEPT ![r] = v], A \cup {r}, q)
         /\ Jobs([[lv EXCEPT ![r] = TRUE] EXCEPT ![r] = FALSE], [tn EXCEPT ![r] = v], A, q)
<1> DEFINE l == [lv EXCEPT ![r] = TRUE]  k == [l EXCEPT ![r] = FALSE]  t == [tn EXCEPT ![r] = v]
<1>1. JobsType(lv, tn, A, q) /\ JobsOK(lv, tn, A, q) /\ lv \in [Slots -> BOOLEAN] /\ tn \in [Slots -> Nat]
  BY DEF Jobs, JobsType
<1>2. l \in [Slots -> BOOLEAN] /\ l[r] /\ \A s \in Slots : s # r => l[s] = lv[s]
  BY Zenon, <1>1, Write
<1>3. k \in [Slots -> BOOLEAN] /\ ~k[r] /\ \A s \in Slots : s # r => k[s] = l[s]
  <2> HIDE DEF l
  <2> QED BY Zenon, <1>2, Write
<1>4. t \in [Slots -> Nat] /\ \A s \in Slots : s # r => t[s] = tn[s]
  BY Zenon, <1>1, Write
<1> HIDE DEF l, k, t
<1>5. \A s \in Slots : k[s] <=> lv[s]
  BY <1>2, <1>3
<1>6. r \notin A /\ \A i \in 1 .. Len(q) : q[i].job \in Slots /\ q[i].job # r
  <2>1. r \notin A /\ \A i \in 1 .. Len(q) : q[i].job # r
    BY <1>1 DEF JobsOK
  <2>2. \A i \in 1 .. Len(q) : q[i].job \in Slots
    BY <1>1, CqType DEF JobsType
  <2> QED BY <2>1, <2>2
<1>7. A \subseteq Slots
  BY <1>1 DEF JobsType
<1>8. \A i \in 1 .. Len(q) : t[q[i].job] = tn[q[i].job] /\ l[q[i].job] = lv[q[i].job]
  BY <1>2, <1>4, <1>6
<1>9. JobsType(l, t, A \cup {r}, q) /\ JobsType(k, t, A, q)
  BY <1>1, <1>2, <1>3, <1>4 DEF JobsType
<1>10. JobsOK(l, t, A \cup {r}, q)
  BY <1>1, <1>2, <1>6, <1>7, <1>8 DEF JobsOK
<1>11. JobsOK(k, t, A, q)
  BY <1>1, <1>5, <1>6, <1>7, <1>8 DEF JobsOK
<1> QED BY <1>9, <1>10, <1>11 DEF Jobs, l, k, t

-----------------------------------------------------------------------------
\* Quotient and remainder.
LEMMA Division ==
  ASSUME NEW m \in Nat \ {0}, NEW a \in Int
  PROVE  a \div m \in Int /\ a % m \in 0 .. m - 1 /\ a = m * (a \div m) + (a % m)
OBVIOUS

\* A larger quotient is at least a whole divisor more.
LEMMA LaterRound ==
  ASSUME NEW m \in Nat \ {0}, NEW k \in Int, NEW l \in Int, k < l
  PROVE  m * k \in Int /\ m * l \in Int /\ m * l >= m * k + m
<1>1. m * (l - k) >= m * 1 /\ m * k \in Int /\ m * l \in Int
  OBVIOUS
<1>2. m * (l - k) = m * l - m * k
  OBVIOUS
<1> QED BY <1>1, <1>2

\* A remainder is the only one in its range.
LEMMA ModIs ==
  ASSUME NEW m \in Nat \ {0}, NEW a \in Int, NEW q \in Int, NEW r \in 0 .. m - 1, a = m * q + r
  PROVE  a % m = r
<1> DEFINE p == a \div m  s == a % m
<1>1. p \in Int /\ s \in 0 .. m - 1 /\ a = m * p + s
  BY Division
<1> HIDE DEF p, s
<1>2. m * p \in Int /\ m * q \in Int
  BY <1>1
<1>3. ~ (p < q)
  BY <1>1, <1>2, LaterRound
<1>4. ~ (q < p)
  BY <1>1, <1>2, LaterRound
<1>5. p = q
  BY <1>1, <1>3, <1>4
<1>6. s = r
  BY <1>1, <1>2, <1>5
<1> QED BY <1>6 DEF s

\* Numbers less than a divisor apart have different remainders.
LEMMA ModApart ==
  ASSUME NEW m \in Nat \ {0}, NEW a \in Int, NEW b \in Int, a < b, b < a + m
  PROVE  a % m # b % m
<1> SUFFICES ASSUME a % m = b % m PROVE FALSE
  OBVIOUS
<1> DEFINE p == a \div m  q == b \div m  s == a % m
<1>1. p \in Int /\ s \in 0 .. m - 1 /\ a = m * p + s
  BY Division
<1>2. q \in Int /\ b = m * q + s
  BY Division
<1> HIDE DEF p, q, s
<1>3. m * p \in Int /\ m * q \in Int
  BY <1>1, <1>2
<1>4. m * p < m * q /\ m * q < m * p + m
  BY <1>1, <1>2, <1>3
<1>5. ~ (p < q)
  BY <1>1, <1>2, <1>3, <1>4, LaterRound
<1>6. ~ (q < p)
  BY <1>1, <1>2, <1>3, <1>4, LaterRound
<1>7. p = q
  BY <1>1, <1>2, <1>5, <1>6
<1> QED BY <1>3, <1>4, <1>7

\* One count more, modulo TailMod.
LEMMA Up ==
  ASSUME NEW m \in Nat \ {0}, NEW a \in 0 .. m - 1
  PROVE  (a + 1) % m = IF a = m - 1 THEN 0 ELSE a + 1
<1>1. CASE a = m - 1
  <2>1. a + 1 = m * 1 + 0 /\ 0 \in 0 .. m - 1
    BY <1>1
  <2>2. (a + 1) % m = 0
    BY <2>1, ModIs
  <2> QED BY <1>1, <2>2
<1>2. CASE a # m - 1
  <2>1. a + 1 = m * 0 + (a + 1) /\ a + 1 \in 0 .. m - 1
    BY <1>2
  <2>2. (a + 1) % m = a + 1
    BY <2>1, ModIs
  <2> QED BY <1>2, <2>2
<1> QED BY <1>1, <1>2

\* The distance from the kernel's head to the tail, modulo TailMod.
LEMMA Distance ==
  ASSUME NEW m \in Nat \ {0}, NEW a \in 0 .. m - 1, NEW b \in 0 .. m - 1
  PROVE  (b - a) % m = IF a <= b THEN b - a ELSE b - a + m
<1>1. CASE a <= b
  <2>1. b - a = m * 0 + (b - a) /\ b - a \in 0 .. m - 1
    BY <1>1
  <2>2. (b - a) % m = b - a
    BY <2>1, ModIs
  <2> QED BY <1>1, <2>2
<1>2. CASE ~ (a <= b)
  <2>1. b - a = m * (-1) + (b - a + m) /\ b - a + m \in 0 .. m - 1 /\ -1 \in Int
    BY <1>2
  <2>2. (b - a) % m = b - a + m
    BY <2>1, ModIs
  <2> QED BY <1>2, <2>2
<1> QED BY <1>1, <1>2

\* The count of entries divides TailMod, so that wrapping the counts skips no entry.
LEMMA WrapEntry ==
  ASSUME NEW a \in Int
  PROVE  (a + TailMod) % buf_count = a % buf_count
<1> DEFINE m == TailMod \div buf_count  q == a \div buf_count  r == a % buf_count
<1>0. buf_count \in Nat \ {0} /\ TailMod \in Nat /\ TailMod % buf_count = 0
  BY BufferAssumption
<1>1. q \in Int /\ r \in 0 .. buf_count - 1 /\ a = buf_count * q + r
  BY <1>0, Division
<1>2. m \in Int /\ TailMod = buf_count * m + 0
  BY <1>0, Division
<1> HIDE DEF m, q, r
<1>3. buf_count * (q + m) = buf_count * q + buf_count * m /\ buf_count * q \in Int /\ buf_count * m \in Int
  BY <1>0, <1>1, <1>2
<1>4. a + TailMod = buf_count * (q + m) + r /\ q + m \in Int /\ a + TailMod \in Int
  BY <1>0, <1>1, <1>2, <1>3
<1>5. (a + TailMod) % buf_count = r
  BY <1>0, <1>1, <1>4, ModIs
<1> QED BY <1>5 DEF r

-----------------------------------------------------------------------------
\* Buffers the kernel has not taken, and the entry of the k-th of them.
Count(h, t) == (t - h) % TailMod
Entry(h, k) == (h + k) % buf_count

\* The kernel takes an entry: one fewer, and each of the others is one nearer.
LEMMA TakeEntry ==
  ASSUME NEW h \in 0 .. TailMod - 1, NEW t \in 0 .. TailMod - 1, h # t
  PROVE  /\ Count(h, t) \in Nat /\ Count(h, t) >= 1
         /\ Count((h + 1) % TailMod, t) = Count(h, t) - 1
         /\ (h + 1) % TailMod \in 0 .. TailMod - 1
         /\ \A k \in Nat : Entry((h + 1) % TailMod, k) = Entry(h, k + 1)
<1> DEFINE g == (h + 1) % TailMod
<1>0. TailMod \in Nat \ {0}
  BY BufferAssumption
<1>1. g = (IF h = TailMod - 1 THEN 0 ELSE h + 1) /\ g \in 0 .. TailMod - 1
  BY <1>0, Up
<1> HIDE DEF g
<1>2. Count(h, t) = IF h <= t THEN t - h ELSE t - h + TailMod
  BY <1>0, Distance DEF Count
<1>3. Count(g, t) = IF g <= t THEN t - g ELSE t - g + TailMod
  BY <1>0, <1>1, Distance DEF Count
<1>4. Count(h, t) \in Nat /\ Count(h, t) >= 1 /\ Count(g, t) = Count(h, t) - 1
  BY <1>0, <1>1, <1>2, <1>3
<1>5. ASSUME NEW k \in Nat PROVE Entry(g, k) = Entry(h, k + 1)
  <2>1. CASE h = TailMod - 1
    <3>1. h + (k + 1) = k + TailMod /\ g + k = k
      BY <2>1, <1>0, <1>1
    <3>2. (k + TailMod) % buf_count = k % buf_count
      BY WrapEntry
    <3> QED BY <3>1, <3>2 DEF Entry
  <2>2. CASE h # TailMod - 1
    <3>1. g + k = h + (k + 1)
      BY <2>2, <1>0, <1>1
    <3> QED BY <3>1 DEF Entry
  <2> QED BY <2>1, <2>2
<1> QED BY <1>1, <1>4, <1>5 DEF g

\* A buffer is added behind the others, at an entry that none of them has.
LEMMA GiveEntry ==
  ASSUME NEW h \in 0 .. TailMod - 1, NEW t \in 0 .. TailMod - 1, Count(h, t) < buf_count
  PROVE  /\ Count(h, t) \in Nat
         /\ Count(h, (t + 1) % TailMod) = Count(h, t) + 1
         /\ (t + 1) % TailMod \in 0 .. TailMod - 1
         /\ Entry(h, Count(h, t)) = t % buf_count
         /\ \A k \in 0 .. Count(h, t) - 1 : Entry(h, k) # t % buf_count
<1> DEFINE u == (t + 1) % TailMod  n == Count(h, t)
<1>0. TailMod \in Nat \ {0} /\ buf_count \in Nat \ {0} /\ buf_count < TailMod
  BY BufferAssumption
<1>1. u = (IF t = TailMod - 1 THEN 0 ELSE t + 1) /\ u \in 0 .. TailMod - 1
  <2>1. u = IF t = TailMod - 1 THEN 0 ELSE t + 1
    BY <1>0, Up
  <2> QED BY <1>0, <2>1
<1>2. n = IF h <= t THEN t - h ELSE t - h + TailMod
  BY <1>0, Distance DEF Count
<1>3. n \in Nat
  BY <1>0, <1>2
<1> HIDE DEF u
<1>4. Count(h, u) = IF h <= u THEN u - h ELSE u - h + TailMod
  BY <1>0, <1>1, Distance DEF Count
<1> HIDE DEF n
<1>5. n + 1 < TailMod
  BY <1>0, <1>3 DEF n
<1>6. Count(h, u) = n + 1
  BY <1>0, <1>1, <1>2, <1>4, <1>5
<1>7. Entry(h, n) = t % buf_count
  <2>1. CASE h <= t
    <3>1. h + n = t
      BY <2>1, <1>2
    <3> QED BY <3>1 DEF Entry
  <2>2. CASE ~ (h <= t)
    <3>1. h + n = t + TailMod
      BY <2>2, <1>0, <1>2
    <3>2. (t + TailMod) % buf_count = t % buf_count
      BY WrapEntry
    <3> QED BY <3>1, <3>2 DEF Entry
  <2> QED BY <2>1, <2>2
<1>8. ASSUME NEW k \in 0 .. n - 1 PROVE Entry(h, k) # t % buf_count
  <2>1. h + k \in Int /\ h + n \in Int /\ h + k < h + n /\ h + n < (h + k) + buf_count
    BY <1>0, <1>3 DEF n
  <2>2. (h + k) % buf_count # (h + n) % buf_count
    BY <1>0, <2>1, ModApart
  <2> QED BY <2>2, <1>7 DEF Entry
<1> QED BY <1>1, <1>3, <1>6, <1>7, <1>8 DEF u, n

(***************************************************************************)
(* BuffersConserved with f[k] the k-th buffer that the kernel has not      *)
(* taken, of n.                                                            *)
(***************************************************************************)
ConservedType(n, f, q) ==
    n \in Nat /\ n <= buf_count /\ f \in [0 .. n - 1 -> Buffers] /\ q \in Seq(Completions)

ConservedOK(n, f, q) ==
    /\ \A k, l \in 0 .. n - 1 : f[k] = f[l] => k = l
    /\ \A i, j \in 1 .. Len(q) : (q[i].buffer # NoBuffer /\ q[i].buffer = q[j].buffer) => i = j
    /\ \A b \in Buffers : (\E k \in 0 .. n - 1 : f[k] = b) <=> ~ \E i \in 1 .. Len(q) : q[i].buffer = b

Conserved(n, f, q) == ConservedType(n, f, q) /\ ConservedOK(n, f, q)

\* The kernel posts the first buffer of the ring.
LEMMA PostConserves ==
  ASSUME NEW n, NEW f, NEW q, Conserved(n, f, q), n >= 1, NEW e \in Completions, e.buffer = f[0],
         NEW g \in [0 .. (n - 1) - 1 -> Buffers], \A k \in 0 .. (n - 1) - 1 : g[k] = f[k + 1]
  PROVE  Conserved(n - 1, g, Append(q, e))
<1> DEFINE p == Append(q, e)
<1>1. ConservedType(n, f, q) /\ ConservedOK(n, f, q) /\ n \in Nat /\ buf_count \in Nat
  BY BufferAssumption DEF Conserved, ConservedType
<1>2. /\ Len(q) \in Nat /\ p \in Seq(Completions) /\ Len(p) = Len(q) + 1
      /\ (\A i \in 1 .. Len(q) : i \in 1 .. Len(q) + 1 /\ p[i] = q[i]) /\ p[Len(q) + 1] = e
  BY <1>1, CqAppend DEF ConservedType
<1>3. \A i \in 1 .. Len(q) + 1 : i \in 1 .. Len(q) \/ i = Len(q) + 1
  BY <1>2
<1> HIDE DEF p
<1>4. ConservedType(n - 1, g, p)
  BY <1>1, <1>2 DEF ConservedType
<1>5. 0 \in 0 .. n - 1 /\ f[0] \in Buffers
  BY <1>1 DEF ConservedType
<1>6. \A k \in 0 .. (n - 1) - 1 : k + 1 \in 0 .. n - 1 /\ k + 1 # 0 /\ g[k] = f[k + 1]
  BY <1>1
<1>7. ~ \E i \in 1 .. Len(q) : q[i].buffer = e.buffer
  BY <1>1, <1>5 DEF ConservedOK
<1>8. ASSUME NEW k \in 0 .. (n - 1) - 1, NEW l \in 0 .. (n - 1) - 1, g[k] = g[l] PROVE k = l
  <2>1. k + 1 = l + 1
    BY <1>1, <1>6, <1>8 DEF ConservedOK
  <2> QED BY <2>1
<1>9. ASSUME NEW i \in 1 .. Len(q) + 1, NEW j \in 1 .. Len(q) + 1, p[i].buffer # NoBuffer,
             p[i].buffer = p[j].buffer
      PROVE  i = j
  <2>1. CASE i \in 1 .. Len(q) /\ j \in 1 .. Len(q)
    BY <2>1, <1>1, <1>2, <1>9 DEF ConservedOK
  <2>2. CASE i = Len(q) + 1 \/ j = Len(q) + 1
    BY <2>2, <1>2, <1>3, <1>7, <1>9
  <2> QED BY <2>1, <2>2, <1>3
<1>10. ASSUME NEW b \in Buffers
       PROVE  (\E k \in 0 .. (n - 1) - 1 : g[k] = b) <=> ~ \E i \in 1 .. Len(q) + 1 : p[i].buffer = b
  <2>1. CASE b = e.buffer
    <3>1. Len(q) + 1 \in 1 .. Len(q) + 1 /\ p[Len(q) + 1].buffer = b
      BY <2>1, <1>2
    <3>2. ASSUME NEW k \in 0 .. (n - 1) - 1, g[k] = b PROVE FALSE
      BY <3>2, <2>1, <1>1, <1>5, <1>6 DEF ConservedOK
    <3> QED BY <3>1, <3>2
  <2>2. CASE b # e.buffer
    <3>1. (\E i \in 1 .. Len(q) + 1 : p[i].buffer = b) <=> \E i \in 1 .. Len(q) : q[i].buffer = b
      BY <2>2, <1>2, <1>3
    <3>2. ASSUME NEW l \in 0 .. n - 1, f[l] = b PROVE \E k \in 0 .. (n - 1) - 1 : g[k] = b
      <4>1. l - 1 \in 0 .. (n - 1) - 1 /\ (l - 1) + 1 = l
        BY <3>2, <2>2, <1>1
      <4> QED BY <4>1, <3>2, <1>6
    <3>3. (\E k \in 0 .. (n - 1) - 1 : g[k] = b) <=> \E l \in 0 .. n - 1 : f[l] = b
      BY <3>2, <1>6
    <3> QED BY <3>1, <3>3, <1>1 DEF ConservedOK
  <2> QED BY <2>1, <2>2
<1>11. ConservedOK(n - 1, g, p)
  BY <1>2, <1>8, <1>9, <1>10 DEF ConservedOK
<1> QED BY <1>4, <1>11 DEF Conserved, p

\* The kernel posts a completion without a buffer.
LEMMA PostNoneConserves ==
  ASSUME NEW n, NEW f, NEW q, Conserved(n, f, q), NEW e \in Completions, e.buffer = NoBuffer
  PROVE  Conserved(n, f, Append(q, e))
<1> DEFINE p == Append(q, e)
<1>1. ConservedType(n, f, q) /\ ConservedOK(n, f, q)
  BY DEF Conserved
<1>2. /\ Len(q) \in Nat /\ p \in Seq(Completions) /\ Len(p) = Len(q) + 1
      /\ (\A i \in 1 .. Len(q) : i \in 1 .. Len(q) + 1 /\ p[i] = q[i]) /\ p[Len(q) + 1] = e
  BY <1>1, CqAppend DEF ConservedType
<1>3. \A i \in 1 .. Len(q) + 1 : i \in 1 .. Len(q) \/ i = Len(q) + 1
  BY <1>2
<1> HIDE DEF p
<1>4. ConservedType(n, f, p)
  BY <1>1, <1>2 DEF ConservedType
<1>5. \A b \in Buffers : b # NoBuffer
  BY BufferAssumption DEF Buffers, NoBuffer
<1>6. \A b \in Buffers : (\E i \in 1 .. Len(q) + 1 : p[i].buffer = b) <=> \E i \in 1 .. Len(q) : q[i].buffer = b
  BY <1>2, <1>3, <1>5
<1>7. \A i, j \in 1 .. Len(q) + 1 : (p[i].buffer # NoBuffer /\ p[i].buffer = p[j].buffer) => i = j
  BY <1>1, <1>2, <1>3 DEF ConservedOK
<1>8. ConservedOK(n, f, p)
  BY <1>1, <1>2, <1>6, <1>7 DEF ConservedOK
<1> QED BY <1>4, <1>8 DEF Conserved, p

\* The ring's thread takes a completion without a buffer.
LEMMA TakeNoneConserves ==
  ASSUME NEW n, NEW f, NEW q, Conserved(n, f, q), q # << >>, q[1].buffer = NoBuffer
  PROVE  Conserved(n, f, Tail(q))
<1> DEFINE p == Tail(q)
<1>1. ConservedType(n, f, q) /\ ConservedOK(n, f, q)
  BY DEF Conserved
<1>2. /\ Len(q) \in Nat /\ p \in Seq(Completions) /\ Len(p) = Len(q) - 1
      /\ \A i \in 1 .. Len(p) : i + 1 \in 1 .. Len(q) /\ p[i] = q[i + 1]
      /\ \A i \in 1 .. Len(q) : i # 1 => i - 1 \in 1 .. Len(p) /\ p[i - 1] = q[i]
  BY <1>1, CqTail DEF ConservedType
<1> HIDE DEF p
<1>3. ConservedType(n, f, p)
  BY <1>1, <1>2 DEF ConservedType
<1>4. \A b \in Buffers : b # NoBuffer
  BY BufferAssumption DEF Buffers, NoBuffer
<1>5. ASSUME NEW b \in Buffers
      PROVE  (\E i \in 1 .. Len(p) : p[i].buffer = b) <=> \E i \in 1 .. Len(q) : q[i].buffer = b
  <2>1. ASSUME NEW i \in 1 .. Len(q), q[i].buffer = b PROVE \E j \in 1 .. Len(p) : p[j].buffer = b
    <3>1. i # 1
      BY <2>1, <1>4
    <3> QED BY <3>1, <2>1, <1>2
  <2> QED BY <2>1, <1>2
<1>6. ASSUME NEW i \in 1 .. Len(p), NEW j \in 1 .. Len(p), p[i].buffer # NoBuffer, p[i].buffer = p[j].buffer
      PROVE  i = j
  <2>1. i + 1 = j + 1
    BY <1>1, <1>2, <1>6 DEF ConservedOK
  <2> QED BY <2>1
<1>7. ConservedOK(n, f, p)
  BY <1>1, <1>5, <1>6 DEF ConservedOK
<1> QED BY <1>3, <1>7 DEF Conserved, p

\* While a completion holds a buffer, the ring has room for it.
LEMMA RoomToGive ==
  ASSUME NEW n, NEW f, NEW q, Conserved(n, f, q), q # << >>, q[1].buffer # NoBuffer
  PROVE  n < buf_count /\ q[1].buffer \in Buffers
<1> DEFINE x == q[1].buffer
<1>1. ConservedType(n, f, q) /\ ConservedOK(n, f, q) /\ q \in Seq(Completions)
  BY DEF Conserved, ConservedType
<1>2. 1 \in 1 .. Len(q) /\ x \in Buffers
  <2>1. 1 \in 1 .. Len(q)
    BY <1>1, CqTail
  <2> QED BY <2>1, <1>1, CqType
<1>3. n \in Nat /\ n <= buf_count /\ f \in [0 .. n - 1 -> Buffers] /\ buf_count \in Nat \ {0}
  BY <1>1, BufferAssumption DEF ConservedType
<1>4. \A k \in 0 .. n - 1 : f[k] # x
  BY <1>1, <1>2 DEF ConservedOK
<1>5. ASSUME n = buf_count PROVE FALSE
  <2>1. IsFiniteSet(Buffers) /\ Cardinality(Buffers) = buf_count
    <3>1. 0 \in Int /\ buf_count - 1 \in Int /\ ~ (0 > buf_count - 1) /\ (buf_count - 1) - 0 + 1 = buf_count
      BY <1>3
    <3> QED BY <3>1, FS_Interval DEF Buffers
  <2>2. IsFiniteSet(Buffers \ {x}) /\ Cardinality(Buffers \ {x}) = buf_count - 1
    BY <2>1, <1>2, FS_RemoveElement
  <2>3. IsFiniteSet(0 .. n - 1) /\ Cardinality(0 .. n - 1) = n
    BY <1>3, FS_Interval
  <2>4. f \in [0 .. n - 1 -> Buffers \ {x}]
    BY <1>3, <1>4
  <2>5. Cardinality(Buffers \ {x}) < Cardinality(0 .. n - 1)
    BY <1>3, <1>5, <2>2, <2>3
  <2>6. \E k, l \in 0 .. n - 1 : k # l /\ f[k] = f[l]
    <3> DEFINE S == 0 .. n - 1  T == Buffers \ {x}
    <3>1. IsFiniteSet(S) /\ IsFiniteSet(T) /\ Cardinality(T) < Cardinality(S) /\ f \in [S -> T]
      BY <2>2, <2>3, <2>4, <2>5
    <3> HIDE DEF S, T
    <3>2. \E k, l \in S : k # l /\ f[k] = f[l]
      BY <3>1, FS_PigeonHole
    <3> QED BY <3>2 DEF S
  <2> QED BY <2>6, <1>1 DEF ConservedOK
<1> QED BY <1>2, <1>3, <1>5

\* recycleBuffer() gives the buffer of the completion just taken back to the ring.
LEMMA GiveConserves ==
  ASSUME NEW n, NEW f, NEW q, Conserved(n, f, q), q # << >>, q[1].buffer # NoBuffer,
         NEW g \in [0 .. (n + 1) - 1 -> Buffers], g[n] = q[1].buffer, \A k \in 0 .. n - 1 : g[k] = f[k]
  PROVE  Conserved(n + 1, g, Tail(q))
<1> DEFINE p == Tail(q)  x == q[1].buffer
<1>1. ConservedType(n, f, q) /\ ConservedOK(n, f, q) /\ n \in Nat /\ buf_count \in Nat
  BY BufferAssumption DEF Conserved, ConservedType
<1>2. /\ Len(q) \in Nat /\ 1 \in 1 .. Len(q) /\ p \in Seq(Completions) /\ Len(p) = Len(q) - 1
      /\ \A i \in 1 .. Len(p) : i + 1 \in 1 .. Len(q) /\ i + 1 > 1 /\ p[i] = q[i + 1]
      /\ \A i \in 1 .. Len(q) : i # 1 => i - 1 \in 1 .. Len(p) /\ p[i - 1] = q[i]
  BY <1>1, CqTail DEF ConservedType
<1>3. n < buf_count /\ x \in Buffers
  BY RoomToGive
<1> HIDE DEF p
<1>4. ConservedType(n + 1, g, p)
  BY <1>1, <1>2, <1>3 DEF ConservedType
<1>5. \A k \in 0 .. (n + 1) - 1 : k \in 0 .. n - 1 \/ k = n
  BY <1>1
<1>6. \A k \in 0 .. n - 1 : k \in 0 .. (n + 1) - 1 /\ g[k] = f[k] /\ f[k] # x
  <2>1. \A k \in 0 .. n - 1 : f[k] # x
    BY <1>1, <1>2, <1>3 DEF ConservedOK
  <2> QED BY <2>1, <1>1
<1>7. n \in 0 .. (n + 1) - 1 /\ g[n] = x
  BY <1>1
<1> HIDE DEF x
<1>8. \A i \in 1 .. Len(p) : p[i].buffer # x
  <2> SUFFICES ASSUME NEW i \in 1 .. Len(p), p[i].buffer = x PROVE FALSE
    OBVIOUS
  <2>1. 1 = i + 1
    BY <1>1, <1>2 DEF ConservedOK, x
  <2> QED BY <2>1, <1>2
<1>9. \A k, l \in 0 .. (n + 1) - 1 : g[k] = g[l] => k = l
  BY <1>1, <1>5, <1>6, <1>7 DEF ConservedOK
<1>10. ASSUME NEW i \in 1 .. Len(p), NEW j \in 1 .. Len(p), p[i].buffer # NoBuffer, p[i].buffer = p[j].buffer
       PROVE  i = j
  <2>1. i + 1 = j + 1
    BY <1>1, <1>2, <1>10 DEF ConservedOK
  <2> QED BY <2>1
<1>11. ASSUME NEW b \in Buffers
       PROVE  (\E k \in 0 .. (n + 1) - 1 : g[k] = b) <=> ~ \E i \in 1 .. Len(p) : p[i].buffer = b
  <2>1. CASE b = x
    BY <2>1, <1>7, <1>8
  <2>2. CASE b # x
    <3>1. ASSUME NEW i \in 1 .. Len(q), q[i].buffer = b PROVE \E j \in 1 .. Len(p) : p[j].buffer = b
      <4>1. i # 1
        BY <3>1, <2>2 DEF x
      <4> QED BY <4>1, <3>1, <1>2
    <3>2. (\E i \in 1 .. Len(p) : p[i].buffer = b) <=> \E i \in 1 .. Len(q) : q[i].buffer = b
      BY <3>1, <1>2
    <3>3. (\E k \in 0 .. (n + 1) - 1 : g[k] = b) <=> \E l \in 0 .. n - 1 : f[l] = b
      BY <2>2, <1>5, <1>6, <1>7
    <3> QED BY <3>2, <3>3, <1>1 DEF ConservedOK
  <2> QED BY <2>1, <2>2
<1>12. ConservedOK(n + 1, g, p)
  BY <1>9, <1>10, <1>11 DEF ConservedOK
<1> QED BY <1>4, <1>12 DEF Conserved, p

-----------------------------------------------------------------------------
Ring(bf, h, t) == [k \in 0 .. Count(h, t) - 1 |-> bf[Entry(h, k)]]

Handles(C, lv, H) == \A r \in Slots : lv[r] => Handle(C, H[r])

Shape ==
    /\ active_read_job_ \in [1 .. ConnSlots -> 0 .. RecvSlots] /\ handler_ \in [Slots -> Handlers]
    /\ bufs \in [Buffers -> Buffers] /\ tail \in 0 .. TailMod - 1 /\ head \in 0 .. TailMod - 1

(***************************************************************************)
(* The inductive invariant: the free lists, the handles, the jobs and the  *)
(* buffers. Only the handles are stronger than what is to be shown: that a *)
(* generation never runs ahead of its slot's, nor a tenant ahead of the    *)
(* count of allocations, is what makes the next tenant a new one.          *)
(***************************************************************************)
RecvInv ==
    /\ Shape /\ PoolOK(conns, ConnSlots) /\ PoolOK(recvs, RecvSlots)
    /\ Jobs(recvs.live_, recvs.tenant, armed, cq)
    /\ Handles(conns, recvs.live_, handler_)
    /\ Conserved(Count(head, tail), Ring(bufs, head, tail), cq)

\* The invariant says what the five properties say.
LEMMA RecvInvImplies ==
  RecvInv => TypeOK /\ PoolsExact /\ HandleExact /\ JobOutlivesCompletions /\ BuffersConserved
<1> SUFFICES ASSUME RecvInv
             PROVE  TypeOK /\ PoolsExact /\ HandleExact /\ JobOutlivesCompletions /\ BuffersConserved
  OBVIOUS
<1>1. /\ Shape /\ PoolType(conns, ConnSlots) /\ PoolType(recvs, RecvSlots)
      /\ ListExact(conns) /\ ListExact(recvs)
      /\ JobsType(recvs.live_, recvs.tenant, armed, cq) /\ JobsOK(recvs.live_, recvs.tenant, armed, cq)
  BY DEF RecvInv, PoolOK, Jobs
<1>2. TypeOK
  BY <1>1 DEF TypeOK, Shape, JobsType, Slots
<1>3. PoolsExact
  BY <1>1 DEF PoolsExact
<1>4. DOMAIN recvs.live_ = Slots /\ Live(recvs) = {s \in Slots : recvs.live_[s]}
  BY <1>1 DEF JobsType, Live
<1>5. HandleExact
  <2> SUFFICES ASSUME NEW r \in Live(recvs)
               PROVE  Valid(r) <=> /\ conns.live_[handler_[r].connection]
                                   /\ conns.tenant[handler_[r].connection] = handler_[r].tenant
    BY DEF HandleExact
  <2>1. Handle(conns, handler_[r])
    BY <1>4 DEF RecvInv, Handles
  <2> QED BY Zenon, <2>1, HandleValid DEF Valid
<1>6. JobOutlivesCompletions
  BY <1>1, <1>4 DEF JobsOK, JobOutlivesCompletions, Final, JobsType
<1>7. BuffersConserved
  <2> DEFINE n == Count(head, tail)  f == Ring(bufs, head, tail)
  <2>1. ConservedType(n, f, cq) /\ ConservedOK(n, f, cq)
    BY DEF RecvInv, Conserved
  <2>2. n \in Nat /\ n <= buf_count /\ head \in Int
    BY <1>1, <2>1, BufferAssumption DEF ConservedType, Shape
  <2>3. \A k \in 0 .. n - 1 : f[k] = bufs[Entry(head, k)]
    BY DEF Ring
  <2>4. InRing = {Entry(head, k) : k \in 0 .. n - 1}
    BY DEF InRing, Entry, Count
  <2>5. (tail - head) % TailMod = n
    BY DEF Count
  <2> HIDE DEF n, f
  <2>6. \A i, j \in InRing : bufs[i] = bufs[j] => i = j
    BY <2>1, <2>3, <2>4 DEF ConservedOK
  <2>7. \A i, j \in Waiting : cq[i].buffer = cq[j].buffer => i = j
    BY <2>1 DEF ConservedOK, Waiting
  <2>8. ASSUME NEW b \in Buffers
        PROVE  (\E i \in InRing : bufs[i] = b) <=> ~ \E i \in Waiting : cq[i].buffer = b
    <3>1. b # NoBuffer
      BY BufferAssumption DEF Buffers, NoBuffer
    <3>2. (\E i \in Waiting : cq[i].buffer = b) <=> \E i \in 1 .. Len(cq) : cq[i].buffer = b
      BY <3>1 DEF Waiting
    <3>3. (\E i \in InRing : bufs[i] = b) <=> \E k \in 0 .. n - 1 : f[k] = b
      BY <2>3, <2>4
    <3> QED BY <3>2, <3>3, <2>1 DEF ConservedOK
  <2> QED BY <2>2, <2>5, <2>6, <2>7, <2>8 DEF BuffersConserved
<1> QED BY <1>2, <1>3, <1>5, <1>6, <1>7

\* The pools, the ring and everything else as the constructors leave them.
LEMMA RecvInit == Init => RecvInv
<1> SUFFICES ASSUME Init PROVE RecvInv
  OBVIOUS
<1>0. buf_count \in Nat \ {0} /\ TailMod \in Nat /\ buf_count < TailMod /\ ConnSlots \in Nat /\ RecvSlots \in Nat
  BY BufferAssumption
<1>1. PoolOK(conns, ConnSlots) /\ PoolOK(recvs, RecvSlots)
  BY <1>0, NewPoolOK DEF Init
<1>2. /\ recvs.live_ \in [Slots -> BOOLEAN] /\ recvs.tenant \in [Slots -> Nat]
      /\ \A r \in Slots : ~recvs.live_[r]
  BY <1>0 DEF Init, NewPool, Slots
<1>3. armed = {} /\ cq = << >> /\ Len(cq) = 0 /\ cq \in Seq(Completions)
  BY DEF Init
<1>4. Jobs(recvs.live_, recvs.tenant, armed, cq)
  BY <1>2, <1>3 DEF Jobs, JobsType, JobsOK
<1>5. Handles(conns, recvs.live_, handler_)
  BY <1>2 DEF Handles
<1>6. Shape
  <2>1. NoHandler \in Handlers
    BY <1>0 DEF NoHandler, Handlers, NullSlot
  <2>2. handler_ \in [Slots -> Handlers]
    BY <2>1 DEF Init, Slots
  <2>3. active_read_job_ \in [1 .. ConnSlots -> 0 .. RecvSlots]
    BY <1>0 DEF Init, NullSlot
  <2>4. bufs \in [Buffers -> Buffers] /\ tail \in 0 .. TailMod - 1 /\ head \in 0 .. TailMod - 1
    BY <1>0 DEF Init
  <2> QED BY <2>2, <2>3, <2>4 DEF Shape
<1>7. Conserved(Count(head, tail), Ring(bufs, head, tail), cq)
  <2>1. head = 0 /\ tail = buf_count /\ bufs = [i \in Buffers |-> i]
    BY DEF Init
  <2>2. Count(head, tail) = buf_count
    <3>1. (tail - head) % TailMod = IF head <= tail THEN tail - head ELSE tail - head + TailMod
      <4>1. TailMod \in Nat \ {0} /\ head \in 0 .. TailMod - 1 /\ tail \in 0 .. TailMod - 1
        BY <1>0, <1>6 DEF Shape
      <4> QED BY <4>1, Distance
    <3> QED BY <3>1, <2>1, <1>0 DEF Count
  <2>3. \A k \in 0 .. buf_count - 1 : Entry(head, k) = k
    <3> SUFFICES ASSUME NEW k \in 0 .. buf_count - 1 PROVE Entry(head, k) = k
      OBVIOUS
    <3>1. head + k = buf_count * 0 + k /\ head + k \in Int
      BY <1>0, <2>1
    <3> QED BY <3>1, <1>0, ModIs DEF Entry
  <2> DEFINE f == Ring(bufs, head, tail)
  <2>4. f \in [0 .. buf_count - 1 -> Buffers] /\ \A k \in 0 .. buf_count - 1 : f[k] = k
    BY <2>1, <2>2, <2>3 DEF Ring, Buffers
  <2> HIDE DEF f
  <2>5. ConservedType(buf_count, f, cq) /\ ConservedOK(buf_count, f, cq)
    BY <1>0, <1>3, <2>4 DEF ConservedType, ConservedOK, Buffers
  <2> QED BY <2>2, <2>5 DEF Conserved, f
<1> QED BY <1>1, <1>4, <1>5, <1>6, <1>7 DEF RecvInv

-----------------------------------------------------------------------------
\* What an action needs of the invariant, in pieces.
LEMMA RecvInvParts ==
  ASSUME RecvInv
  PROVE  /\ active_read_job_ \in [1 .. ConnSlots -> 0 .. RecvSlots] /\ handler_ \in [Slots -> Handlers]
         /\ bufs \in [Buffers -> Buffers] /\ tail \in 0 .. TailMod - 1 /\ head \in 0 .. TailMod - 1
         /\ recvs.live_ \in [Slots -> BOOLEAN] /\ recvs.tenant \in [Slots -> Nat]
         /\ armed \subseteq Slots /\ cq \in Seq(Completions)
         /\ \A r \in armed : recvs.live_[r]
BY DEF RecvInv, Shape, Jobs, JobsType, JobsOK

\* A completion is of a live job.
LEMMA CompletionLive ==
  ASSUME RecvInv, NEW r \in Slots, NEW data, NEW more, CompletionIs(r, data, more)
  PROVE  cq # << >> /\ cq[1].job = r /\ recvs.live_[r] /\ Handle(conns, handler_[r])
<1>1. cq # << >> /\ cq[1].job = r
  BY DEF CompletionIs
<1>2. 1 \in 1 .. Len(cq)
  BY <1>1, RecvInvParts, CqTail
<1>3. recvs.live_[r]
  BY <1>1, <1>2 DEF RecvInv, Jobs, JobsOK
<1> QED BY <1>1, <1>3 DEF RecvInv, Handles

\* The handler's calls keep the connections' pool and every handle.
LEMMA CalledKeeps ==
  ASSUME RecvInv, NEW r \in Slots, recvs.live_[r], NEW closes \in BOOLEAN, NEW over \in BOOLEAN,
         Called(r, closes, over)
  PROVE  /\ PoolOK(conns', ConnSlots) /\ active_read_job_' \in [1 .. ConnSlots -> 0 .. RecvSlots]
         /\ \A h \in Handlers : Handle(conns, h) => Handle(conns', h)
<1> DEFINE c == handler_[r].connection  a == [active_read_job_ EXCEPT ![c] = NullSlot]
<1>1. PoolOK(conns, ConnSlots) /\ Handle(conns, handler_[r])
  BY DEF RecvInv, Handles
<1>2. active_read_job_ \in [1 .. ConnSlots -> 0 .. RecvSlots] /\ ConnSlots \in Nat /\ RecvSlots \in Nat
  BY RecvInvParts, BufferAssumption
<1>3. CASE ~Valid(r)
  BY <1>1, <1>2, <1>3 DEF Called
<1>4. CASE Valid(r)
  <2>1. c \in 1 .. ConnSlots /\ conns.live_[c]
    BY <1>1, <1>4 DEF Handle, Valid, isLive
  <2>2. conns' = (IF closes THEN deallocate(conns, c) ELSE conns)
    BY <1>4 DEF Called
  <2>3. active_read_job_' = IF closes \/ over THEN a ELSE active_read_job_
    BY <1>4 DEF Called
  <2>4. a \in [1 .. ConnSlots -> 0 .. RecvSlots]
    <3>1. NullSlot \in 0 .. RecvSlots
      BY <1>2 DEF NullSlot
    <3> QED BY Zenon, <3>1, <2>1, <1>2, Write
  <2>5. PoolOK(deallocate(conns, c), ConnSlots)
    BY <1>1, <1>2, <2>1, DeallocateOK
  <2>6. \A h \in Handlers : Handle(conns, h) => Handle(deallocate(conns, c), h)
    BY <1>1, <2>1, DeallocateHandle
  <2> HIDE DEF a, c
  <2> QED BY <1>1, <1>2, <2>2, <2>3, <2>4, <2>5, <2>6
<1> QED BY <1>3, <1>4

\* The token's destructor gives the buffer back.
LEMMA RecycleKeeps ==
  ASSUME RecvInv, NEW r \in Slots, NEW more, CompletionIs(r, TRUE, more), recycleBuffer(r), head' = head
  PROVE  /\ bufs' \in [Buffers -> Buffers] /\ tail' \in 0 .. TailMod - 1
         /\ Conserved(Count(head', tail'), Ring(bufs', head', tail'), cq')
<1> DEFINE x == cq[1].buffer  n == Count(head, tail)  f == Ring(bufs, head, tail)
           g == Ring(bufs', head, tail')  e == tail % buf_count
<1>1. cq # << >> /\ x # NoBuffer /\ cq' = Tail(cq)
  BY DEF CompletionIs
<1>2. Conserved(n, f, cq)
  BY DEF RecvInv
<1>3. n < buf_count /\ x \in Buffers
  BY <1>1, <1>2, RoomToGive
<1>4. bufs' = [bufs EXCEPT ![e] = x] /\ tail' = (tail + 1) % TailMod
  BY DEF recycleBuffer
<1>5. bufs \in [Buffers -> Buffers] /\ tail \in 0 .. TailMod - 1 /\ head \in 0 .. TailMod - 1
  BY RecvInvParts
<1>6. /\ n \in Nat /\ Count(head, tail') = n + 1 /\ tail' \in 0 .. TailMod - 1
      /\ Entry(head, n) = e /\ \A k \in 0 .. n - 1 : Entry(head, k) # e
  BY <1>3, <1>4, <1>5, GiveEntry
<1>7. \A k \in Nat : Entry(head, k) \in Buffers
  <2>1. buf_count \in Nat \ {0} /\ TailMod \in Nat
    BY BufferAssumption
  <2> SUFFICES ASSUME NEW k \in Nat PROVE Entry(head, k) \in Buffers
    OBVIOUS
  <2>2. head + k \in Int
    BY <1>5, <2>1
  <2> QED BY <2>1, <2>2, Division DEF Entry, Buffers
<1>8. e \in Buffers
  BY <1>6, <1>7
<1>9. bufs' \in [Buffers -> Buffers] /\ bufs'[e] = x /\ \A y \in Buffers : y # e => bufs'[y] = bufs[y]
  <2> HIDE DEF e, x
  <2>1. LET w == [bufs EXCEPT ![e] = x]
        IN  w \in [Buffers -> Buffers] /\ w[e] = x /\ \A y \in Buffers : y # e => w[y] = bufs[y]
    BY Zenon, <1>3, <1>5, <1>8, Write
  <2> QED BY Zenon, <1>4, <2>1
<1> HIDE DEF n, e, x
<1>10. \A k \in 0 .. (n + 1) - 1 : g[k] = bufs'[Entry(head, k)]
  BY <1>6 DEF Ring
<1>11. \A k \in 0 .. (n + 1) - 1 : k \in Nat
  BY <1>6
<1>12. g \in [0 .. (n + 1) - 1 -> Buffers]
  BY <1>6, <1>7, <1>9, <1>11 DEF Ring
<1>13. \A k \in 0 .. n - 1 : f[k] = bufs[Entry(head, k)]
  BY DEF Ring, n
<1> HIDE DEF f, g
<1>14. g[n] = x
  <2>1. n \in 0 .. (n + 1) - 1
    BY <1>6
  <2> QED BY <2>1, <1>6, <1>9, <1>10
<1>15. ASSUME NEW k \in 0 .. n - 1 PROVE g[k] = f[k]
  <2>1. k \in Nat /\ k \in 0 .. (n + 1) - 1
    BY <1>6
  <2>2. Entry(head, k) \in Buffers /\ Entry(head, k) # e
    BY <2>1, <1>6, <1>7
  <2> QED BY <2>1, <2>2, <1>9, <1>10, <1>13
<1>16. Conserved(n + 1, g, Tail(cq))
  BY <1>1, <1>2, <1>12, <1>14, <1>15, GiveConserves DEF x
<1> QED BY <1>1, <1>6, <1>9, <1>16 DEF g

\* A completion without a buffer leaves the ring alone.
LEMMA NothingToRecycle ==
  ASSUME RecvInv, NEW r \in Slots, NEW more, CompletionIs(r, FALSE, more), UNCHANGED <<bufs, tail, head>>
  PROVE  Conserved(Count(head', tail'), Ring(bufs', head', tail'), cq')
<1>1. cq # << >> /\ cq[1].buffer = NoBuffer /\ cq' = Tail(cq) /\ bufs' = bufs /\ tail' = tail /\ head' = head
  BY DEF CompletionIs
<1>2. Conserved(Count(head, tail), Ring(bufs, head, tail), cq)
  BY DEF RecvInv
<1> QED BY <1>1, <1>2, TakeNoneConserves

-----------------------------------------------------------------------------
\* Handles stay good when the connections' pool keeps them and no job is new.
LEMMA HandlesKept ==
  ASSUME NEW C, NEW D, NEW lv, NEW l, NEW H \in [Slots -> Handlers], Handles(C, lv, H),
         \A h \in Handlers : Handle(C, h) => Handle(D, h),
         \A r \in Slots : l[r] => lv[r]
  PROVE  Handles(D, l, H)
BY DEF Handles

\* The job goes back to its pool, by the cleanup callback of its last completion.
LEMMA CleanupKeeps ==
  ASSUME RecvInv, NEW r \in Slots, NEW data, CompletionIs(r, data, FALSE), cleanupMultishotRecvJob(r),
         armed' = armed
  PROVE  /\ PoolOK(recvs', RecvSlots) /\ Jobs(recvs'.live_, recvs'.tenant, armed', cq')
         /\ \A s \in Slots : recvs'.live_[s] => recvs.live_[s]
<1>1. cq # << >> /\ cq[1].job = r /\ recvs.live_[r]
  BY CompletionLive
<1>2. ~cq[1].more /\ cq' = Tail(cq)
  BY DEF CompletionIs
<1>3. recvs' = deallocate(recvs, r)
  BY DEF cleanupMultishotRecvJob
<1>4. /\ PoolOK(recvs', RecvSlots) /\ recvs'.live_ = [recvs.live_ EXCEPT ![r] = FALSE]
      /\ recvs'.tenant = recvs.tenant
  <2>1. PoolOK(recvs, RecvSlots) /\ r \in 1 .. RecvSlots /\ RecvSlots \in Nat
    BY BufferAssumption DEF RecvInv, Slots
  <2>2. PoolOK(deallocate(recvs, r), RecvSlots)
    BY <2>1, <1>1, DeallocateOK
  <2>3. /\ deallocate(recvs, r).live_ = [recvs.live_ EXCEPT ![r] = FALSE]
        /\ deallocate(recvs, r).tenant = recvs.tenant
    BY DEF deallocate
  <2> QED BY <2>2, <2>3, <1>3
<1>5. LastTaken(recvs.live_, recvs.tenant, armed, Tail(cq), r)
  BY <1>1, <1>2, JobsLast DEF RecvInv
<1>6. Jobs(recvs'.live_, recvs'.tenant, armed', cq')
  <2>1. Jobs([recvs.live_ EXCEPT ![r] = FALSE], recvs.tenant, armed, Tail(cq))
    BY <1>5, JobsFree
  <2> QED BY <2>1, <1>2, <1>4
<1>7. \A s \in Slots : recvs'.live_[s] => recvs.live_[s]
  BY <1>4, RecvInvParts
<1> QED BY <1>4, <1>6, <1>7

\* The job goes on after a completion that is not its last.
LEMMA GoesOnKeeps ==
  ASSUME RecvInv, NEW r \in Slots, NEW data, CompletionIs(r, data, TRUE), UNCHANGED <<recvs, armed>>
  PROVE  /\ PoolOK(recvs', RecvSlots) /\ Jobs(recvs'.live_, recvs'.tenant, armed', cq')
         /\ \A s \in Slots : recvs'.live_[s] => recvs.live_[s]
<1>1. cq # << >> /\ cq[1].more /\ cq' = Tail(cq) /\ recvs' = recvs /\ armed' = armed
  BY DEF CompletionIs
<1>2. Jobs(recvs.live_, recvs.tenant, armed, cq) /\ PoolOK(recvs, RecvSlots)
  BY DEF RecvInv
<1> QED BY <1>1, <1>2, JobsTake

\* The four ways of MultishotRecvJob::handleCompletion() that call the handler.
LEMMA CompletionKeeps ==
  ASSUME RecvInv, NEW r \in Slots, NEW closes \in BOOLEAN,
         ErrorGoesOn(r, closes) \/ ErrorEnds(r, closes) \/ DataGoesOn(r, closes) \/ DataEnds(r, closes)
  PROVE  RecvInv'
<1>1. PICK data \in BOOLEAN, more \in BOOLEAN, over \in BOOLEAN :
        /\ CompletionIs(r, data, more) /\ Called(r, closes, over)
        /\ handler_' = handler_ /\ head' = head /\ armed' = armed
        /\ IF data THEN recycleBuffer(r) ELSE bufs' = bufs /\ tail' = tail
        /\ IF more THEN recvs' = recvs ELSE cleanupMultishotRecvJob(r)
  BY Zenon DEF ErrorGoesOn, ErrorEnds, DataGoesOn, DataEnds
<1>2. recvs.live_[r]
  BY <1>1, CompletionLive
<1>3. /\ PoolOK(conns', ConnSlots) /\ active_read_job_' \in [1 .. ConnSlots -> 0 .. RecvSlots]
      /\ \A h \in Handlers : Handle(conns, h) => Handle(conns', h)
  BY <1>1, <1>2, CalledKeeps
<1>4. /\ bufs' \in [Buffers -> Buffers] /\ tail' \in 0 .. TailMod - 1
      /\ Conserved(Count(head', tail'), Ring(bufs', head', tail'), cq')
  <2>1. CASE data = TRUE
    BY <1>1, <2>1, RecycleKeeps
  <2>2. CASE data = FALSE
    <3>1. bufs' = bufs /\ tail' = tail /\ head' = head /\ CompletionIs(r, FALSE, more)
      BY <1>1, <2>2
    <3>2. bufs' \in [Buffers -> Buffers] /\ tail' \in 0 .. TailMod - 1
      BY <3>1, RecvInvParts
    <3> QED BY <3>1, <3>2, NothingToRecycle
  <2> QED BY <2>1, <2>2
<1>5. /\ PoolOK(recvs', RecvSlots) /\ Jobs(recvs'.live_, recvs'.tenant, armed', cq')
      /\ \A s \in Slots : recvs'.live_[s] => recvs.live_[s]
  <2>1. CASE more = TRUE
    BY <1>1, <2>1, GoesOnKeeps
  <2>2. CASE more = FALSE
    BY <1>1, <2>2, CleanupKeeps
  <2> QED BY <2>1, <2>2
<1>6. handler_ \in [Slots -> Handlers] /\ handler_' = handler_ /\ head' \in 0 .. TailMod - 1
  BY <1>1, RecvInvParts
<1>7. Handles(conns', recvs'.live_, handler_')
  <2>1. Handles(conns, recvs.live_, handler_)
    BY DEF RecvInv
  <2>2. Handles(conns', recvs'.live_, handler_)
    BY <2>1, <1>3, <1>5, <1>6, HandlesKept
  <2> QED BY <2>2, <1>6
<1>8. Shape'
  BY <1>3, <1>4, <1>6 DEF Shape
<1> QED BY <1>3, <1>4, <1>5, <1>7, <1>8 DEF RecvInv

\* The job is armed again when its connection wants more.
LEMMA RearmKeeps == ASSUME RecvInv, NEW r \in Slots, DataRearms(r) PROVE RecvInv'
<1>1. /\ CompletionIs(r, TRUE, FALSE) /\ recycleBuffer(r) /\ head' = head /\ armed' = armed \cup {r}
      /\ conns' = conns /\ recvs' = recvs /\ active_read_job_' = active_read_job_ /\ handler_' = handler_
  BY DEF DataRearms
<1>2. /\ bufs' \in [Buffers -> Buffers] /\ tail' \in 0 .. TailMod - 1
      /\ Conserved(Count(head', tail'), Ring(bufs', head', tail'), cq')
  BY <1>1, RecycleKeeps
<1>3. cq # << >> /\ cq[1].job = r /\ ~cq[1].more /\ cq' = Tail(cq)
  BY <1>1 DEF CompletionIs
<1>4. LastTaken(recvs.live_, recvs.tenant, armed, Tail(cq), r)
  BY <1>3, JobsLast DEF RecvInv
<1>5. Jobs(recvs'.live_, recvs'.tenant, armed', cq')
  BY <1>1, <1>3, <1>4, JobsRearm
<1>6. Shape'
  BY <1>1, <1>2, RecvInvParts DEF Shape
<1>7. /\ PoolOK(conns', ConnSlots) /\ PoolOK(recvs', RecvSlots)
      /\ Handles(conns', recvs'.live_, handler_')
  BY <1>1 DEF RecvInv
<1> QED BY <1>2, <1>5, <1>6, <1>7 DEF RecvInv

\* The kernel posts a completion, with a buffer or without.
LEMMA PostKeeps ==
  ASSUME RecvInv, NEW r \in Slots, NEW more \in BOOLEAN, PostData(r, more) \/ PostError(r, more)
  PROVE  RecvInv'
<1>1. PICK b \in {bufs[head % buf_count], NoBuffer} :
        /\ Post(r, b, more)
        /\ \/ b = bufs[head % buf_count] /\ head # tail /\ head' = (head + 1) % TailMod
           \/ b = NoBuffer /\ head' = head
  BY DEF PostData, PostError
<1> DEFINE e == [job |-> r, tenant |-> recvs.tenant[r], buffer |-> b, more |-> more]
<1>2. /\ r \in armed /\ cq' = Append(cq, e) /\ armed' = IF more THEN armed ELSE armed \ {r}
      /\ conns' = conns /\ recvs' = recvs /\ active_read_job_' = active_read_job_ /\ handler_' = handler_
      /\ bufs' = bufs /\ tail' = tail
  BY <1>1 DEF Post
<1>3. /\ bufs \in [Buffers -> Buffers] /\ tail \in 0 .. TailMod - 1 /\ head \in 0 .. TailMod - 1
      /\ buf_count \in Nat \ {0} /\ TailMod \in Nat
  BY RecvInvParts, BufferAssumption
<1>4. head % buf_count \in Buffers /\ Entry(head, 0) = head % buf_count
  <2>1. head \in Int /\ head + 0 = head
    BY <1>3
  <2>2. head % buf_count \in Buffers
    BY <1>3, <2>1, Division DEF Buffers
  <2> QED BY <2>1, <2>2 DEF Entry
<1>5. e \in Completions
  <2>1. recvs.tenant[r] \in Nat
    BY RecvInvParts
  <2>2. b \in Buffers \cup {NoBuffer}
    BY <1>3, <1>4
  <2> QED BY <2>1, <2>2 DEF Completions, Slots
<1>6. e.job = r /\ e.tenant = recvs.tenant[r] /\ e.buffer = b /\ e.more = more
  OBVIOUS
<1> HIDE DEF e
<1>7. Jobs(recvs'.live_, recvs'.tenant, armed', cq')
  <2>1. Jobs(recvs.live_, recvs.tenant, IF e.more THEN armed ELSE armed \ {e.job}, Append(cq, e))
    BY <1>2, <1>5, <1>6, JobsPost DEF RecvInv
  <2> QED BY <2>1, <1>2, <1>6
<1> DEFINE n == Count(head, tail)  f == Ring(bufs, head, tail)  g == Ring(bufs, head', tail)
<1>8. Conserved(n, f, cq)
  BY DEF RecvInv
<1>9. head' \in 0 .. TailMod - 1 /\ Conserved(Count(head', tail'), Ring(bufs', head', tail'), cq')
  <2>1. CASE b = NoBuffer /\ head' = head
    BY <2>1, <1>2, <1>3, <1>5, <1>6, <1>8, PostNoneConserves
  <2>2. CASE b = bufs[head % buf_count] /\ head # tail /\ head' = (head + 1) % TailMod
    <3>1. /\ n \in Nat /\ n >= 1 /\ Count(head', tail) = n - 1 /\ head' \in 0 .. TailMod - 1
          /\ \A k \in Nat : Entry(head', k) = Entry(head, k + 1)
      BY <2>2, <1>3, TakeEntry
    <3>2. \A k \in 0 .. n - 1 : f[k] = bufs[Entry(head, k)]
      BY DEF Ring
    <3>3. f \in [0 .. n - 1 -> Buffers]
      BY <1>8 DEF Conserved, ConservedType
    <3> HIDE DEF n
    <3>4. \A k \in 0 .. (n - 1) - 1 : g[k] = bufs[Entry(head', k)]
      BY <3>1 DEF Ring
    <3>5. \A k \in 0 .. (n - 1) - 1 : k \in Nat /\ k + 1 \in 0 .. n - 1
      BY <3>1
    <3>6. \A k \in 0 .. (n - 1) - 1 : g[k] = f[k + 1]
      BY <3>1, <3>2, <3>4, <3>5
    <3>7. g \in [0 .. (n - 1) - 1 -> Buffers]
      <4>1. g = [k \in 0 .. (n - 1) - 1 |-> bufs[Entry(head', k)]]
        BY <3>1 DEF Ring
      <4>2. \A k \in 0 .. (n - 1) - 1 : bufs[Entry(head', k)] \in Buffers
        BY <3>3, <3>4, <3>5, <3>6
      <4> HIDE DEF g
      <4> QED BY <4>1, <4>2
    <3>8. f[0] = b
      <4>1. 0 \in 0 .. n - 1
        BY <3>1
      <4> QED BY <4>1, <3>2, <2>2, <1>4
    <3> HIDE DEF f, g
    <3>9. Conserved(n - 1, g, Append(cq, e))
      BY <3>1, <3>6, <3>7, <3>8, <1>5, <1>6, <1>8, PostConserves
    <3> QED BY <3>1, <3>9, <1>2 DEF g
  <2> QED BY <1>1, <2>1, <2>2
<1>10. Shape'
  BY <1>2, <1>9, RecvInvParts DEF Shape
<1>11. /\ PoolOK(conns', ConnSlots) /\ PoolOK(recvs', RecvSlots)
       /\ Handles(conns', recvs'.live_, handler_')
  BY <1>2 DEF RecvInv
<1> QED BY <1>7, <1>9, <1>10, <1>11 DEF RecvInv

-----------------------------------------------------------------------------
\* A connection closes by itself.
LEMMA CloseKeeps == ASSUME RecvInv, NEW c \in 1 .. ConnSlots, Close(c) PROVE RecvInv'
<1>1. /\ conns' = deallocate(conns, c) /\ active_read_job_' = [active_read_job_ EXCEPT ![c] = NullSlot]
      /\ recvs' = recvs /\ handler_' = handler_ /\ armed' = armed /\ bufs' = bufs /\ tail' = tail
      /\ head' = head /\ cq' = cq
  BY DEF Close
<1>2. conns.live_[c] /\ PoolOK(conns, ConnSlots) /\ ConnSlots \in Nat /\ RecvSlots \in Nat
  BY BufferAssumption DEF Close, Live, RecvInv
<1>3. PoolOK(conns', ConnSlots)
  BY <1>1, <1>2, DeallocateOK
<1>4. \A h \in Handlers : Handle(conns, h) => Handle(conns', h)
  BY <1>1, <1>2, DeallocateHandle
<1>5. active_read_job_' \in [1 .. ConnSlots -> 0 .. RecvSlots]
  <2>1. NullSlot \in 0 .. RecvSlots /\ active_read_job_ \in [1 .. ConnSlots -> 0 .. RecvSlots]
    BY <1>2, RecvInvParts DEF NullSlot
  <2> QED BY <1>1, <2>1
<1>6. Shape'
  BY <1>1, <1>5, RecvInvParts DEF Shape
<1>7. Handles(conns', recvs'.live_, handler_')
  <2>1. Handles(conns, recvs.live_, handler_) /\ handler_ \in [Slots -> Handlers]
    BY RecvInvParts DEF RecvInv
  <2>2. Handles(conns', recvs.live_, handler_)
    BY <2>1, <1>4, HandlesKept
  <2> QED BY <1>1, <2>2
<1>8. /\ PoolOK(recvs', RecvSlots) /\ Jobs(recvs'.live_, recvs'.tenant, armed', cq')
      /\ Conserved(Count(head', tail'), Ring(bufs', head', tail'), cq')
  BY <1>1 DEF RecvInv
<1> QED BY <1>3, <1>6, <1>7, <1>8 DEF RecvInv

\* A connection is allocated, and a recv job for it: armed, or given back.
LEMMA CreateKeeps == ASSUME RecvInv, NEW sqe \in BOOLEAN, createConnectionHandler(sqe) PROVE RecvInv'
<1> DEFINE c == allocated(conns)  r == allocated(recvs)
           h == [connection |-> c, connection_gen |-> generationOf(conns', c), tenant |-> conns'.tenant[c]]
<1>0. ConnSlots \in Nat /\ RecvSlots \in Nat
  BY BufferAssumption
<1>1. /\ ~Exhausted(conns) /\ conns' = allocate(conns) /\ startReading(c, sqe)
      /\ bufs' = bufs /\ tail' = tail /\ head' = head /\ cq' = cq
  BY DEF createConnectionHandler
<1>2. /\ PoolOK(conns, ConnSlots) /\ PoolOK(recvs, RecvSlots) /\ conns.allocs \in Nat
      /\ conns.live_ \in [1 .. ConnSlots -> BOOLEAN] /\ conns.tenant \in [1 .. ConnSlots -> Nat]
      /\ Jobs(recvs.live_, recvs.tenant, armed, cq)
  BY DEF RecvInv, PoolOK, PoolType
<1>3. /\ PoolOK(conns', ConnSlots) /\ c \in 1 .. ConnSlots
      /\ conns'.live_ = [conns.live_ EXCEPT ![c] = TRUE]
      /\ conns'.tenant = [conns.tenant EXCEPT ![c] = conns.allocs + 1] /\ conns'.allocs = conns.allocs + 1
  BY <1>0, <1>1, <1>2, AllocateOK
<1>4. \A g \in Handlers : Handle(conns, g) => Handle(conns', g)
  BY <1>1, <1>2, AllocateHandle
<1>5. h \in Handlers /\ Handle(conns', h)
  <2>1. conns'.live_[c] /\ conns'.tenant[c] = conns.allocs + 1
    <3>1. [conns.live_ EXCEPT ![c] = TRUE][c]
      BY <1>2, <1>3
    <3>2. [conns.tenant EXCEPT ![c] = conns.allocs + 1][c] = conns.allocs + 1
      BY <1>2, <1>3
    <3> QED BY Zenon, <1>3, <3>1, <3>2
  <2>2. conns'.tenant[c] <= conns'.allocs
    <3>1. conns.allocs + 1 \in Nat
      BY <1>2
    <3>2. conns'.tenant[c] = conns.allocs + 1 /\ conns'.allocs = conns.allocs + 1
      BY <2>1, <1>3
    <3> QED BY <3>1, <3>2
  <2> QED BY <1>3, <2>1, <2>2, NewHandle DEF generationOf
<1>6. Handles(conns', recvs.live_, handler_) /\ handler_ \in [Slots -> Handlers]
  <2>1. Handles(conns, recvs.live_, handler_) /\ handler_ \in [Slots -> Handlers]
    BY RecvInvParts DEF RecvInv
  <2> QED BY <2>1, <1>4, HandlesKept
<1>7. active_read_job_ \in [1 .. ConnSlots -> 0 .. RecvSlots] /\ NullSlot \in 0 .. RecvSlots
  <2>1. NullSlot \in 0 .. RecvSlots
    BY <1>0 DEF NullSlot
  <2> QED BY <2>1, RecvInvParts
<1>8. Conserved(Count(head', tail'), Ring(bufs', head', tail'), cq')
  BY <1>1 DEF RecvInv
<1> HIDE DEF c, h
<1>9. CASE Exhausted(recvs)
  <2>1. /\ active_read_job_' = [active_read_job_ EXCEPT ![c] = NullSlot]
        /\ recvs' = recvs /\ handler_' = handler_ /\ armed' = armed
    BY <1>1, <1>9 DEF startReading
  <2>2. active_read_job_' \in [1 .. ConnSlots -> 0 .. RecvSlots]
    BY <1>7, <2>1
  <2>3. Shape'
    BY <1>1, <2>1, <2>2, RecvInvParts DEF Shape
  <2> QED BY <1>1, <1>2, <1>3, <1>6, <1>8, <2>1, <2>3 DEF RecvInv
<1>10. CASE ~Exhausted(recvs)
  <2>1. /\ recvs' = IF sqe THEN allocate(recvs) ELSE deallocate(allocate(recvs), r)
        /\ handler_' = [handler_ EXCEPT ![r] = h]
        /\ armed' = IF sqe THEN armed \cup {r} ELSE armed
        /\ active_read_job_' = [active_read_job_ EXCEPT ![c] = IF sqe THEN r ELSE NullSlot]
    BY <1>1, <1>10 DEF startReading, h
  <2> DEFINE Q == allocate(recvs)
  <2>2. /\ PoolOK(Q, RecvSlots) /\ r \in 1 .. RecvSlots /\ ~recvs.live_[r]
        /\ Q.live_ = [recvs.live_ EXCEPT ![r] = TRUE] /\ Q.tenant = [recvs.tenant EXCEPT ![r] = recvs.allocs + 1]
    BY <1>0, <1>2, <1>10, AllocateOK
  <2>3. recvs.live_ \in [Slots -> BOOLEAN] /\ recvs.tenant \in [Slots -> Nat] /\ r \in Slots
    BY <2>2, RecvInvParts DEF Slots
  <2>4. recvs.allocs \in Nat /\ recvs.allocs + 1 \in Nat
    <3>1. recvs.allocs \in Nat
      BY <1>2 DEF PoolOK, PoolType
    <3> QED BY <3>1
  <2> HIDE DEF r
  <2>5. Q.live_[r]
    <3>1. [recvs.live_ EXCEPT ![r] = TRUE][r]
      BY <2>3
    <3> QED BY Zenon, <2>2, <3>1
  <2>6. /\ PoolOK(deallocate(Q, r), RecvSlots) /\ deallocate(Q, r).live_ = [Q.live_ EXCEPT ![r] = FALSE]
        /\ deallocate(Q, r).tenant = Q.tenant
    <3>1. PoolOK(deallocate(Q, r), RecvSlots)
      BY <1>0, <2>2, <2>5, DeallocateOK
    <3> QED BY <3>1 DEF deallocate
  <2>7. /\ Jobs(Q.live_, Q.tenant, armed \cup {r}, cq)
        /\ Jobs(deallocate(Q, r).live_, deallocate(Q, r).tenant, armed, cq)
    <3> DEFINE l == [recvs.live_ EXCEPT ![r] = TRUE]  t == [recvs.tenant EXCEPT ![r] = recvs.allocs + 1]
    <3>1. Jobs(l, t, armed \cup {r}, cq) /\ Jobs([l EXCEPT ![r] = FALSE], t, armed, cq)
      BY <1>2, <2>2, <2>3, <2>4, JobsNew
    <3>2. Q.live_ = l /\ Q.tenant = t /\ deallocate(Q, r).live_ = [l EXCEPT ![r] = FALSE] /\ deallocate(Q, r).tenant = t
      BY <2>2, <2>6
    <3> HIDE DEF l, t
    <3> QED BY <3>1, <3>2
  <2>8. PoolOK(recvs', RecvSlots) /\ Jobs(recvs'.live_, recvs'.tenant, armed', cq')
    <3>1. CASE sqe
      BY <3>1, <1>1, <2>1, <2>2, <2>7
    <3>2. CASE ~sqe
      BY <3>2, <1>1, <2>1, <2>6, <2>7
    <3> QED BY <3>1, <3>2
  <2>9. handler_' \in [Slots -> Handlers] /\ handler_'[r] = h /\ \A s \in Slots : s # r => handler_'[s] = handler_[s]
    BY <1>5, <1>6, <2>1, <2>3
  <2>10. ASSUME NEW s \in Slots, s # r, recvs'.live_[s] PROVE recvs.live_[s]
    <3>1. Q.live_[s] = recvs.live_[s]
      BY <2>2, <2>3, <2>10
    <3>2. Q.live_ \in [Slots -> BOOLEAN]
      BY <2>2, <2>3
    <3>3. deallocate(Q, r).live_[s] = Q.live_[s]
      BY <3>2, <2>6, <2>10
    <3> QED BY <3>1, <3>3, <2>1, <2>10
  <2>11. Handles(conns', recvs'.live_, handler_')
    BY <1>5, <1>6, <2>9, <2>10 DEF Handles
  <2>12. active_read_job_' \in [1 .. ConnSlots -> 0 .. RecvSlots]
    <3>1. (IF sqe THEN r ELSE NullSlot) \in 0 .. RecvSlots
      BY <1>0, <1>7, <2>2
    <3> QED BY <3>1, <1>7, <2>1
  <2>13. Shape'
    BY <1>1, <2>9, <2>12, RecvInvParts DEF Shape
  <2> QED BY <1>3, <1>8, <2>8, <2>11, <2>13 DEF RecvInv
<1> QED BY <1>9, <1>10

\* Every step keeps the invariant.
LEMMA RecvStep == RecvInv /\ [Next]_vars => RecvInv'
<1> SUFFICES ASSUME RecvInv, [Next]_vars PROVE RecvInv'
  OBVIOUS
<1>1. ASSUME NEW r \in 1 .. RecvSlots, NEW more \in BOOLEAN, PostData(r, more) \/ PostError(r, more)
      PROVE  RecvInv'
  BY <1>1, PostKeeps DEF Slots
<1>2. ASSUME NEW r \in 1 .. RecvSlots, handleCompletion(r) PROVE RecvInv'
  BY <1>2, CompletionKeeps, RearmKeeps DEF handleCompletion, Slots
<1>3. ASSUME NEW sqe \in BOOLEAN, createConnectionHandler(sqe) PROVE RecvInv'
  BY <1>3, CreateKeeps
<1>4. ASSUME NEW c \in 1 .. ConnSlots, Close(c) PROVE RecvInv'
  BY <1>4, CloseKeeps
<1>5. CASE UNCHANGED vars
  BY <1>5 DEF vars, RecvInv, Shape
<1> QED BY <1>1, <1>2, <1>3, <1>4, <1>5 DEF Next

\* The invariant holds of every behaviour.
LEMMA RecvInvariance == Spec => []RecvInv
BY RecvInit, RecvStep, PTL DEF Spec

(***************************************************************************)
(* For pools of any capacity: both free lists hold exactly the free slots, *)
(* so ThreadLocalPool loses none and hands none out twice.                 *)
(***************************************************************************)
THEOREM RecvPools == Spec => []PoolsExact
<1>1. RecvInv => PoolsExact
  BY RecvInvImplies
<1> QED BY <1>1, RecvInvariance, PTL

(***************************************************************************)
(* HttpConnectionRecvHandler's (pointer, generation) is taken for a live   *)
(* connection exactly while the connection it was made for lives.          *)
(***************************************************************************)
THEOREM RecvHandles == Spec => []HandleExact
<1>1. RecvInv => HandleExact
  BY RecvInvImplies
<1> QED BY <1>1, RecvInvariance, PTL

(***************************************************************************)
(* A MultishotRecvJob stays in its pool exactly until its last completion. *)
(***************************************************************************)
THEOREM RecvJobs == Spec => []JobOutlivesCompletions
<1>1. RecvInv => JobOutlivesCompletions
  BY RecvInvImplies
<1> QED BY <1>1, RecvInvariance, PTL

(***************************************************************************)
(* BufferRingCoordinator's ring of any size, its counts wrapping at any    *)
(* multiple of it, loses no buffer and gives none out twice.               *)
(***************************************************************************)
THEOREM RecvConserves == Spec => []BuffersConserved
<1>1. RecvInv => BuffersConserved
  BY RecvInvImplies
<1> QED BY <1>1, RecvInvariance, PTL
=============================================================================

----------------------------- MODULE DhcpProofs -----------------------------
(***************************************************************************)
(* The DHCP server and its reservation table.                              *)
(*                                                                         *)
(* The pool of the server is right for every subnet of at least four       *)
(* addresses, every pool limit and every host address of the router, and   *)
(* no step of the server, its clients or its timer moves it.               *)
(*                                                                         *)
(* For any clients, messages and reservations, an answer tells the client  *)
(* what the list records, no message touches another client's lease, a     *)
(* reserved address goes to nobody else, and the timer takes the leases    *)
(* that would end first.  While nothing is reserved, no address is leased  *)
(* twice and none is refused while one is free.                            *)
(*                                                                         *)
(* Flash follows the reservation table for any number of editing tasks and *)
(* any table size, with power losses at any point; and the counter the     *)
(* packet hook reads is exact as long as the edits do not overlap.         *)
(***************************************************************************)
EXTENDS DhcpServer, DhcpReservations, TLAPS, FiniteSetTheorems, WellFoundedInduction,
        SequenceTheorems
-----------------------------------------------------------------------------
\* A set of natural numbers has a smallest element: there is no strictly smaller
\* interval below it.
LEMMA Smallest ==
  ASSUME NEW S \in SUBSET Nat, S # {}
  PROVE  \E s \in S : \A u \in S : s <= u
<1> DEFINE Below == {0 .. (s - 1) : s \in S}
<1>1. Below \subseteq FiniteSubsetsOf(Nat) /\ Below # {}
  <2>1. \A s \in S : 0 .. (s - 1) \in SUBSET Nat /\ IsFiniteSet(0 .. (s - 1))
    <3> TAKE s \in S
    <3>1. s \in Int /\ s - 1 \in Int
      OBVIOUS
    <3> QED BY <3>1, FS_Interval
  <2> QED BY <2>1 DEF FiniteSubsetsOf
<1> HIDE DEF Below
<1>2. PICK x \in Below : \A y \in Below : ~(<<y, x>> \in StrictSubsetOrdering(Nat))
  BY <1>1, FS_StrictSubsetOrderingWellFounded, WFMin
<1>3. PICK s \in S : x = 0 .. (s - 1)
  BY DEF Below
<1>4. ASSUME NEW u \in S, u < s PROVE FALSE
  <2>1. 0 .. (u - 1) \in Below
    BY DEF Below
  <2>2. 0 .. (u - 1) \subseteq 0 .. (s - 1) /\ 0 .. (u - 1) # 0 .. (s - 1)
    <3>1. u \in 0 .. (s - 1) /\ u \notin 0 .. (u - 1)
      BY <1>4
    <3> QED BY <1>4, <3>1
  <2>3. <<0 .. (u - 1), x>> \in StrictSubsetOrdering(Nat)
    BY <1>3, <2>2 DEF StrictSubsetOrdering
  <2> QED BY <1>2, <2>1, <2>3
<1> QED BY <1>4


-----------------------------------------------------------------------------
(* The pool *)

\* The wider side of the subnet is a non-empty run of host addresses without
\* the server's own: each side's length is the distance to the subnet's edge,
\* and the larger of two distances that sum to at least 3 is at least 2.
LEMMA WiderSideSafe ==
  ASSUME NEW ip \in Hosts
  PROVE  LET r == WiderSide(ip)
         IN  /\ r.start \in Hosts /\ r.end \in Hosts
             /\ r.start <= r.end
             /\ ip \notin r.start .. r.end
             /\ r.end + 1 <= r.start + MaxLease
  <1>1. CASE ip - Network > Broadcast - ip
    BY <1>1, SubnetAssumption, SMT DEF WiderSide, Hosts
  <1>2. CASE ~(ip - Network > Broadcast - ip)
    BY <1>2, SubnetAssumption, SMT DEF WiderSide, Hosts
  <1>3. QED
    BY <1>1, <1>2

\* The part of the type invariant that the pool depends on.
PoolOK ==
  /\ server_address \in Hosts
  /\ poll \in [enable : BOOLEAN, start : Nat, end : Nat]

PoolInv == PoolOK /\ PoolSafe /\ PrintedPoolIsServed

LEMMA InitPoolInv == Init => PoolInv
  BY DhcpAssumption DEF Init, PoolInv, PoolOK, PoolSafe, PrintedPoolIsServed, NoPoll

LEMMA StartPoolInv == PoolInv /\ dhcps_start => PoolInv'
  <1> SUFFICES ASSUME PoolInv, dhcps_start PROVE PoolInv'
    OBVIOUS
  <1>1. server_address' = server_address /\ server_address \in Hosts
    BY DEF PoolInv, PoolOK, dhcps_start
  <1>2. CASE Usable(poll, server_address)
    <2>1. poll' = poll
      BY <1>2 DEF dhcps_start, dhcps_poll_set
    <2>2. QED
      BY <1>1, <2>1 DEF PoolInv, PoolOK, PoolSafe, PrintedPoolIsServed
  <1>3. CASE ~Usable(poll, server_address)
    <2>1. poll' = [enable |-> TRUE, start |-> WiderSide(server_address).start,
                   end |-> WiderSide(server_address).end]
      BY <1>3 DEF dhcps_start, dhcps_poll_set
    <2>2. PoolOK' /\ PoolSafe'
      BY <1>1, <2>1, WiderSideSafe, SubnetAssumption DEF PoolOK, PoolSafe, Hosts
    <2>3. PrintedPoolIsServed'
      BY <1>1, <2>1 DEF PrintedPoolIsServed, WiderSide, get_dhcp_pool_range
    <2>4. QED
      BY <2>2, <2>3 DEF PoolInv
  <1>4. QED
    BY <1>2, <1>3

\* Only dhcps_start sets the pool.
LEMMA PoolFixed == [Next]_vars => dhcps_start \/ UNCHANGED <<server_address, poll>>
  <1> SUFFICES ASSUME [Next]_vars, ~dhcps_start PROVE UNCHANGED <<server_address, poll>>
    OBVIOUS
  <1>1. CASE dhcps_stop
    BY <1>1 DEF dhcps_stop
  <1>2. CASE dhcps_tmr
    BY <1>2 DEF dhcps_tmr
  <1>3. ASSUME NEW msg \in Messages, handle_dhcp(msg)
        PROVE  UNCHANGED <<server_address, poll>>
    BY <1>3 DEF handle_dhcp
  <1>4. ASSUME NEW m \in Macs, NEW ip \in Addresses, add_dhcp_reservation(m, ip)
        PROVE  UNCHANGED <<server_address, poll>>
    BY <1>4 DEF add_dhcp_reservation
  <1>5. ASSUME NEW m \in Macs, del_dhcp_reservation(m)
        PROVE  UNCHANGED <<server_address, poll>>
    BY <1>5 DEF del_dhcp_reservation
  <1>6. CASE UNCHANGED vars
    BY <1>6 DEF vars
  <1>7. QED
    BY <1>1, <1>2, <1>3, <1>4, <1>5, <1>6 DEF Next

LEMMA NextPoolInv == PoolInv /\ [Next]_vars => PoolInv'
  <1> SUFFICES ASSUME PoolInv, [Next]_vars PROVE PoolInv'
    OBVIOUS
  <1>1. CASE dhcps_start
    BY <1>1, StartPoolInv
  <1>2. CASE UNCHANGED <<server_address, poll>>
    BY <1>2 DEF PoolInv, PoolOK, PoolSafe, PrintedPoolIsServed
  <1>3. QED
    BY <1>1, <1>2, PoolFixed

\* For every subnet, router address and pool limit, the pool the DHCP server
\* leases from is non-empty, inside the subnet and free of the router's own
\* address, whatever the clients, the timer and the editors do
\* (dhcps_poll_set, dhcps_start).
THEOREM PoolAlwaysSafe == Spec => []PoolSafe
  <1>1. PoolInv => PoolSafe
    BY DEF PoolInv
  <1>2. QED
    BY <1>1, InitPoolInv, NextPoolInv, PTL DEF Spec

\* For every subnet, router address and pool limit, the printed pool range is
\* the range that is served (get_dhcp_pool_range against dhcps_poll_set).
THEOREM PrintedPoolAlwaysServed == Spec => []PrintedPoolIsServed
  <1>1. PoolInv => PrintedPoolIsServed
    BY DEF PoolInv
  <1>2. QED
    BY <1>1, InitPoolInv, NextPoolInv, PTL DEF Spec
-----------------------------------------------------------------------------
(* The lease list *)

Node == [mac : Macs, ip : Nat, timer : Nat]

\* InsertAt and RemoveAt, by the nodes of the list they give.
LEMMA InsertedAt ==
  ASSUME NEW list \in Seq(Node), NEW e \in Node, NEW i \in 1 .. Len(list)
  PROVE  LET new == InsertAt(list, i, e)
         IN  /\ new \in Seq(Node) /\ Len(new) = Len(list) + 1
             /\ \A j \in 1 .. (Len(list) + 1) :
                  new[j] = IF j < i THEN list[j] ELSE IF j = i THEN e ELSE list[j - 1]
<1> DEFINE front == SubSeq(list, 1, i - 1)
           back  == SubSeq(list, i, Len(list))
           head  == Append(front, e)
<1>0. Len(list) \in Nat /\ i \in Nat /\ 1 <= i /\ i <= Len(list)
  OBVIOUS
<1>1. front \in Seq(Node) /\ Len(front) = i - 1
  OBVIOUS
<1>2. \A j \in 1 .. (i - 1) : front[j] = list[j]
  OBVIOUS
<1>3. back \in Seq(Node) /\ Len(back) = Len(list) - i + 1
  OBVIOUS
<1>4. \A j \in 1 .. (Len(list) - i + 1) : back[j] = list[i + j - 1]
  OBVIOUS
<1>5. InsertAt(list, i, e) = head \o back
  <2>1. front \o <<e>> = head
    BY <1>1
  <2> QED BY <2>1 DEF InsertAt
<1> HIDE DEF front, back
<1>6. head \in Seq(Node) /\ Len(head) = i
  BY <1>0, <1>1
<1>7. head[i] = e /\ \A j \in 1 .. (i - 1) : head[j] = list[j]
  BY <1>0, <1>1, <1>2
<1> HIDE DEF head
<1>8. head \o back \in Seq(Node) /\ Len(head \o back) = Len(head) + Len(back)
  BY <1>3, <1>6
<1>9. \A j \in 1 .. Len(head) + Len(back) :
        (head \o back)[j] = IF j <= Len(head) THEN head[j] ELSE back[j - Len(head)]
  BY <1>3, <1>6, ConcatProperties
<1>10. Len(head) + Len(back) = Len(list) + 1
  BY <1>0, <1>3, <1>6
<1>11. ASSUME NEW j \in 1 .. (Len(list) + 1)
       PROVE  (head \o back)[j] = IF j < i THEN list[j] ELSE IF j = i THEN e ELSE list[j - 1]
  <2>1. (head \o back)[j] = IF j <= i THEN head[j] ELSE back[j - i]
    BY <1>6, <1>9, <1>10
  <2>2. CASE j < i
    BY <1>0, <1>7, <2>1, <2>2
  <2>3. CASE j = i
    BY <1>0, <1>7, <2>1, <2>3
  <2>4. CASE j > i
    <3>1. j - i \in 1 .. (Len(list) - i + 1) /\ i + (j - i) - 1 = j - 1
      BY <1>0, <2>4
    <3>2. back[j - i] = list[j - 1]
      BY <1>4, <3>1
    <3> QED BY <1>0, <2>1, <2>4, <3>2
  <2>5. j < i \/ j = i \/ j > i
    BY <1>0
  <2> QED BY <2>2, <2>3, <2>4, <2>5
<1> QED BY <1>5, <1>8, <1>10, <1>11

LEMMA RemovedAt ==
  ASSUME NEW list \in Seq(Node), NEW i \in 1 .. Len(list)
  PROVE  LET new == RemoveAt(list, i)
         IN  /\ new \in Seq(Node) /\ Len(new) = Len(list) - 1
             /\ \A j \in 1 .. (Len(list) - 1) : new[j] = IF j < i THEN list[j] ELSE list[j + 1]
<1> DEFINE front == SubSeq(list, 1, i - 1)
           back  == SubSeq(list, i + 1, Len(list))
<1>0. Len(list) \in Nat /\ i \in Nat /\ 1 <= i /\ i <= Len(list)
  OBVIOUS
<1>1. front \in Seq(Node) /\ Len(front) = i - 1
  OBVIOUS
<1>2. \A j \in 1 .. (i - 1) : front[j] = list[j]
  OBVIOUS
<1>3. back \in Seq(Node) /\ Len(back) = Len(list) - i
  OBVIOUS
<1>4. \A j \in 1 .. (Len(list) - i) : back[j] = list[i + j]
  OBVIOUS
<1>5. RemoveAt(list, i) = front \o back
  BY DEF RemoveAt
<1> HIDE DEF front, back
<1>6. front \o back \in Seq(Node) /\ Len(front \o back) = Len(front) + Len(back)
  BY <1>1, <1>3
<1>7. \A j \in 1 .. Len(front) + Len(back) :
        (front \o back)[j] = IF j <= Len(front) THEN front[j] ELSE back[j - Len(front)]
  BY <1>1, <1>3, ConcatProperties
<1>8. Len(front) + Len(back) = Len(list) - 1
  BY <1>0, <1>1, <1>3
<1>9. ASSUME NEW j \in 1 .. (Len(list) - 1)
      PROVE  (front \o back)[j] = IF j < i THEN list[j] ELSE list[j + 1]
  <2>1. (front \o back)[j] = IF j <= i - 1 THEN front[j] ELSE back[j - (i - 1)]
    BY <1>1, <1>7, <1>8
  <2>2. CASE j < i
    BY <1>0, <1>2, <2>1, <2>2
  <2>3. CASE j >= i
    <3>1. j - (i - 1) \in 1 .. (Len(list) - i) /\ i + (j - (i - 1)) = j + 1
      BY <1>0, <2>3
    <3>2. back[j - (i - 1)] = list[j + 1]
      BY <1>4, <3>1
    <3> QED BY <1>0, <2>1, <2>3, <3>2
  <2>4. j < i \/ j >= i
    BY <1>0
  <2> QED BY <2>2, <2>3, <2>4
<1> QED BY <1>5, <1>6, <1>8, <1>9

\* node_insert_to_list puts the node behind every smaller or equal address and
\* in front of the first greater one.
LEMMA Inserted ==
  ASSUME NEW list \in Seq(Node), NEW e \in Node
  PROVE  LET new == node_insert_to_list(list, e)
         IN  /\ new \in Seq(Node) /\ Len(new) = Len(list) + 1
             /\ \E i \in 1 .. (Len(list) + 1) :
                  /\ \A j \in 1 .. (Len(list) + 1) :
                       new[j] = IF j < i THEN list[j] ELSE IF j = i THEN e ELSE list[j - 1]
                  /\ \A j \in 1 .. (i - 1) : list[j].ip <= e.ip
                  /\ i <= Len(list) => e.ip < list[i].ip
<1> DEFINE greater == {i \in DOMAIN list : e.ip < list[i].ip}
<1>0. DOMAIN list = 1 .. Len(list) /\ \A j \in 1 .. Len(list) : list[j].ip \in Nat
  <2>1. \A j \in 1 .. Len(list) : list[j] \in Node
    OBVIOUS
  <2> QED BY <2>1 DEF Node
<1>e. e.ip \in Nat
  BY DEF Node
<1>1. CASE greater = {}
  <2>1. node_insert_to_list(list, e) = Append(list, e)
    BY <1>1 DEF node_insert_to_list
  <2>2. \A j \in 1 .. Len(list) : list[j].ip <= e.ip
    BY <1>0, <1>1, <1>e
  <2>3. Append(list, e) \in Seq(Node) /\ Len(Append(list, e)) = Len(list) + 1
        /\ \A j \in 1 .. (Len(list) + 1) : Append(list, e)[j] = IF j < Len(list) + 1 THEN list[j] ELSE e
    OBVIOUS
  <2> QED BY <2>1, <2>2, <2>3
<1>2. CASE greater # {}
  <2> DEFINE i == CHOOSE i \in greater : \A j \in greater : i <= j
  <2>1. greater \in SUBSET Nat
    BY <1>0
  <2>2. i \in greater /\ \A j \in greater : i <= j
    BY <1>2, <2>1, Smallest
  <2>3. node_insert_to_list(list, e) = InsertAt(list, i, e)
    BY <1>2 DEF node_insert_to_list
  <2> HIDE DEF i
  <2>4. i \in 1 .. Len(list) /\ e.ip < list[i].ip
    BY <1>0, <2>2
  <2>5. \A j \in 1 .. (i - 1) : list[j].ip <= e.ip
    BY <1>0, <1>e, <2>2, <2>4
  <2>6. InsertAt(list, i, e) \in Seq(Node) /\ Len(InsertAt(list, i, e)) = Len(list) + 1
    BY <2>4, InsertedAt
  <2>7. \A j \in 1 .. (Len(list) + 1) :
          InsertAt(list, i, e)[j] = IF j < i THEN list[j] ELSE IF j = i THEN e ELSE list[j - 1]
    BY <2>4, InsertedAt
  <2> QED BY <2>3, <2>4, <2>5, <2>6, <2>7
<1> QED BY <1>1, <1>2
-----------------------------------------------------------------------------
(* Recursive functions over a list.  The prover's library has no induction that *)
(* can be cited, so what holds of every stage is shown by its first exception.  *)

\* A function of the stages 0 .. N, with a first one and a step to each next one.
Staged(N, X, x, F) ==
  \E g \in [0 .. N -> X] : g[0] = x /\ \A k \in 1 .. N : g[k] = F[k][g[k - 1]]

LEMMA StagesExist ==
  ASSUME NEW N \in Nat, NEW X, NEW x \in X, NEW F \in [1 .. N -> [X -> X]]
  PROVE  Staged(N, X, x, F)
<1> DEFINE Stages(K) ==
      \E g \in [0 .. K -> X] : g[0] = x /\ \A k \in 1 .. K : g[k] = F[k][g[k - 1]]
<1> DEFINE missing == {K \in 0 .. N : ~Stages(K)}
<1>1. SUFFICES missing = {}
  <2>1. N \in 0 .. N
    OBVIOUS
  <2> QED BY <2>1 DEF Staged
<1>2. SUFFICES ASSUME missing # {} PROVE FALSE
  OBVIOUS
<1>3. PICK K \in missing : \A J \in missing : K <= J
  <2>1. missing \in SUBSET Nat
    OBVIOUS
  <2> QED BY <1>2, <2>1, Smallest
<1>4. CASE K = 0
  <2> DEFINE g == [k \in 0 .. 0 |-> x]
  <2>1. g \in [0 .. 0 -> X] /\ g[0] = x /\ 1 .. 0 = {}
    OBVIOUS
  <2>2. Stages(0)
    BY <2>1
  <2> QED BY <1>3, <1>4, <2>2
<1>5. CASE K # 0
  <2>1. K \in 1 .. N /\ K - 1 \in 0 .. N /\ K - 1 \notin missing
    BY <1>3, <1>5
  <2>2. PICK g \in [0 .. (K - 1) -> X] : g[0] = x /\ \A k \in 1 .. (K - 1) : g[k] = F[k][g[k - 1]]
    BY <2>1
  <2> DEFINE h == [k \in 0 .. K |-> IF k < K THEN g[k] ELSE F[K][g[K - 1]]]
  <2>3. F[K] \in [X -> X] /\ g[K - 1] \in X
    BY <2>1
  <2>4. \A k \in 0 .. K : h[k] \in X
    <3> TAKE k \in 0 .. K
    <3>1. CASE k < K
      BY <2>1, <3>1
    <3>2. CASE k = K
      BY <2>1, <2>3, <3>2
    <3> QED BY <2>1, <3>1, <3>2
  <2>5. h \in [0 .. K -> X]
    BY <2>4
  <2>6. h[0] = x
    BY <2>1, <2>2
  <2>7. \A k \in 1 .. K : h[k] = F[k][h[k - 1]]
    <3> TAKE k \in 1 .. K
    <3>1. k - 1 \in 0 .. K /\ k - 1 < K /\ k \in 0 .. K
      BY <2>1
    <3>2. h[k - 1] = g[k - 1]
      BY <3>1
    <3>3. CASE k < K
      BY <2>1, <2>2, <3>1, <3>2, <3>3
    <3>4. CASE k = K
      BY <3>1, <3>2, <3>4
    <3> QED BY <2>1, <3>3, <3>4
  <2>8. Stages(K)
    BY <2>5, <2>6, <2>7
  <2> QED BY <1>3, <2>8
<1> QED BY <1>4, <1>5

\* The stages of Remaining: after k nodes, the running ones among them.
LEMMA RemainingStages ==
  ASSUME NEW list \in Seq(Node)
  PROVE  \E g \in [0 .. Len(list) -> Seq(Node)] :
           /\ Remaining(list) = g[Len(list)]
           /\ g[0] = <<>>
           /\ \A k \in 1 .. Len(list) :
                g[k] = IF Running(list[k]) THEN Append(g[k - 1], list[k]) ELSE g[k - 1]
<1> DEFINE N == Len(list)
           Step(k, left) == IF Running(list[k]) THEN Append(left, list[k]) ELSE left
           F == [k \in 1 .. N |-> [left \in Seq(Node) |-> Step(k, left)]]
           Eq(f) == f = [k \in 0 .. N |-> IF k = 0 THEN <<>>
                                          ELSE IF Running(list[k]) THEN Append(f[k - 1], list[k])
                                          ELSE f[k - 1]]
           g == CHOOSE f : Eq(f)
<1>1. N \in Nat /\ <<>> \in Seq(Node) /\ \A k \in 1 .. N : list[k] \in Node
  OBVIOUS
<1>2. F \in [1 .. N -> [Seq(Node) -> Seq(Node)]]
  <2>1. \A k \in 1 .. N, left \in Seq(Node) : Step(k, left) \in Seq(Node)
    BY <1>1
  <2> HIDE DEF Step
  <2> QED BY <2>1
<1>3. PICK h \in [0 .. N -> Seq(Node)] : h[0] = <<>> /\ \A k \in 1 .. N : h[k] = F[k][h[k - 1]]
  <2> DEFINE empty == <<>>
  <2>1. empty \in Seq(Node)
    BY <1>1
  <2>2. N \in Nat
    OBVIOUS
  <2> HIDE DEF F, N, empty
  <2>3. Staged(N, Seq(Node), empty, F)
    BY <1>2, <2>1, <2>2, StagesExist
  <2> QED BY <2>3 DEF Staged, empty
<1>4. \A k \in 1 .. N : h[k] = Step(k, h[k - 1])
  <2> TAKE k \in 1 .. N
  <2>1. k - 1 \in 0 .. N
    BY <1>1
  <2>2. h[k - 1] \in Seq(Node)
    BY <2>1
  <2> HIDE DEF Step
  <2> QED BY <1>3, <2>2
<1>5. Eq(h)
  <2>1. \A k \in 0 .. N : h[k] = IF k = 0 THEN <<>>
                                 ELSE IF Running(list[k]) THEN Append(h[k - 1], list[k])
                                 ELSE h[k - 1]
    <3> TAKE k \in 0 .. N
    <3>1. CASE k = 0
      BY <1>3, <3>1
    <3>2. CASE k # 0
      <4>1. k \in 1 .. N
        BY <1>1, <3>2
      <4> QED BY <1>4, <3>2, <4>1
    <3> QED BY <3>1, <3>2
  <2> QED BY <2>1
<1>6. Eq(g)
  BY <1>5
<1>7. Remaining(list) = g[N]
  BY DEF Remaining
<1> HIDE DEF g
<1>8. g[0] = <<>> /\ \A k \in 1 .. N : g[k] = Step(k, g[k - 1])
  <2>1. 0 \in 0 .. N /\ \A k \in 1 .. N : k \in 0 .. N /\ k # 0
    BY <1>1
  <2>2. \A k \in 0 .. N : g[k] = IF k = 0 THEN <<>>
                                 ELSE IF Running(list[k]) THEN Append(g[k - 1], list[k])
                                 ELSE g[k - 1]
    BY <1>6
  <2> QED BY <2>1, <2>2
<1>9. DOMAIN g = 0 .. N /\ g = [k \in 0 .. N |-> g[k]]
  BY <1>6
<1>10. \A k \in 0 .. N : g[k] \in Seq(Node)
  <2> DEFINE bad == {k \in 0 .. N : g[k] \notin Seq(Node)}
  <2>1. SUFFICES ASSUME bad # {} PROVE FALSE
    OBVIOUS
  <2>2. PICK k \in bad : \A j \in bad : k <= j
    <3>1. bad \in SUBSET Nat
      OBVIOUS
    <3> QED BY <2>1, <3>1, Smallest
  <2>3. k # 0
    BY <1>1, <1>8, <2>2
  <2>4. k \in 1 .. N /\ k - 1 \in 0 .. N /\ k - 1 \notin bad
    BY <1>1, <2>2, <2>3
  <2>5. g[k - 1] \in Seq(Node) /\ list[k] \in Node
    BY <1>1, <2>4
  <2>6. g[k] \in Seq(Node)
    <3> DEFINE before == g[k - 1]
    <3>1. g[k] = Step(k, before)
      BY <1>8, <2>4
    <3>2. before \in Seq(Node)
      BY <2>5
    <3> HIDE DEF before
    <3>3. Append(before, list[k]) \in Seq(Node)
      BY <2>5, <3>2
    <3> QED BY <3>1, <3>2, <3>3
  <2> QED BY <2>2, <2>6
<1> QED BY <1>7, <1>8, <1>9, <1>10

Walk == [plus : Nat, first : Nat, gap : BOOLEAN]

\* What a turn of the search loop returns.
LEMMA VisitStays ==
  ASSUME NEW w \in Walk, NEW lease \in Node
  PROVE  Visit(w, lease) \in Walk
BY DEF Walk, Node, Visit

\* The stages of Search: after k nodes.
LEMMA SearchStages ==
  ASSUME plus \in Nat, StartIP \in Nat, NEW list \in Seq(Node)
  PROVE  \E g \in [0 .. Len(list) -> Walk] :
           /\ Search(list) = g[Len(list)]
           /\ g[0] = [plus |-> plus, first |-> StartIP, gap |-> FALSE]
           /\ \A k \in 1 .. Len(list) : g[k] = Visit(g[k - 1], list[k])
<1> DEFINE N == Len(list)
           start == [plus |-> plus, first |-> StartIP, gap |-> FALSE]
           F == [k \in 1 .. N |-> [w \in Walk |-> Visit(w, list[k])]]
           Eq(f) == f = [k \in 0 .. N |-> IF k = 0 THEN start ELSE Visit(f[k - 1], list[k])]
           g == CHOOSE f : Eq(f)
<1>1. N \in Nat /\ start \in Walk /\ \A k \in 1 .. N : list[k] \in Node
  BY DEF Walk
<1>2. F \in [1 .. N -> [Walk -> Walk]]
  BY <1>1, VisitStays
<1>3. PICK h \in [0 .. N -> Walk] : h[0] = start /\ \A k \in 1 .. N : h[k] = F[k][h[k - 1]]
  <2>1. N \in Nat /\ start \in Walk
    BY <1>1
  <2> HIDE DEF F, N, start
  <2>2. Staged(N, Walk, start, F)
    BY <1>2, <2>1, StagesExist
  <2> QED BY <2>2 DEF Staged
<1> HIDE DEF start
<1>4. \A k \in 1 .. N : h[k] = Visit(h[k - 1], list[k])
  <2> TAKE k \in 1 .. N
  <2>1. k - 1 \in 0 .. N
    BY <1>1
  <2>2. h[k - 1] \in Walk
    BY <2>1
  <2> QED BY <1>3, <2>2
<1>5. Eq(h)
  <2>1. \A k \in 0 .. N : h[k] = IF k = 0 THEN start ELSE Visit(h[k - 1], list[k])
    <3> TAKE k \in 0 .. N
    <3>1. CASE k = 0
      BY <1>3, <3>1
    <3>2. CASE k # 0
      <4>1. k \in 1 .. N
        BY <1>1, <3>2
      <4> QED BY <1>4, <3>2, <4>1
    <3> QED BY <3>1, <3>2
  <2> QED BY <2>1
<1>6. Eq(g)
  BY <1>5
<1>7. Search(list) = g[N]
  BY DEF Search, start
<1> HIDE DEF g
<1>8. g[0] = start /\ \A k \in 1 .. N : g[k] = Visit(g[k - 1], list[k])
  <2>1. 0 \in 0 .. N /\ \A k \in 1 .. N : k \in 0 .. N /\ k # 0
    BY <1>1
  <2>2. \A k \in 0 .. N : g[k] = IF k = 0 THEN start ELSE Visit(g[k - 1], list[k])
    BY <1>6
  <2> QED BY <2>1, <2>2
<1>9. DOMAIN g = 0 .. N /\ g = [k \in 0 .. N |-> g[k]]
  BY <1>6
<1>10. \A k \in 0 .. N : g[k] \in Walk
  <2> DEFINE bad == {k \in 0 .. N : g[k] \notin Walk}
  <2>1. SUFFICES ASSUME bad # {} PROVE FALSE
    OBVIOUS
  <2>2. PICK k \in bad : \A j \in bad : k <= j
    <3>1. bad \in SUBSET Nat
      OBVIOUS
    <3> QED BY <2>1, <3>1, Smallest
  <2>3. k # 0
    BY <1>1, <1>8, <2>2
  <2>4. k \in 1 .. N /\ k - 1 \in 0 .. N /\ k - 1 \notin bad
    BY <1>1, <2>2, <2>3
  <2>5. g[k - 1] \in Walk /\ list[k] \in Node
    BY <1>1, <2>4
  <2>6. g[k] \in Walk
    BY <1>8, <2>4, <2>5, VisitStays
  <2> QED BY <2>2, <2>6
<1> QED BY <1>7, <1>8, <1>9, <1>10 DEF start

\* left has the running nodes of list, each once, in their order: from gives where
\* each of them comes from.
RunningOf(list, left, from) ==
  /\ \A j \in 1 .. Len(left) : left[j] = list[from[j]] /\ left[j].timer # 0
  /\ \A j, k \in 1 .. Len(left) : j < k => from[j] < from[k]
  /\ \A i \in 1 .. Len(list) :
       list[i].timer # 0 => \E j \in 1 .. Len(left) : from[j] = i

SomeRunningOf(list, left) ==
  \E from \in [1 .. Len(left) -> 1 .. Len(list)] : RunningOf(list, left, from)

LEMMA Remained ==
  ASSUME NEW list \in Seq(Node)
  PROVE  Remaining(list) \in Seq(Node) /\ SomeRunningOf(list, Remaining(list))
<1>1. PICK g \in [0 .. Len(list) -> Seq(Node)] :
        /\ Remaining(list) = g[Len(list)]
        /\ g[0] = <<>>
        /\ \A k \in 1 .. Len(list) :
             g[k] = IF Running(list[k]) THEN Append(g[k - 1], list[k]) ELSE g[k - 1]
  BY RemainingStages
<1>2. Len(list) \in Nat /\ \A k \in 1 .. Len(list) : list[k] \in Node
  OBVIOUS
<1> DEFINE Picked(h, left, from) ==
             /\ \A j \in 1 .. Len(left) : left[j] = list[from[j]] /\ left[j].timer # 0
             /\ \A j, k \in 1 .. Len(left) : j < k => from[j] < from[k]
             /\ \A i \in 1 .. h : list[i].timer # 0 => \E j \in 1 .. Len(left) : from[j] = i
           Good(h) == \E from \in [1 .. Len(g[h]) -> 1 .. h] : Picked(h, g[h], from)
           bad == {h \in 0 .. Len(list) : ~Good(h)}
<1> HIDE DEF Picked
<1>3. SUFFICES bad = {}
  <2>1. Len(list) \in 0 .. Len(list)
    BY <1>2
  <2> HIDE DEF Good
  <2>2. Good(Len(list))
    BY <1>3, <2>1
  <2>3. PICK from \in [1 .. Len(g[Len(list)]) -> 1 .. Len(list)] :
          Picked(Len(list), g[Len(list)], from)
    BY <2>2 DEF Good
  <2>4. Remaining(list) = g[Len(list)] /\ g[Len(list)] \in Seq(Node)
    BY <1>1, <2>1
  <2>5. SomeRunningOf(list, g[Len(list)])
    BY <2>3 DEF Picked, SomeRunningOf, RunningOf
  <2> QED BY <2>4, <2>5
<1>4. SUFFICES ASSUME bad # {} PROVE FALSE
  OBVIOUS
<1>5. PICK h \in 0 .. Len(list) : ~Good(h) /\ \A j \in bad : h <= j
  <2>1. bad \in SUBSET Nat
    OBVIOUS
  <2> HIDE DEF Good
  <2>2. \E h \in bad : \A j \in bad : h <= j
    <3> HIDE DEF bad
    <3> QED BY <1>4, <2>1, Smallest
  <2> QED BY <2>2
<1>6. h # 0
  <2>1. SUFFICES Good(0)
    BY <1>5
  <2>2. Len(<<>>) = 0 /\ 1 .. 0 = {}
    OBVIOUS
  <2> DEFINE none == [j \in 1 .. 0 |-> 0]
  <2>3. none \in [1 .. 0 -> 1 .. 0]
    BY <2>2
  <2>4. Picked(0, <<>>, none)
    BY <2>2 DEF Picked
  <2> HIDE DEF none
  <2> QED BY <1>1, <2>2, <2>3, <2>4
<1>7. h \in 1 .. Len(list) /\ h - 1 \in 0 .. Len(list) /\ Good(h - 1)
  <2> HIDE DEF Good
  <2>1. h \in 1 .. Len(list) /\ h - 1 \in 0 .. Len(list) /\ ~(h <= h - 1)
    BY <1>2, <1>5, <1>6
  <2> QED BY <1>5, <2>1
<1> DEFINE left == g[h - 1]
           len  == Len(left)
<1>8. PICK from \in [1 .. len -> 1 .. (h - 1)] : Picked(h - 1, left, from)
  BY <1>7
<1>9. left \in Seq(Node) /\ len \in Nat /\ list[h] \in Node
  <2>1. left \in Seq(Node)
    BY <1>7
  <2> QED BY <1>2, <1>7, <2>1
<1> HIDE DEF left
<1>10. \A j \in 1 .. len : from[j] \in 1 .. (h - 1) /\ left[j] = list[from[j]] /\ left[j].timer # 0
  BY <1>8 DEF Picked
<1>11. \A j, k \in 1 .. len : j < k => from[j] < from[k]
  BY <1>8 DEF Picked
<1>12. \A i \in 1 .. (h - 1) : list[i].timer # 0 => \E j \in 1 .. len : from[j] = i
  BY <1>8 DEF Picked
<1>13. Good(h)
  <2>1. CASE ~Running(list[h])
    <3>1. g[h] = left /\ list[h].timer = 0
      BY <1>1, <1>7, <2>1 DEF Running, left
    <3>2. from \in [1 .. len -> 1 .. h]
      BY <1>7, <1>8
    <3>3. \A i \in 1 .. h : list[i].timer # 0 => \E j \in 1 .. len : from[j] = i
      <4>1. \A i \in 1 .. h : i \in 1 .. (h - 1) \/ i = h
        BY <1>7
      <4> QED BY <1>12, <3>1, <4>1
    <3>4. Picked(h, left, from)
      BY <1>10, <1>11, <3>3 DEF Picked
    <3> QED BY <3>1, <3>2, <3>4
  <2>2. CASE Running(list[h])
    <3> DEFINE more == [j \in 1 .. (len + 1) |-> IF j <= len THEN from[j] ELSE h]
               new  == Append(left, list[h])
    <3>1. g[h] = new /\ list[h].timer # 0
      BY <1>1, <1>7, <2>2 DEF Running, left
    <3>2. Len(new) = len + 1 /\ new[len + 1] = list[h] /\ \A j \in 1 .. len : new[j] = left[j]
      BY <1>9
    <3> HIDE DEF new, len
    <3>3. \A j \in 1 .. (len + 1) : j \in 1 .. len \/ j = len + 1
      BY <1>9
    <3>4. \A j \in 1 .. len : more[j] = from[j] /\ from[j] \in 1 .. (h - 1)
      BY <1>9, <1>10
    <3>5. more[len + 1] = h
      BY <1>9
    <3>6. more \in [1 .. (len + 1) -> 1 .. h]
      <4>1. \A j \in 1 .. (len + 1) : more[j] \in 1 .. h
        <5> HIDE DEF more
        <5> QED BY <1>7, <3>3, <3>4, <3>5
      <4> QED BY <4>1
    <3> HIDE DEF more
    <3>7. \A j \in 1 .. (len + 1) : new[j] = list[more[j]] /\ new[j].timer # 0
      BY <1>10, <3>1, <3>2, <3>3, <3>4, <3>5
    <3>8. \A j, k \in 1 .. (len + 1) : j < k => more[j] < more[k]
      <4> SUFFICES ASSUME NEW j \in 1 .. (len + 1), NEW k \in 1 .. (len + 1), j < k
                   PROVE  more[j] < more[k]
        OBVIOUS
      <4>1. j \in 1 .. len
        BY <1>9
      <4>2. CASE k \in 1 .. len
        BY <1>11, <3>4, <4>1, <4>2
      <4>3. CASE k = len + 1
        BY <1>7, <3>4, <3>5, <4>1, <4>3
      <4> QED BY <3>3, <4>2, <4>3
    <3>9. \A i \in 1 .. h : list[i].timer # 0 => \E j \in 1 .. (len + 1) : more[j] = i
      <4> SUFFICES ASSUME NEW i \in 1 .. h, list[i].timer # 0
                   PROVE  \E j \in 1 .. (len + 1) : more[j] = i
        OBVIOUS
      <4>1. CASE i = h
        BY <1>9, <3>5, <4>1
      <4>2. CASE i # h
        <5>1. i \in 1 .. (h - 1)
          BY <1>7, <4>2
        <5>2. PICK j \in 1 .. len : from[j] = i
          BY <1>12, <5>1
        <5>3. j \in 1 .. (len + 1) /\ more[j] = i
          BY <1>9, <3>4, <5>2
        <5> QED BY <5>3
      <4> QED BY <4>1, <4>2
    <3>10. Picked(h, new, more)
      BY <3>2, <3>7, <3>8, <3>9 DEF Picked
    <3> QED BY <3>1, <3>2, <3>6, <3>10
  <2> QED BY <2>1, <2>2
<1> QED BY <1>5, <1>13
-----------------------------------------------------------------------------
(* One lease a client *)

OneEach(list) == \A i, j \in 1 .. Len(list) : list[i].mac = list[j].mac => i = j

Live(list) == \A i \in 1 .. Len(list) : list[i].timer # 0

OthersKept(list, new, m) == \A o \in Macs \ {m} : LeasesOf(new, o) = LeasesOf(list, o)

\* A node inserted for a new client, a node removed and a node refreshed leave one
\* node each, and the other clients' as they are.
LEMMA InsertKeeps ==
  ASSUME NEW list \in Seq(Node), OneEach(list), NEW e \in Node,
         \A i \in 1 .. Len(list) : list[i].mac # e.mac
  PROVE  LET new == node_insert_to_list(list, e)
         IN  /\ new \in Seq(Node) /\ OneEach(new)
             /\ \E i \in 1 .. Len(new) : new[i] = e
             /\ OthersKept(list, new, e.mac)
<1> DEFINE new == node_insert_to_list(list, e)
<1>1. new \in Seq(Node) /\ Len(new) = Len(list) + 1
  BY Inserted
<1>2. PICK i \in 1 .. (Len(list) + 1) : \A j \in 1 .. (Len(list) + 1) :
             new[j] = IF j < i THEN list[j] ELSE IF j = i THEN e ELSE list[j - 1]
  BY Inserted
<1> HIDE DEF new
<1>3. Len(list) \in Nat /\ DOMAIN new = 1 .. (Len(list) + 1) /\ DOMAIN list = 1 .. Len(list)
  BY <1>1
<1>4. new[i] = e
  BY <1>2
<1>5. \A j \in 1 .. Len(list) : \E k \in 1 .. (Len(list) + 1) : k # i /\ new[k] = list[j]
  <2> TAKE j \in 1 .. Len(list)
  <2>1. CASE j < i
    BY <1>2, <1>3, <2>1
  <2>2. CASE j >= i
    <3>1. j + 1 \in 1 .. (Len(list) + 1) /\ j + 1 # i /\ new[j + 1] = list[j]
      BY <1>2, <1>3, <2>2
    <3> QED BY <3>1
  <2> QED BY <1>3, <2>1, <2>2
<1>6. \A k \in 1 .. (Len(list) + 1) :
        k # i => /\ (IF k < i THEN k ELSE k - 1) \in 1 .. Len(list)
                 /\ new[k] = list[IF k < i THEN k ELSE k - 1]
  BY <1>2, <1>3
<1>7. OneEach(new)
  <2> SUFFICES ASSUME NEW j \in 1 .. (Len(list) + 1), NEW k \in 1 .. (Len(list) + 1),
                      new[j].mac = new[k].mac
               PROVE  j = k
    BY <1>1 DEF OneEach
  <2>1. CASE j = i \/ k = i
    BY <1>4, <1>6, <2>1
  <2>2. CASE j # i /\ k # i
    <3>1. (IF j < i THEN j ELSE j - 1) = (IF k < i THEN k ELSE k - 1)
      BY <1>6, <2>2 DEF OneEach
    <3> QED BY <1>3, <2>2, <3>1
  <2> QED BY <2>1, <2>2
<1>8. ASSUME NEW m \in Macs \ {e.mac} PROVE LeasesOf(new, m) = LeasesOf(list, m)
  <2>1. LeasesOf(list, m) \subseteq LeasesOf(new, m)
    BY <1>3, <1>5 DEF LeasesOf
  <2>2. LeasesOf(new, m) \subseteq LeasesOf(list, m)
    <3> SUFFICES ASSUME NEW k \in 1 .. (Len(list) + 1), new[k].mac = m
                 PROVE  new[k] \in LeasesOf(list, m)
      BY <1>3 DEF LeasesOf
    <3>1. k # i
      BY <1>4, <1>8
    <3> QED BY <1>3, <1>6, <3>1 DEF LeasesOf
  <2> QED BY <2>1, <2>2
<1>9. i \in 1 .. Len(new)
  BY <1>1
<1> QED BY <1>1, <1>4, <1>7, <1>8, <1>9 DEF new, OthersKept

LEMMA RemoveKeeps ==
  ASSUME NEW list \in Seq(Node), OneEach(list), NEW i \in 1 .. Len(list)
  PROVE  LET new == RemoveAt(list, i)
         IN  /\ new \in Seq(Node) /\ OneEach(new)
             /\ \A j \in 1 .. Len(new) : new[j].mac # list[i].mac
             /\ OthersKept(list, new, list[i].mac)
<1> DEFINE new == RemoveAt(list, i)
<1>1. new \in Seq(Node) /\ Len(new) = Len(list) - 1
  BY RemovedAt
<1>2. \A j \in 1 .. (Len(list) - 1) : new[j] = IF j < i THEN list[j] ELSE list[j + 1]
  BY RemovedAt
<1> HIDE DEF new
<1>3. Len(list) \in Nat /\ DOMAIN new = 1 .. (Len(list) - 1) /\ DOMAIN list = 1 .. Len(list)
  BY <1>1
<1>4. \A j \in 1 .. Len(list) : j # i => \E k \in 1 .. (Len(list) - 1) : new[k] = list[j]
  <2> SUFFICES ASSUME NEW j \in 1 .. Len(list), j # i
               PROVE  \E k \in 1 .. (Len(list) - 1) : new[k] = list[j]
    OBVIOUS
  <2>1. CASE j < i
    BY <1>2, <1>3, <2>1
  <2>2. CASE j > i
    <3>1. j - 1 \in 1 .. (Len(list) - 1) /\ new[j - 1] = list[j]
      BY <1>2, <1>3, <2>2
    <3> QED BY <3>1
  <2> QED BY <1>3, <2>1, <2>2
<1>5. \A k \in 1 .. (Len(list) - 1) :
        /\ (IF k < i THEN k ELSE k + 1) \in (1 .. Len(list)) \ {i}
        /\ new[k] = list[IF k < i THEN k ELSE k + 1]
  BY <1>2, <1>3
<1>6. OneEach(new)
  <2> SUFFICES ASSUME NEW j \in 1 .. (Len(list) - 1), NEW k \in 1 .. (Len(list) - 1),
                      new[j].mac = new[k].mac
               PROVE  j = k
    BY <1>1 DEF OneEach
  <2>1. (IF j < i THEN j ELSE j + 1) = (IF k < i THEN k ELSE k + 1)
    BY <1>5 DEF OneEach
  <2> QED BY <1>3, <2>1
<1>7. \A k \in 1 .. Len(new) : new[k].mac # list[i].mac
  BY <1>1, <1>5 DEF OneEach
<1>8. ASSUME NEW m \in Macs \ {list[i].mac} PROVE LeasesOf(new, m) = LeasesOf(list, m)
  <2>1. LeasesOf(list, m) \subseteq LeasesOf(new, m)
    <3> SUFFICES ASSUME NEW j \in 1 .. Len(list), list[j].mac = m
                 PROVE  list[j] \in LeasesOf(new, m)
      BY <1>3 DEF LeasesOf
    <3>1. j # i
      BY <1>8
    <3> QED BY <1>3, <1>4, <3>1 DEF LeasesOf
  <2>2. LeasesOf(new, m) \subseteq LeasesOf(list, m)
    BY <1>3, <1>5 DEF LeasesOf
  <2> QED BY <2>1, <2>2
<1> QED BY <1>1, <1>6, <1>7, <1>8 DEF new, OthersKept

Refreshed(list, i, t) == [list EXCEPT ![i].timer = t]

LEMMA RefreshKeeps ==
  ASSUME NEW list \in Seq(Node), OneEach(list), NEW i \in 1 .. Len(list), NEW t \in Nat
  PROVE  LET new == Refreshed(list, i, t)
         IN  /\ new \in Seq(Node) /\ OneEach(new) /\ Len(new) = Len(list)
             /\ new[i].mac = list[i].mac /\ new[i].ip = list[i].ip /\ new[i].timer = t
             /\ \A j \in 1 .. Len(list) : new[j].mac = list[j].mac /\ new[j].ip = list[j].ip
             /\ \A j \in 1 .. Len(list) : j # i => new[j] = list[j]
             /\ OthersKept(list, new, list[i].mac)
<1> DEFINE new == [list EXCEPT ![i].timer = t]
<1>1. Len(list) \in Nat /\ DOMAIN list = 1 .. Len(list) /\ \A j \in 1 .. Len(list) : list[j] \in Node
  OBVIOUS
<1>2. DOMAIN new = 1 .. Len(list) /\ \A j \in 1 .. Len(list) : j # i => new[j] = list[j]
  BY <1>1
<1>3. new[i] = [list[i] EXCEPT !.timer = t]
  BY <1>1
<1>4. /\ new[i] \in Node /\ new[i].mac = list[i].mac
      /\ new[i].ip = list[i].ip /\ new[i].timer = t
  BY <1>1, <1>3 DEF Node
<1>5. new \in Seq(Node) /\ Len(new) = Len(list)
  BY <1>1, <1>4
<1> HIDE DEF new
<1>6. \A j \in 1 .. Len(list) : new[j].mac = list[j].mac /\ new[j].ip = list[j].ip
  BY <1>2, <1>4
<1>7. OneEach(new)
  BY <1>5, <1>6 DEF OneEach
<1>8. ASSUME NEW m \in Macs \ {list[i].mac} PROVE LeasesOf(new, m) = LeasesOf(list, m)
  <2>1. \A j \in 1 .. Len(list) : list[j].mac = m => j # i
    BY <1>8
  <2>2. {j \in DOMAIN new : new[j].mac = m} = {j \in DOMAIN list : list[j].mac = m}
    BY <1>1, <1>2, <1>6
  <2>3. \A j \in {k \in DOMAIN list : list[k].mac = m} : new[j] = list[j]
    BY <1>1, <1>2, <2>1
  <2> QED BY <2>2, <2>3 DEF LeasesOf
<1> QED BY <1>2, <1>4, <1>5, <1>6, <1>7, <1>8 DEF new, Refreshed, OthersKept
-----------------------------------------------------------------------------
(* The address of a new lease, and the node the answer is about *)

\* What the steps of the server keep of its state.
ServerOK ==
  /\ PoolOK
  /\ plus \in Nat
  /\ resv \in [Macs -> Nat]
  /\ leases \in Seq(Node) /\ OneEach(leases)
  /\ Live(leases)

\* What the whole search returns.
LEMMA SearchStays ==
  ASSUME ServerOK, NEW list \in Seq(Node)
  PROVE  Search(list) \in Walk
<1>1. plus \in Nat /\ StartIP \in Nat
  BY DEF ServerOK, PoolOK, StartIP
<1>2. Len(list) \in 0 .. Len(list)
  OBVIOUS
<1>3. PICK g \in [0 .. Len(list) -> Walk] : Search(list) = g[Len(list)]
  BY <1>1, SearchStages
<1> QED BY <1>2, <1>3

\* SkipReserved ends at the first address that is not reserved for another client,
\* or behind the pool.
LEMMA Skipped ==
  ASSUME ServerOK, NEW m \in Macs, NEW ip \in Nat
  PROVE  /\ SkipReserved(ip, m) \in Nat
         /\ SkipReserved(ip, m) <= EndIP => ~is_ip_reserved_for_other(SkipReserved(ip, m), m)
         /\ ~is_ip_reserved_for_other(ip, m) => SkipReserved(ip, m) = ip
<1>1. EndIP \in Nat
  BY DEF ServerOK, PoolOK, EndIP
<1>2. CASE ip > EndIP
  BY <1>1, <1>2 DEF SkipReserved
<1>3. CASE ip <= EndIP
  <2> DEFINE Open(a) == a = EndIP + 1 \/ ~is_ip_reserved_for_other(a, m)
             open == {a \in ip .. (EndIP + 1) : Open(a)}
             Found(a) == Open(a) /\ \A b \in ip .. (a - 1) : is_ip_reserved_for_other(b, m)
             a == SkipReserved(ip, m)
  <2> HIDE DEF Open
  <2>1. EndIP + 1 \in open
    BY <1>1, <1>3 DEF Open
  <2>2. PICK s \in open : \A u \in open : s <= u
    <3>1. open \in SUBSET Nat
      BY <1>1
    <3> QED BY <2>1, <3>1, Smallest
  <2>3. \A b \in ip .. (s - 1) : is_ip_reserved_for_other(b, m)
    <3> TAKE b \in ip .. (s - 1)
    <3>1. b \in ip .. (EndIP + 1) /\ ~(s <= b)
      BY <1>1, <2>2
    <3> QED BY <2>2, <3>1 DEF Open
  <2>4. s \in ip .. (EndIP + 1) /\ Found(s)
    BY <2>2, <2>3
  <2>5. a = CHOOSE b \in ip .. (EndIP + 1) : Found(b)
    BY <1>1, <1>3 DEF SkipReserved, Open
  <2> HIDE DEF Found, a
  <2>6. a \in ip .. (EndIP + 1) /\ Found(a)
    BY <2>4, <2>5
  <2>7. a <= EndIP => ~is_ip_reserved_for_other(a, m)
    BY <1>1, <2>6 DEF Found, Open
  <2>8. ~is_ip_reserved_for_other(ip, m) => a = ip
    BY <1>1, <2>6 DEF Found
  <2> QED BY <1>1, <2>6, <2>7, <2>8 DEF a
<1> QED BY <1>1, <1>2, <1>3

\* The address of a new lease is the client's own reservation, or else not
\* reserved for another client.
LEMMA Chosen ==
  ASSUME ServerOK, NEW m \in Macs, NEW w \in Walk
  PROVE  LET ip == ChosenAddress(m, w)
         IN  /\ ip \in Nat
             /\ resv[m] # NoAddress => ip = resv[m]
             /\ resv[m] = NoAddress /\ ip <= EndIP => ~is_ip_reserved_for_other(ip, m)
<1>1. CASE resv[m] # NoAddress
  BY <1>1 DEF ServerOK, ChosenAddress, lookup_dhcp_reservation
<1>2. CASE resv[m] = NoAddress
  <2> DEFINE next == IF leases = <<>> /\ ~declined THEN StartIP ELSE w.plus
             pool == IF w.plus > EndIP THEN w.first ELSE next
  <2>1. pool \in Nat
    BY DEF ServerOK, PoolOK, StartIP, Walk
  <2>2. ChosenAddress(m, w) = SkipReserved(pool, m)
    BY <1>2 DEF ChosenAddress, lookup_dhcp_reservation
  <2> HIDE DEF pool
  <2> QED BY <1>2, <2>1, <2>2, Skipped
<1> QED BY <1>1, <1>2

\* What Located finds for a client: its own node, refreshed or new, or no node and
\* an address behind the pool.  No other client's node is touched.
LEMMA LocatedKeeps ==
  ASSUME ServerOK, NEW m \in Macs
  PROVE  LET l == Located(m)
         IN  /\ l.leases \in Seq(Node) /\ OneEach(l.leases) /\ l.plus \in Nat /\ l.client \in Nat
             /\ OthersKept(leases, l.leases, m)
             /\ \/ /\ l.node = 0 /\ l.client > EndIP /\ ~HasLease(m) /\ l.leases = leases
                \/ /\ l.node \in 1 .. Len(l.leases)
                   /\ l.leases[l.node] = [mac |-> m, ip |-> l.client, timer |-> LeaseTicks]
<1>1. EndIP \in Nat /\ StartIP \in Nat /\ LeaseTicks \in Nat \ {0}
  BY DhcpAssumption DEF ServerOK, PoolOK, EndIP, StartIP
<1>2. leases \in Seq(Node) /\ OneEach(leases) /\ Len(leases) \in Nat
      /\ DOMAIN leases = 1 .. Len(leases) /\ \A i \in 1 .. Len(leases) : leases[i] \in Node
  BY DEF ServerOK
<1>3. CASE HasLease(m)
  <2> DEFINE i == Holder(m)
             w == Search(SubSeq(leases, 1, i - 1))
             new == Refreshed(leases, i, LeaseTicks)
  <2>1. i \in 1 .. Len(leases) /\ leases[i].mac = m
    <3>1. PICK j \in 1 .. Len(leases) : leases[j].mac = m
      BY <1>2, <1>3 DEF HasLease
    <3>2. \A k \in 1 .. (j - 1) : leases[k].mac # m
      BY <1>2, <3>1 DEF OneEach
    <3> QED BY <1>2, <3>1, <3>2 DEF Holder
  <2> HIDE DEF i
  <2>2. SubSeq(leases, 1, i - 1) \in Seq(Node)
    BY <1>2, <2>1
  <2>3. w.plus \in Nat
    BY <2>2, SearchStays DEF Walk
  <2>4. Located(m) = [leases |-> new, node |-> i, client |-> leases[i].ip, plus |-> w.plus]
    BY <1>3 DEF Located, Refreshed, i
  <2>5. /\ new \in Seq(Node) /\ OneEach(new) /\ Len(new) = Len(leases)
        /\ new[i].mac = m /\ new[i].ip = leases[i].ip /\ new[i].timer = LeaseTicks
        /\ OthersKept(leases, new, m)
    <3>1. LeaseTicks \in Nat /\ leases \in Seq(Node) /\ OneEach(leases)
      BY <1>1, <1>2
    <3>2. /\ new \in Seq(Node) /\ OneEach(new) /\ Len(new) = Len(leases)
          /\ new[i].mac = leases[i].mac /\ new[i].ip = leases[i].ip /\ new[i].timer = LeaseTicks
      BY <2>1, <3>1, RefreshKeeps
    <3>3. OthersKept(leases, new, leases[i].mac)
      BY <2>1, <3>1, RefreshKeeps
    <3> HIDE DEF new
    <3> QED BY <2>1, <3>2, <3>3
  <2> HIDE DEF new, w
  <2>6. leases[i].ip \in Nat /\ new[i] \in Node
    <3>1. leases[i] \in Node /\ i \in 1 .. Len(new)
      BY <1>2, <2>1, <2>5
    <3>2. new[i] \in Node
      BY <2>5, <3>1
    <3> QED BY <3>1, <3>2 DEF Node
  <2>7. new[i] = [mac |-> m, ip |-> leases[i].ip, timer |-> LeaseTicks]
    BY <2>5, <2>6 DEF Node
  <2> QED BY <2>1, <2>3, <2>4, <2>5, <2>6, <2>7
<1>4. CASE ~HasLease(m)
  <2> DEFINE w == Search(leases)
             ip == ChosenAddress(m, w)
             e == [mac |-> m, ip |-> ip, timer |-> LeaseTicks]
             list == node_insert_to_list(leases, e)
             i == CHOOSE k \in DOMAIN list : list[k].mac = m
             next == IF ip = EndIP THEN StartIP ELSE ip + 1
  <2>1. ip \in Nat
    BY <1>2, SearchStays, Chosen
  <2>2. Located(m) = IF ip > EndIP
                     THEN [leases |-> leases, node |-> 0, client |-> ip, plus |-> StartIP]
                     ELSE [leases |-> list, client |-> ip, node |-> i, plus |-> next]
    BY <1>4 DEF Located
  <2> HIDE DEF w, ip
  <2>3. e \in Node
    BY <1>1, <2>1 DEF Node
  <2>4. \A j \in 1 .. Len(leases) : leases[j].mac # e.mac
    BY <1>2, <1>4 DEF HasLease
  <2> HIDE DEF e
  <2>5. /\ list \in Seq(Node) /\ OneEach(list)
        /\ \E k \in 1 .. Len(list) : list[k] = e
        /\ OthersKept(leases, list, e.mac)
    BY <1>2, <2>3, <2>4, InsertKeeps
  <2>6. PICK k \in 1 .. Len(list) : list[k] = e
    BY <2>5
  <2> HIDE DEF list
  <2>7. e.mac = m /\ DOMAIN list = 1 .. Len(list)
    BY <2>5 DEF e
  <2>8. i \in 1 .. Len(list) /\ list[i].mac = m
    BY <2>6, <2>7
  <2> HIDE DEF i
  <2>9. i = k
    BY <2>5, <2>6, <2>7, <2>8 DEF OneEach
  <2>10. next \in Nat
    BY <1>1, <2>1
  <2> HIDE DEF next
  <2>11. CASE ip > EndIP
    BY <1>1, <1>2, <1>4, <2>1, <2>2, <2>11 DEF OthersKept
  <2>12. CASE ~(ip > EndIP)
    <3>1. Located(m) = [leases |-> list, client |-> ip, node |-> i, plus |-> next]
      BY <2>2, <2>12
    <3>2. list[i] = [mac |-> m, ip |-> ip, timer |-> LeaseTicks]
      BY <2>6, <2>9 DEF e
    <3> QED BY <2>1, <2>5, <2>7, <2>8, <2>10, <3>1, <3>2
  <2> QED BY <2>11, <2>12
<1> QED BY <1>3, <1>4

\* The walk stops at the client's only node.
LEMMA OnlyHolder ==
  ASSUME NEW list \in Seq(Node), OneEach(list), NEW i \in 1 .. Len(list)
  PROVE  (CHOOSE j \in DOMAIN list :
            list[j].mac = list[i].mac /\ \A k \in 1 .. (j - 1) : list[k].mac # list[i].mac) = i
<1>1. DOMAIN list = 1 .. Len(list) /\ Len(list) \in Nat
  OBVIOUS
<1>2. \A k \in 1 .. (i - 1) : list[k].mac # list[i].mac
  BY <1>1 DEF OneEach
<1> QED BY <1>1, <1>2 DEF OneEach

\* The other clients' leases are live because they are what they were.
LEMMA OthersLive ==
  ASSUME NEW list \in Seq(Node), Live(list), NEW new \in Seq(Node), NEW m \in Macs,
         OthersKept(list, new, m),
         \A i \in 1 .. Len(new) : new[i].mac = m => new[i].timer # 0
  PROVE  Live(new)
<1> SUFFICES ASSUME NEW i \in 1 .. Len(new), new[i].mac # m PROVE new[i].timer # 0
  BY DEF Live
<1>1. new[i] \in Node
  OBVIOUS
<1>2. new[i].mac \in Macs \ {m}
  BY <1>1 DEF Node
<1>3. new[i] \in LeasesOf(new, new[i].mac)
  BY DEF LeasesOf
<1>4. new[i] \in LeasesOf(list, new[i].mac)
  BY <1>2, <1>3 DEF OthersKept
<1>5. PICK j \in DOMAIN list : list[j] = new[i]
  BY <1>4 DEF LeasesOf
<1>6. j \in 1 .. Len(list)
  OBVIOUS
<1> QED BY <1>5, <1>6 DEF Live

\* What a message does to the list, and what its answer says of it.
LEMMA HandleKeeps ==
  ASSUME ServerOK, NEW msg \in Messages, handle_dhcp(msg)
  PROVE  /\ ServerOK' /\ ReplyMatchesLease'
         /\ reply'.mac = msg.mac
         /\ OthersKept(leases, leases', msg.mac)
         /\ HasLease(msg.mac)' =>
              /\ LeaseOf(msg.mac)' = [mac |-> msg.mac, ip |-> Located(msg.mac).client,
                                      timer |-> LeaseTicks]
              /\ Located(msg.mac).client <= EndIP
<1> DEFINE m == msg.mac
           l == Located(m)
           v == Verdict(msg, l)
<1>1. m \in Macs /\ msg.type \in MsgTypes
  BY DEF Messages, Message, MsgTypes
<1>2. /\ l.leases \in Seq(Node) /\ OneEach(l.leases) /\ l.plus \in Nat /\ l.client \in Nat
      /\ OthersKept(leases, l.leases, m)
      /\ \/ l.node = 0 /\ l.client > EndIP /\ ~HasLease(m) /\ l.leases = leases
         \/ /\ l.node \in 1 .. Len(l.leases)
            /\ l.leases[l.node] = [mac |-> m, ip |-> l.client, timer |-> LeaseTicks]
  BY <1>1, LocatedKeeps
<1>3. EndIP \in Nat /\ LeaseTicks \in Nat \ {0}
  BY DhcpAssumption DEF ServerOK, PoolOK, EndIP
<1>4. /\ leases' = IF l.node # 0 /\ Refused(v) THEN RemoveAt(l.leases, l.node) ELSE l.leases
      /\ plus' = l.plus
      /\ reply' = [mac |-> m, type |-> msg.type, verdict |-> v,
                   ip |-> IF Refused(v) /\ l.client <= EndIP THEN NoAddress ELSE l.client]
      /\ UNCHANGED <<server_address, poll, state, resv>>
  BY DEF handle_dhcp
<1>5. l.client > EndIP => v = "NAK"
  BY DEF Verdict
<1>6. leases \in Seq(Node) /\ OneEach(leases) /\ Live(leases)
  BY DEF ServerOK
<1> HIDE DEF l, v, m
<1>7. /\ leases' \in Seq(Node) /\ OneEach(leases')
      /\ OthersKept(leases, leases', m)
      /\ \A i \in 1 .. Len(leases') : leases'[i].mac = m => leases'[i].timer # 0
      /\ ReplyMatchesLease'
      /\ HasLease(m)' => /\ LeaseOf(m)' = [mac |-> m, ip |-> l.client, timer |-> LeaseTicks]
                         /\ l.client <= EndIP
  <2>1. CASE l.node = 0
    <3>1. v = "NAK" /\ leases' = leases /\ ~HasLease(m)
      BY <1>2, <1>4, <1>5, <2>1
    <3>2. ~HasLease(m)'
      BY <3>1 DEF HasLease, m
    <3>3. ReplyMatchesLease'
      BY <1>4, <3>1, <3>2 DEF ReplyMatchesLease
    <3>4. OthersKept(leases, leases', m) /\ leases' \in Seq(Node) /\ OneEach(leases')
      BY <1>6, <3>1 DEF OthersKept
    <3>5. \A i \in 1 .. Len(leases') : leases'[i].mac # m
      BY <1>6, <3>1 DEF HasLease
    <3> QED BY <3>2, <3>3, <3>4, <3>5
  <2>2. CASE l.node # 0 /\ Refused(v)
    <3>1. l.node \in 1 .. Len(l.leases) /\ l.leases[l.node].mac = m
      BY <1>2, <2>2
    <3> DEFINE new == RemoveAt(l.leases, l.node)
    <3>2. leases' = new
      BY <1>4, <2>2
    <3>3. /\ new \in Seq(Node) /\ OneEach(new)
          /\ \A j \in 1 .. Len(new) : new[j].mac # l.leases[l.node].mac
          /\ OthersKept(l.leases, new, l.leases[l.node].mac)
      BY <1>2, <3>1, RemoveKeeps
    <3> HIDE DEF new
    <3>4. ~HasLease(m)'
      BY <3>1, <3>2, <3>3 DEF HasLease, m
    <3>5. ReplyMatchesLease'
      BY <1>4, <2>2, <3>4 DEF ReplyMatchesLease, Refused
    <3>6. OthersKept(leases, leases', m)
      BY <1>2, <3>1, <3>2, <3>3 DEF OthersKept
    <3> QED BY <3>1, <3>2, <3>3, <3>4, <3>5, <3>6
  <2>3. CASE l.node # 0 /\ ~Refused(v)
    <3>1. l.node \in 1 .. Len(l.leases)
          /\ l.leases[l.node] = [mac |-> m, ip |-> l.client, timer |-> LeaseTicks]
      BY <1>2, <2>3
    <3>2. leases' = l.leases /\ reply'.ip = l.client /\ reply'.mac = m /\ reply'.verdict = v
      BY <1>4, <2>3
    <3>3. HasLease(m)'
      BY <1>2, <3>1, <3>2 DEF HasLease, m
    <3>4. Holder(m)' = l.node
      <4>1. l.leases[l.node].mac = m
        BY <3>1
      <4>2. (CHOOSE j \in DOMAIN l.leases :
              /\ l.leases[j].mac = l.leases[l.node].mac
              /\ \A k \in 1 .. (j - 1) : l.leases[k].mac # l.leases[l.node].mac) = l.node
        BY <1>2, <3>1, OnlyHolder
      <4> QED BY <3>2, <4>1, <4>2 DEF Holder, m
    <3>5. LeaseOf(m)' = [mac |-> m, ip |-> l.client, timer |-> LeaseTicks]
      BY <3>1, <3>2, <3>4 DEF LeaseOf, m
    <3>6. ReplyMatchesLease'
      BY <2>3, <3>2, <3>3, <3>5 DEF ReplyMatchesLease, m
    <3>7. \A i \in 1 .. Len(leases') : leases'[i].mac = m => leases'[i].timer # 0
      <4>1. \A i \in 1 .. Len(l.leases) : l.leases[i].mac = m => i = l.node
        BY <1>2, <3>1 DEF OneEach
      <4> QED BY <1>3, <3>1, <3>2, <4>1
    <3>8. l.client <= EndIP
      BY <1>2, <1>3, <1>5, <2>3 DEF Refused
    <3> QED BY <1>2, <3>2, <3>5, <3>6, <3>7, <3>8
  <2> QED BY <2>1, <2>2, <2>3
<1>8. Live(leases')
  BY <1>1, <1>6, <1>7, OthersLive
<1>9. ServerOK'
  BY <1>2, <1>4, <1>7, <1>8 DEF ServerOK, PoolOK
<1>10. reply'.mac = m
  BY <1>4
<1>11. OthersKept(leases, leases', m) /\ ReplyMatchesLease'
  BY <1>7
<1>12. OthersKept(leases, leases', msg.mac) /\ reply'.mac = msg.mac
  BY <1>10, <1>11 DEF m
<1>13. HasLease(msg.mac)' =>
         /\ LeaseOf(msg.mac)' = [mac |-> msg.mac, ip |-> Located(msg.mac).client,
                                 timer |-> LeaseTicks]
         /\ Located(msg.mac).client <= EndIP
  BY <1>7 DEF l, m
<1> QED BY <1>9, <1>11, <1>12, <1>13
-----------------------------------------------------------------------------
(* The timer *)

\* new holds nodes of list, in their order, with a second less; from gives where
\* each comes from, and what is missing had no more time left than what stays.
Survivors(list, new, from) ==
  /\ \A j \in 1 .. Len(new) :
       /\ new[j].mac = list[from[j]].mac /\ new[j].ip = list[from[j]].ip
       /\ new[j].timer # 0 /\ new[j].timer = list[from[j]].timer - 1
  /\ \A j, k \in 1 .. Len(new) : j < k => from[j] < from[k]
  /\ \A i \in 1 .. Len(list) :
       \/ \E j \in 1 .. Len(new) : from[j] = i
       \/ \A j \in 1 .. Len(new) : list[i].timer <= list[from[j]].timer

SomeSurvivors(list, new) ==
  \E from \in [1 .. Len(new) -> 1 .. Len(list)] : Survivors(list, new, from)

\* A second less, never below zero.
LEMMA AgedNodes ==
  ASSUME NEW list \in Seq(Node), Live(list)
  PROVE  /\ Aged(list) \in Seq(Node) /\ Len(Aged(list)) = Len(list)
         /\ \A i \in 1 .. Len(list) :
              /\ Aged(list)[i].mac = list[i].mac /\ Aged(list)[i].ip = list[i].ip
              /\ Aged(list)[i].timer = list[i].timer - 1
<1>1. DOMAIN list = 1 .. Len(list) /\ Len(list) \in Nat
      /\ \A i \in 1 .. Len(list) : list[i] \in Node
  OBVIOUS
<1>2. DOMAIN Aged(list) = 1 .. Len(list)
      /\ \A i \in 1 .. Len(list) : Aged(list)[i] = [list[i] EXCEPT !.timer = @ - 1]
  BY <1>1 DEF Aged
<1>3. Aged(list) = [i \in 1 .. Len(list) |-> Aged(list)[i]]
  BY <1>1 DEF Aged
<1>4. \A i \in 1 .. Len(list) :
        /\ Aged(list)[i].mac = list[i].mac /\ Aged(list)[i].ip = list[i].ip
        /\ Aged(list)[i].timer = list[i].timer - 1
        /\ Aged(list)[i] \in Node
  BY <1>1, <1>2 DEF Live, Node
<1> QED BY <1>1, <1>3, <1>4

\* What the timer leaves before it looks at the number of leases.
LEMMA RunningSurvive ==
  ASSUME NEW list \in Seq(Node), Live(list)
  PROVE  Remaining(Aged(list)) \in Seq(Node) /\ SomeSurvivors(list, Remaining(Aged(list)))
<1> DEFINE aged == Aged(list)
           left == Remaining(aged)
<1>1. /\ aged \in Seq(Node) /\ Len(aged) = Len(list)
      /\ \A i \in 1 .. Len(list) :
           /\ aged[i].mac = list[i].mac /\ aged[i].ip = list[i].ip
           /\ aged[i].timer = list[i].timer - 1
  BY AgedNodes
<1> HIDE DEF aged
<1>2. left \in Seq(Node) /\ SomeRunningOf(aged, left)
  BY <1>1, Remained
<1> HIDE DEF left
<1>3. PICK from \in [1 .. Len(left) -> 1 .. Len(aged)] : RunningOf(aged, left, from)
  BY <1>2 DEF SomeRunningOf
<1>4. \A i \in 1 .. Len(list) : list[i].timer \in Nat \ {0}
  <2>1. \A i \in 1 .. Len(list) : list[i] \in Node
    OBVIOUS
  <2> QED BY <2>1 DEF Node, Live
<1>5. \A j \in 1 .. Len(left) : from[j] \in 1 .. Len(list)
  BY <1>1, <1>3
<1>6. \A i \in 1 .. Len(list) :
        \/ \E j \in 1 .. Len(left) : from[j] = i
        \/ \A j \in 1 .. Len(left) : list[i].timer <= list[from[j]].timer
  <2> SUFFICES ASSUME NEW i \in 1 .. Len(list), ~\E j \in 1 .. Len(left) : from[j] = i,
                      NEW j \in 1 .. Len(left)
               PROVE  list[i].timer <= list[from[j]].timer
    OBVIOUS
  <2>1. list[i].timer = 1
    <3>1. aged[i].timer = 0
      BY <1>1, <1>3 DEF RunningOf
    <3> QED BY <1>1, <1>4, <3>1
  <2> QED BY <1>4, <1>5, <2>1
<1>7. \A j \in 1 .. Len(left) :
        /\ left[j].mac = list[from[j]].mac /\ left[j].ip = list[from[j]].ip
        /\ left[j].timer # 0 /\ left[j].timer = list[from[j]].timer - 1
  BY <1>1, <1>3, <1>5 DEF RunningOf
<1>8. Survivors(list, left, from)
  BY <1>3, <1>6, <1>7 DEF Survivors, RunningOf
<1> QED BY <1>1, <1>2, <1>3, <1>8 DEF left, aged, SomeSurvivors

\* The node kill_oldest_dhcps_pool removes has the least time left.
LEMMA Killed ==
  ASSUME NEW list \in Seq(Node), Len(list) > 0
  PROVE  \E v \in 1 .. Len(list) :
           /\ kill_oldest_dhcps_pool(list) = RemoveAt(list, v)
           /\ \A j \in 1 .. Len(list) : list[v].timer <= list[j].timer
<1> DEFINE times == {list[i].timer : i \in 1 .. Len(list)}
<1>1. DOMAIN list = 1 .. Len(list) /\ Len(list) \in Nat
  OBVIOUS
<1>2. \A i \in 1 .. Len(list) : list[i].timer \in Nat
  <2>1. \A i \in 1 .. Len(list) : list[i] \in Node
    OBVIOUS
  <2> QED BY <2>1 DEF Node
<1>3. PICK t \in times : \A u \in times : t <= u
  <2>1. times \in SUBSET Nat
    BY <1>2
  <2>2. list[1].timer \in times
    BY <1>1
  <2> HIDE DEF times
  <2> QED BY <2>1, <2>2, Smallest
<1> DEFINE least == {i \in 1 .. Len(list) : list[i].timer = t}
<1>4. PICK i \in least : \A j \in least : i <= j
  <2>1. least \in SUBSET Nat /\ least # {}
    BY <1>3
  <2> HIDE DEF least
  <2> QED BY <2>1, Smallest
<1>5. \A j \in 1 .. Len(list) : list[i].timer <= list[j].timer
  BY <1>3, <1>4
<1>6. \A j \in 1 .. (i - 1) : list[i].timer < list[j].timer
  <2> TAKE j \in 1 .. (i - 1)
  <2>1. j \in 1 .. Len(list) /\ j \notin least
    BY <1>1, <1>4
  <2> QED BY <1>2, <1>4, <1>5, <2>1
<1> DEFINE Least(j) == /\ \A k \in DOMAIN list : list[j].timer <= list[k].timer
                       /\ \A k \in 1 .. (j - 1) : list[j].timer < list[k].timer
           v == CHOOSE j \in DOMAIN list : Least(j)
<1>7. i \in DOMAIN list /\ Least(i)
  BY <1>1, <1>4, <1>5, <1>6
<1>8. kill_oldest_dhcps_pool(list) = RemoveAt(list, v)
  BY DEF kill_oldest_dhcps_pool
<1>9. v \in DOMAIN list /\ Least(v)
  <2> HIDE DEF Least
  <2> QED BY <1>7
<1> HIDE DEF v
<1> QED BY <1>1, <1>8, <1>9

\* What the timer leaves, too many leases or not.
LEMMA TimerLeaves ==
  ASSUME leases \in Seq(Node), Live(leases), dhcps_tmr
  PROVE  leases' \in Seq(Node) /\ SomeSurvivors(leases, leases')
<1> DEFINE left == Remaining(Aged(leases))
<1>1. left \in Seq(Node) /\ SomeSurvivors(leases, left)
  BY RunningSurvive
<1>2. leases' = IF Len(left) > MaxStations THEN kill_oldest_dhcps_pool(left) ELSE left
  BY DEF dhcps_tmr
<1> HIDE DEF left
<1>3. MaxStations \in Nat /\ Len(left) \in Nat /\ Len(leases) \in Nat
  BY <1>1, DhcpAssumption
<1>4. CASE Len(left) > MaxStations
  <2>1. PICK v \in 1 .. Len(left) :
          /\ kill_oldest_dhcps_pool(left) = RemoveAt(left, v)
          /\ \A j \in 1 .. Len(left) : left[v].timer <= left[j].timer
    BY <1>1, <1>3, <1>4, Killed
  <2> DEFINE new == RemoveAt(left, v)
             At(j) == IF j < v THEN j ELSE j + 1
  <2>2. leases' = new
    BY <1>2, <1>4, <2>1
  <2>3. /\ new \in Seq(Node) /\ Len(new) = Len(left) - 1
        /\ \A j \in 1 .. (Len(left) - 1) : new[j] = IF j < v THEN left[j] ELSE left[j + 1]
    BY <1>1, RemovedAt
  <2> HIDE DEF new
  <2>4. \A j \in 1 .. Len(new) : At(j) \in 1 .. Len(left) /\ new[j] = left[At(j)]
    BY <1>3, <2>3
  <2>5. \A j, k \in 1 .. Len(new) : j < k => At(j) < At(k)
    BY <1>3, <2>3
  <2>6. \A i \in 1 .. Len(left) : i # v => \E j \in 1 .. Len(new) : At(j) = i
    <3> SUFFICES ASSUME NEW i \in 1 .. Len(left), i # v
                 PROVE  \E j \in 1 .. Len(new) : At(j) = i
      OBVIOUS
    <3>1. CASE i < v
      <4>1. i \in 1 .. Len(new) /\ At(i) = i
        BY <1>3, <2>3, <3>1
      <4> QED BY <4>1
    <3>2. CASE i > v
      <4>1. i - 1 \in 1 .. Len(new) /\ At(i - 1) = i
        BY <1>3, <2>3, <3>2
      <4> QED BY <4>1
    <3> QED BY <1>3, <3>1, <3>2
  <2> HIDE DEF At
  <2>7. PICK from \in [1 .. Len(left) -> 1 .. Len(leases)] : Survivors(leases, left, from)
    BY <1>1 DEF SomeSurvivors
  <2> DEFINE f == [j \in 1 .. Len(new) |-> from[At(j)]]
  <2>8. f \in [1 .. Len(new) -> 1 .. Len(leases)]
    BY <2>4
  <2>9. \A j \in 1 .. Len(new) :
          /\ new[j].mac = leases[f[j]].mac /\ new[j].ip = leases[f[j]].ip
          /\ new[j].timer # 0 /\ new[j].timer = leases[f[j]].timer - 1
    BY <2>4, <2>7 DEF Survivors
  <2>10. \A j, k \in 1 .. Len(new) : j < k => f[j] < f[k]
    BY <2>4, <2>5, <2>7 DEF Survivors
  <2>11. \A i \in 1 .. Len(leases) :
           \/ \E j \in 1 .. Len(new) : f[j] = i
           \/ \A j \in 1 .. Len(new) : leases[i].timer <= leases[f[j]].timer
    <3> TAKE i \in 1 .. Len(leases)
    <3>1. CASE \A j \in 1 .. Len(left) : leases[i].timer <= leases[from[j]].timer
      BY <2>4, <3>1
    <3>2. ASSUME NEW k \in 1 .. Len(left), from[k] = i, k # v
          PROVE  \E j \in 1 .. Len(new) : f[j] = i
      BY <2>6, <3>2
    <3>3. CASE from[v] = i
      <4> SUFFICES ASSUME NEW j \in 1 .. Len(new)
                   PROVE  leases[i].timer <= leases[f[j]].timer
        OBVIOUS
      <4>1. At(j) \in 1 .. Len(left) /\ f[j] = from[At(j)] /\ f[j] \in 1 .. Len(leases)
        BY <2>4, <2>8
      <4>2. left[v].timer <= left[At(j)].timer
        BY <2>1, <4>1
      <4>3. left[v].timer = leases[i].timer - 1 /\ left[At(j)].timer = leases[f[j]].timer - 1
        BY <2>7, <3>3, <4>1 DEF Survivors
      <4>4. leases[i].timer \in Nat /\ leases[f[j]].timer \in Nat
        <5>1. leases[i] \in Node /\ leases[f[j]] \in Node
          BY <4>1
        <5> QED BY <5>1 DEF Node
      <4>5. leases[i].timer - 1 <= leases[f[j]].timer - 1
        BY <4>2, <4>3
      <4> HIDE DEF f
      <4> QED BY <4>4, <4>5
    <3> QED BY <2>7, <3>1, <3>2, <3>3 DEF Survivors
  <2> HIDE DEF f
  <2>12. Survivors(leases, new, f)
    BY <2>9, <2>10, <2>11 DEF Survivors
  <2> QED BY <2>2, <2>3, <2>8, <2>12 DEF SomeSurvivors
<1>5. CASE ~(Len(left) > MaxStations)
  BY <1>1, <1>2, <1>5
<1> QED BY <1>4, <1>5

\* The steps of the server, one by one.
LEMMA TimerKeeps == ServerOK /\ dhcps_tmr => ServerOK'
<1> SUFFICES ASSUME ServerOK, dhcps_tmr PROVE ServerOK'
  OBVIOUS
<1>1. leases \in Seq(Node) /\ OneEach(leases) /\ Live(leases)
  BY DEF ServerOK
<1>2. leases' \in Seq(Node) /\ SomeSurvivors(leases, leases')
  BY <1>1, TimerLeaves
<1>3. PICK from \in [1 .. Len(leases') -> 1 .. Len(leases)] : Survivors(leases, leases', from)
  BY <1>2 DEF SomeSurvivors
<1>4. Live(leases')
  BY <1>3 DEF Live, Survivors
<1>5. OneEach(leases')
  <2> SUFFICES ASSUME NEW j \in 1 .. Len(leases'), NEW k \in 1 .. Len(leases'),
                      leases'[j].mac = leases'[k].mac
               PROVE  j = k
    BY DEF OneEach
  <2>1. from[j] = from[k]
    <3>1. leases[from[j]].mac = leases[from[k]].mac
      BY <1>3 DEF Survivors
    <3>2. from[j] \in 1 .. Len(leases) /\ from[k] \in 1 .. Len(leases)
      BY <1>3
    <3> QED BY <1>1, <3>1, <3>2 DEF OneEach
  <2>2. ~(j < k) /\ ~(k < j)
    BY <1>3, <2>1 DEF Survivors
  <2> QED BY <2>2
<1> QED BY <1>2, <1>4, <1>5 DEF ServerOK, PoolOK, dhcps_tmr

LEMMA StartKeeps == ServerOK /\ PoolInv /\ dhcps_start => ServerOK'
<1> SUFFICES ASSUME ServerOK, PoolInv, dhcps_start PROVE ServerOK'
  OBVIOUS
<1>1. PoolOK'
  BY StartPoolInv DEF PoolInv
<1>2. plus' = poll'.start /\ UNCHANGED <<leases, resv>>
  BY DEF dhcps_start
<1>3. plus' \in Nat
  BY <1>1, <1>2 DEF PoolOK
<1> QED BY <1>1, <1>2, <1>3 DEF ServerOK

\* Whatever happens, the list holds a node at most for each client, with time left.
LEMMA NextServerOK == ServerOK /\ PoolInv /\ [Next]_vars => ServerOK'
<1> SUFFICES ASSUME ServerOK, PoolInv, [Next]_vars PROVE ServerOK'
  OBVIOUS
<1>1. CASE dhcps_start
  BY <1>1, StartKeeps
<1>2. CASE dhcps_stop
  <2>1. leases' = <<>> /\ Len(<<>>) = 0 /\ <<>> \in Seq(Node)
    BY <1>2 DEF dhcps_stop
  <2>2. leases' \in Seq(Node) /\ OneEach(leases') /\ Live(leases')
    BY <2>1 DEF OneEach, Live
  <2> QED BY <1>2, <2>2 DEF ServerOK, PoolOK, dhcps_stop
<1>3. CASE dhcps_tmr
  BY <1>3, TimerKeeps
<1>4. ASSUME NEW msg \in Messages, handle_dhcp(msg) PROVE ServerOK'
  BY <1>4, HandleKeeps
<1>5. ASSUME NEW m \in Macs, NEW ip \in Addresses, add_dhcp_reservation(m, ip) PROVE ServerOK'
  <2>1. resv' \in [Macs -> Nat]
    BY <1>5, DhcpAssumption DEF add_dhcp_reservation, ServerOK
  <2> QED BY <1>5, <2>1 DEF add_dhcp_reservation, ServerOK, PoolOK
<1>6. ASSUME NEW m \in Macs, del_dhcp_reservation(m) PROVE ServerOK'
  <2>1. resv' \in [Macs -> Nat]
    BY <1>6 DEF del_dhcp_reservation, ServerOK, NoAddress
  <2> QED BY <1>6, <2>1 DEF del_dhcp_reservation, ServerOK, PoolOK
<1>7. CASE UNCHANGED vars
  BY <1>7 DEF vars, ServerOK, PoolOK
<1> QED BY <1>1, <1>2, <1>3, <1>4, <1>5, <1>6, <1>7 DEF Next

LEMMA InitServerOK == Init => ServerOK
<1> SUFFICES ASSUME Init PROVE ServerOK
  OBVIOUS
<1>1. leases = <<>> /\ Len(<<>>) = 0 /\ <<>> \in Seq(Node)
  BY DEF Init
<1>2. leases \in Seq(Node) /\ OneEach(leases) /\ Live(leases)
  BY <1>1 DEF OneEach, Live
<1>3. PoolOK
  BY InitPoolInv DEF PoolInv
<1> QED BY <1>2, <1>3 DEF Init, ServerOK, NoAddress

\* The inductive invariant of the server, for any clients and reservations: the pool
\* is right, and the list holds one node at most for each client, with time left.
THEOREM ServerInvariance == Spec => [](PoolInv /\ ServerOK)
<1>1. Init => PoolInv /\ ServerOK
  BY InitPoolInv, InitServerOK
<1>2. (PoolInv /\ ServerOK) /\ [Next]_vars => (PoolInv /\ ServerOK)'
  BY NextPoolInv, NextServerOK
<1> QED BY <1>1, <1>2, PTL DEF Spec

\* The answer is forgotten, or it and the list stay as they are, unless a message
\* is handled.
LEMMA OthersForget ==
  [Next]_vars => \/ \E msg \in Messages : handle_dhcp(msg)
                 \/ reply' = NoReply
                 \/ UNCHANGED <<leases, reply>>
<1> SUFFICES ASSUME [Next]_vars, ~\E msg \in Messages : handle_dhcp(msg)
             PROVE  reply' = NoReply \/ UNCHANGED <<leases, reply>>
  OBVIOUS
<1>1. CASE dhcps_start
  BY <1>1 DEF dhcps_start
<1>2. CASE dhcps_stop \/ dhcps_tmr
  BY <1>2 DEF dhcps_stop, dhcps_tmr
<1>3. ASSUME NEW m \in Macs, NEW ip \in Addresses, add_dhcp_reservation(m, ip)
      PROVE  reply' = NoReply
  BY <1>3 DEF add_dhcp_reservation
<1>4. ASSUME NEW m \in Macs, del_dhcp_reservation(m) PROVE reply' = NoReply
  BY <1>4 DEF del_dhcp_reservation
<1>5. CASE UNCHANGED vars
  BY <1>5 DEF vars
<1> QED BY <1>1, <1>2, <1>3, <1>4, <1>5 DEF Next

\* For any clients, messages, reservations and pool: the address a client was
\* offered or granted is recorded for it with a full lease, and a client that was
\* refused keeps none (handle_dhcp, parse_msg, node_remove_from_list).
THEOREM ReplyAlwaysMatches == Spec => []ReplyMatchesLease
<1>1. Init => ReplyMatchesLease
  BY DEF Init, ReplyMatchesLease, NoReply, Refused
<1>2. (PoolInv /\ ServerOK) /\ ReplyMatchesLease /\ [Next]_vars => ReplyMatchesLease'
  <2> SUFFICES ASSUME ServerOK, ReplyMatchesLease, [Next]_vars PROVE ReplyMatchesLease'
    OBVIOUS
  <2>1. ASSUME NEW msg \in Messages, handle_dhcp(msg) PROVE ReplyMatchesLease'
    BY <2>1, HandleKeeps
  <2>2. CASE reply' = NoReply
    BY <2>2 DEF ReplyMatchesLease, NoReply, Refused
  <2>3. CASE UNCHANGED <<leases, reply>>
    BY <2>3 DEF ReplyMatchesLease, HasLease, LeaseOf, Holder
  <2> QED BY <2>1, <2>2, <2>3, OthersForget
<1> QED BY <1>1, <1>2, ServerInvariance, PTL DEF Spec

\* For any clients and messages: no message removes or refreshes another client's
\* lease (parse_msg, handle_dhcp).
THEOREM OthersAlwaysUntouched == Spec => OthersUntouched
<1> DEFINE Kept == reply'.mac \in Macs =>
              \A m \in Macs \ {reply'.mac} : LeasesOf(leases', m) = LeasesOf(leases, m)
<1>1. (PoolInv /\ ServerOK) /\ [Next]_vars => [Kept]_vars
  <2> SUFFICES ASSUME ServerOK, [Next]_vars PROVE Kept
    OBVIOUS
  <2>1. ASSUME NEW msg \in Messages, handle_dhcp(msg) PROVE Kept
    BY <2>1, HandleKeeps DEF OthersKept
  <2>2. CASE reply' = NoReply
    BY <2>2, DhcpAssumption DEF NoReply
  <2>3. CASE UNCHANGED <<leases, reply>>
    BY <2>3
  <2> QED BY <2>1, <2>2, <2>3, OthersForget
<1> QED BY <1>1, ServerInvariance, PTL DEF Spec, OthersUntouched

\* Which node LeaseOf reads, and which address a new lease gets.
LEMMA HolderIs ==
  ASSUME ServerOK, NEW i \in 1 .. Len(leases), NEW m \in Macs, leases[i].mac = m
  PROVE  Holder(m) = i
<1>1. leases \in Seq(Node) /\ OneEach(leases)
  BY DEF ServerOK
<1>2. (CHOOSE j \in DOMAIN leases :
         leases[j].mac = leases[i].mac /\ \A k \in 1 .. (j - 1) : leases[k].mac # leases[i].mac) = i
  BY <1>1, OnlyHolder
<1> QED BY <1>2 DEF Holder

LEMMA LocatedFresh ==
  ASSUME NEW m \in Macs, ~HasLease(m)
  PROVE  Located(m).client = ChosenAddress(m, Search(leases))
BY DEF Located

\* A client other than the one that asked has a lease afterwards if and only if it
\* had one; the timer gives none.
LEMMA OthersHave ==
  ASSUME ServerOK, NEW msg \in Messages, handle_dhcp(msg), NEW m \in Macs, m # msg.mac
  PROVE  HasLease(m)' <=> HasLease(m)
<1>1. LeasesOf(leases', m) = LeasesOf(leases, m)
  BY HandleKeeps DEF OthersKept
<1>2. HasLease(m) <=> LeasesOf(leases, m) # {}
  BY DEF HasLease, LeasesOf
<1>3. HasLease(m)' <=> LeasesOf(leases', m) # {}
  BY DEF HasLease, LeasesOf
<1> QED BY <1>1, <1>2, <1>3

LEMMA TimerGivesNone ==
  ASSUME ServerOK, dhcps_tmr, NEW m \in Macs, HasLease(m)'
  PROVE  HasLease(m)
<1>1. leases \in Seq(Node) /\ Live(leases)
  BY DEF ServerOK
<1>2. leases' \in Seq(Node) /\ SomeSurvivors(leases, leases')
  BY <1>1, TimerLeaves
<1>3. PICK from \in [1 .. Len(leases') -> 1 .. Len(leases)] : Survivors(leases, leases', from)
  BY <1>2 DEF SomeSurvivors
<1>4. PICK j \in 1 .. Len(leases') : leases'[j].mac = m
  BY <1>2 DEF HasLease
<1>5. from[j] \in DOMAIN leases /\ leases[from[j]].mac = m
  BY <1>1, <1>3, <1>4 DEF Survivors
<1> QED BY <1>5 DEF HasLease

\* For any reservations, and any order of edits and messages: a fresh lease is never
\* given an address reserved for another client, unless it is reserved for this
\* client too (is_ip_reserved_for_other, parse_msg).
THEOREM ReservedAlwaysKept == Spec => ReservedAddressKept
<1> DEFINE Kept == \A m \in Macs : (~HasLease(m) /\ HasLease(m)') =>
              \A other \in Macs \ {m} : resv[other] = LeaseOf(m)'.ip => resv[m] = resv[other]
<1>1. (PoolInv /\ ServerOK) /\ [Next]_vars => [Kept]_vars
  <2> SUFFICES ASSUME ServerOK, [Next]_vars,
                      NEW m \in Macs, ~HasLease(m), HasLease(m)', NEW other \in Macs \ {m},
                      resv[other] = LeaseOf(m)'.ip
               PROVE  resv[m] = resv[other]
    OBVIOUS
  <2>1. ASSUME NEW msg \in Messages, handle_dhcp(msg) PROVE resv[m] = resv[other]
    <3> DEFINE ip == ChosenAddress(m, Search(leases))
    <3>1. msg.mac = m
      BY <2>1, OthersHave
    <3>2. LeaseOf(m)'.ip = ip /\ ip <= EndIP
      <4>1. HasLease(msg.mac)' =>
              /\ LeaseOf(msg.mac)' = [mac |-> msg.mac, ip |-> Located(msg.mac).client,
                                      timer |-> LeaseTicks]
              /\ Located(msg.mac).client <= EndIP
        BY <2>1, HandleKeeps
      <4>2. Located(m).client = ip
        BY LocatedFresh
      <4>3. LeaseOf(m)'.ip = Located(m).client /\ Located(m).client <= EndIP
        BY <3>1, <4>1
      <4> QED BY <4>2, <4>3
    <3>3. Search(leases) \in Walk
      BY SearchStays DEF ServerOK
    <3>4. /\ resv[m] # NoAddress => ip = resv[m]
          /\ resv[m] = NoAddress /\ ip <= EndIP => ~is_ip_reserved_for_other(ip, m)
      BY <3>3, Chosen
    <3> QED BY <3>2, <3>4 DEF is_ip_reserved_for_other
  <2>2. CASE dhcps_tmr
    BY <2>2, TimerGivesNone
  <2>3. CASE UNCHANGED leases
    BY <2>3 DEF HasLease
  <2>4. CASE dhcps_stop
    BY <2>4 DEF dhcps_stop, HasLease
  <2>5. [Next]_vars => \/ \E msg \in Messages : handle_dhcp(msg)
                       \/ dhcps_tmr \/ dhcps_stop \/ UNCHANGED leases
    BY DEF Next, vars, dhcps_start, add_dhcp_reservation, del_dhcp_reservation
  <2> QED BY <2>1, <2>2, <2>3, <2>4, <2>5
<1> QED BY <1>1, ServerInvariance, PTL DEF Spec, ReservedAddressKept

\* For any number of leases and any limit: the timer takes no lease that has more
\* time left than one it leaves (dhcps_tmr, kill_oldest_dhcps_pool).
THEOREM StalestAlwaysFirst == Spec => StalestGoFirst
<1> DEFINE First == \A m, o \in Macs :
              (HasLease(m) /\ HasLease(o) /\ ~HasLease(m)' /\ HasLease(o)')
                => LeaseOf(m).timer <= LeaseOf(o).timer
<1>1. (PoolInv /\ ServerOK) /\ [Next]_vars => [dhcps_tmr => First]_vars
  <2> SUFFICES ASSUME ServerOK, dhcps_tmr, NEW m \in Macs, NEW o \in Macs,
                      HasLease(m), ~HasLease(m)', HasLease(o)'
               PROVE  LeaseOf(m).timer <= LeaseOf(o).timer
    OBVIOUS
  <2>1. leases \in Seq(Node) /\ Live(leases) /\ OneEach(leases)
    BY DEF ServerOK
  <2>2. leases' \in Seq(Node) /\ SomeSurvivors(leases, leases')
    BY <2>1, TimerLeaves
  <2>3. PICK from \in [1 .. Len(leases') -> 1 .. Len(leases)] : Survivors(leases, leases', from)
    BY <2>2 DEF SomeSurvivors
  <2>4. PICK i \in 1 .. Len(leases) : leases[i].mac = m
    BY <2>1 DEF HasLease
  <2>5. PICK j \in 1 .. Len(leases') : leases'[j].mac = o
    BY <2>2 DEF HasLease
  <2>6. from[j] \in 1 .. Len(leases) /\ leases[from[j]].mac = o
    BY <2>3, <2>5 DEF Survivors
  <2>7. \A k \in 1 .. Len(leases') : leases'[k].mac # m
    BY <2>2 DEF HasLease
  <2>8. leases[i].timer <= leases[from[j]].timer
    BY <2>3, <2>4, <2>7 DEF Survivors
  <2>9. Holder(m) = i
    BY <2>4, HolderIs
  <2>10. Holder(o) = from[j]
    <3> DEFINE k == from[j]
    <3>1. k \in 1 .. Len(leases) /\ leases[k].mac = o
      BY <2>6
    <3> HIDE DEF k
    <3>2. Holder(o) = k
      BY <3>1, HolderIs
    <3> QED BY <3>2 DEF k
  <2> QED BY <2>8, <2>9, <2>10 DEF LeaseOf
<1> QED BY <1>1, ServerInvariance, PTL DEF Spec, StalestGoFirst
-----------------------------------------------------------------------------
(* Without reservations *)

Ascending(list) == \A i, j \in 1 .. Len(list) : i < j => list[i].ip < list[j].ip

InPool(list) == \A i \in 1 .. Len(list) : list[i].ip \in StartIP .. EndIP

\* What holds as long as nobody reserves an address: the list is strictly ascending
\* and inside the pool, and the next-address pointer at most one behind it.
PoolOnly ==
  /\ \A m \in Macs : resv[m] = NoAddress
  /\ poll.enable => plus \in StartIP .. (EndIP + 1)
  /\ state = "STARTED" => poll.enable
  /\ state # "STARTED" => leases = <<>> /\ reply = NoReply
  /\ Ascending(leases) /\ InPool(leases)

\* Where the search stands after k nodes: plus is none of their addresses; first is
\* none either, with every lower address of the pool taken, and above them all
\* until the first gap.
Searched(w, list, k) ==
  /\ w.plus \in StartIP .. (EndIP + 1) /\ w.first \in StartIP .. (EndIP + 1)
  /\ \A j \in 1 .. k : list[j].ip # w.plus /\ list[j].ip # w.first
  /\ \A a \in StartIP .. (w.first - 1) : \E j \in 1 .. k : list[j].ip = a
  /\ w.gap => k > 0 /\ w.first < list[k].ip
  /\ ~w.gap => \A j \in 1 .. k : list[j].ip < w.first

\* One turn of the search, and the whole of it.
LEMMA SearchStep ==
  ASSUME StartIP \in Nat, EndIP \in Nat,
         NEW list \in Seq(Node), Ascending(list), InPool(list),
         NEW k \in 1 .. Len(list), NEW w \in Walk, Searched(w, list, k - 1)
  PROVE  Searched(Visit(w, list[k]), list, k)
<1> DEFINE x == Visit(w, list[k])
           ip == list[k].ip
<1>1. ip \in StartIP .. EndIP /\ k - 1 \in Nat /\ Len(list) \in Nat
  BY DEF InPool
<1>2. \A j \in 1 .. (k - 1) : list[j].ip < ip /\ list[j].ip \in Nat
  <2> TAKE j \in 1 .. (k - 1)
  <2>1. j \in 1 .. Len(list) /\ j < k
    BY <1>1
  <2>2. list[j].ip < ip
    BY <2>1 DEF Ascending
  <2>3. list[j].ip \in Nat
    BY <2>1 DEF InPool
  <2> QED BY <2>2, <2>3
<1>3. /\ x.plus = IF ip = w.plus THEN w.plus + 1 ELSE w.plus
      /\ x.first = IF w.gap \/ w.first < ip THEN w.first ELSE w.first + 1
      /\ x.gap = (w.gap \/ w.first < ip)
  BY DEF Visit
<1>4. \A j \in 1 .. k : j \in 1 .. (k - 1) \/ j = k
  BY <1>1
<1> HIDE DEF x
<1>5. w.plus \in Nat /\ w.first \in Nat /\ w.gap \in BOOLEAN
  BY DEF Walk
<1>6. x.plus \in StartIP .. (EndIP + 1) /\ \A j \in 1 .. k : list[j].ip # x.plus
  <2>1. w.plus \in StartIP .. (EndIP + 1) /\ \A j \in 1 .. (k - 1) : list[j].ip # w.plus
    BY DEF Searched
  <2>2. CASE ip = w.plus
    <3>1. x.plus = ip + 1
      BY <1>3, <2>2
    <3>2. \A j \in 1 .. k : list[j].ip < ip + 1
      BY <1>1, <1>2, <1>4
    <3> QED BY <1>1, <1>2, <1>4, <3>1, <3>2
  <2>3. CASE ip # w.plus
    BY <1>3, <1>4, <2>1, <2>3
  <2> QED BY <2>2, <2>3
<1>7. ASSUME w.gap PROVE Searched(x, list, k)
  <2>1. /\ k - 1 \in 1 .. (k - 1) /\ w.first < list[k - 1].ip
        /\ list[k - 1].ip < ip /\ list[k - 1].ip \in Nat
    BY <1>1, <1>2, <1>7 DEF Searched
  <2>2. x.first = w.first /\ x.gap = TRUE /\ w.first < ip
    <3>1. x.first = w.first /\ x.gap = TRUE
      BY <1>3, <1>7
    <3>2. w.first < ip
      BY <1>1, <1>5, <2>1
    <3> QED BY <3>1, <3>2
  <2>3. \A j \in 1 .. k : list[j].ip # x.first
    BY <1>1, <1>4, <1>5, <2>2 DEF Searched
  <2>4. \A a \in StartIP .. (x.first - 1) : \E j \in 1 .. k : list[j].ip = a
    BY <1>1, <2>2 DEF Searched
  <2>5. x.first \in StartIP .. (EndIP + 1)
    BY <2>2 DEF Searched
  <2>6. x.gap => k > 0 /\ x.first < list[k].ip
    BY <1>1, <2>2
  <2>7. ~x.gap => \A j \in 1 .. k : list[j].ip < x.first
    BY <2>2
  <2> QED BY <1>6, <2>3, <2>4, <2>5, <2>6, <2>7 DEF Searched
<1>8. ASSUME ~w.gap, w.first < ip PROVE Searched(x, list, k)
  <2>1. x.first = w.first /\ x.gap = TRUE
    BY <1>3, <1>8
  <2>2. \A j \in 1 .. k : list[j].ip # x.first
    BY <1>1, <1>4, <1>5, <1>8, <2>1 DEF Searched
  <2>3. \A a \in StartIP .. (x.first - 1) : \E j \in 1 .. k : list[j].ip = a
    BY <1>1, <2>1 DEF Searched
  <2>4. x.first \in StartIP .. (EndIP + 1) /\ x.first < ip
    BY <1>8, <2>1 DEF Searched
  <2>6. x.gap => k > 0 /\ x.first < list[k].ip
    BY <1>1, <2>1, <2>4
  <2>7. ~x.gap => \A j \in 1 .. k : list[j].ip < x.first
    BY <2>1
  <2> QED BY <1>6, <2>2, <2>3, <2>4, <2>6, <2>7 DEF Searched
<1>9. ASSUME ~w.gap, ~(w.first < ip) PROVE Searched(x, list, k)
  <2>1. x.first = w.first + 1 /\ x.gap = FALSE
    BY <1>3, <1>9
  <2>2. ip = w.first
    <3>1. SUFFICES ASSUME ip \in StartIP .. (w.first - 1) PROVE FALSE
      BY <1>1, <1>5, <1>9
    <3>2. \E j \in 1 .. (k - 1) : list[j].ip = ip
      BY <3>1 DEF Searched
    <3> QED BY <1>1, <1>2, <3>2
  <2>3. \A j \in 1 .. k : list[j].ip < x.first
    BY <1>1, <1>2, <1>4, <1>5, <2>1, <2>2
  <2>4. \A a \in StartIP .. (x.first - 1) : \E j \in 1 .. k : list[j].ip = a
    <3> TAKE a \in StartIP .. (x.first - 1)
    <3>1. CASE a = w.first
      BY <1>1, <2>2, <3>1
    <3>2. CASE a # w.first
      <4>1. a \in StartIP .. (w.first - 1)
        BY <1>5, <2>1, <3>2
      <4>2. PICK j \in 1 .. (k - 1) : list[j].ip = a
        BY <4>1 DEF Searched
      <4> QED BY <1>1, <4>2
    <3> QED BY <3>1, <3>2
  <2>5. x.first \in StartIP .. (EndIP + 1)
    BY <1>1, <1>5, <2>1, <2>2
  <2>6. \A j \in 1 .. k : list[j].ip # x.first
    BY <1>1, <1>2, <1>4, <2>2, <2>3
  <2>7. x.gap => k > 0 /\ x.first < list[k].ip
    BY <2>1
  <2> QED BY <1>6, <2>3, <2>4, <2>5, <2>6, <2>7 DEF Searched
<1> QED BY <1>5, <1>7, <1>8, <1>9 DEF x

LEMMA SearchFinds ==
  ASSUME StartIP \in Nat, EndIP \in Nat, StartIP <= EndIP, plus \in StartIP .. (EndIP + 1),
         NEW list \in Seq(Node), Ascending(list), InPool(list)
  PROVE  Searched(Search(list), list, Len(list))
<1>1. plus \in Nat
  OBVIOUS
<1>2. PICK g \in [0 .. Len(list) -> Walk] :
        /\ Search(list) = g[Len(list)]
        /\ g[0] = [plus |-> plus, first |-> StartIP, gap |-> FALSE]
        /\ \A k \in 1 .. Len(list) : g[k] = Visit(g[k - 1], list[k])
  BY <1>1, SearchStages
<1> DEFINE bad == {k \in 0 .. Len(list) : ~Searched(g[k], list, k)}
<1>3. Len(list) \in 0 .. Len(list)
  OBVIOUS
<1>4. SUFFICES ASSUME bad # {} PROVE FALSE
  BY <1>2, <1>3
<1>5. PICK k \in bad : \A j \in bad : k <= j
  <2>1. bad \in SUBSET Nat
    OBVIOUS
  <2> HIDE DEF bad
  <2> QED BY <1>4, <2>1, Smallest
<1>6. Searched(g[0], list, 0)
  BY <1>2 DEF Searched
<1>7. k # 0
  BY <1>5, <1>6
<1>8. k \in 1 .. Len(list) /\ k - 1 \in 0 .. Len(list) /\ k - 1 \notin bad
  BY <1>3, <1>5, <1>7
<1>9. Searched(g[k - 1], list, k - 1) /\ g[k - 1] \in Walk
  BY <1>8
<1>10. Searched(Visit(g[k - 1], list[k]), list, k)
  BY <1>8, <1>9, SearchStep
<1> QED BY <1>2, <1>5, <1>8, <1>10

\* The address of a new lease is free; it lies behind the pool only when every
\* address of the pool is leased.
LEMMA ChosenFree ==
  ASSUME ServerOK, PoolInv, PoolOnly, state = "STARTED", NEW m \in Macs
  PROVE  LET ip == ChosenAddress(m, Search(leases))
         IN  /\ ip \in StartIP .. (EndIP + 1)
             /\ \A j \in 1 .. Len(leases) : leases[j].ip # ip
             /\ ip > EndIP => \A a \in StartIP .. EndIP : a \in LeasedIPs(leases)
<1> DEFINE w == Search(leases)
           next == IF leases = <<>> /\ ~declined THEN StartIP ELSE w.plus
           pool == IF w.plus > EndIP THEN w.first ELSE next
<1>1. StartIP \in Nat /\ EndIP \in Nat /\ StartIP <= EndIP /\ plus \in StartIP .. (EndIP + 1)
  BY DEF ServerOK, PoolOK, PoolInv, PoolSafe, PoolOnly, StartIP, EndIP
<1>2. leases \in Seq(Node) /\ Ascending(leases) /\ InPool(leases)
  BY DEF ServerOK, PoolOnly
<1>3. Searched(w, leases, Len(leases))
  BY <1>1, <1>2, SearchFinds
<1>4. w \in Walk
  BY <1>2, SearchStays
<1> HIDE DEF w
<1>5. pool \in StartIP .. (EndIP + 1) /\ \A j \in 1 .. Len(leases) : leases[j].ip # pool
  <2>1. CASE w.plus > EndIP
    BY <1>3, <2>1 DEF Searched
  <2>2. CASE ~(w.plus > EndIP) /\ leases = <<>> /\ ~declined
    <3>1. Len(<<>>) = 0
      OBVIOUS
    <3> QED BY <1>1, <2>2, <3>1
  <2>3. CASE ~(w.plus > EndIP) /\ ~(leases = <<>> /\ ~declined)
    BY <1>3, <2>3 DEF Searched
  <2> QED BY <2>1, <2>2, <2>3
<1>6. pool > EndIP => \A a \in StartIP .. EndIP : a \in LeasedIPs(leases)
  <2> SUFFICES ASSUME pool > EndIP, NEW a \in StartIP .. EndIP PROVE a \in LeasedIPs(leases)
    OBVIOUS
  <2>1. w.plus > EndIP /\ w.first = EndIP + 1
    BY <1>1, <1>3, <1>4 DEF Searched, Walk
  <2>2. a \in StartIP .. (w.first - 1)
    BY <1>1, <2>1
  <2>3. PICK j \in 1 .. Len(leases) : leases[j].ip = a
    BY <1>3, <2>2 DEF Searched
  <2> QED BY <1>2, <2>3 DEF LeasedIPs
<1>7. ~is_ip_reserved_for_other(pool, m)
  BY DEF PoolOnly, is_ip_reserved_for_other
<1>8. ChosenAddress(m, w) = pool
  <2>1. lookup_dhcp_reservation(m) = NoAddress
    BY DEF PoolOnly, lookup_dhcp_reservation
  <2>2. ChosenAddress(m, w) = SkipReserved(pool, m)
    BY <2>1 DEF ChosenAddress
  <2>3. pool \in Nat
    BY <1>1, <1>5
  <2> HIDE DEF pool
  <2> QED BY <1>7, <2>2, <2>3, Skipped
<1> QED BY <1>5, <1>6, <1>8 DEF w

\* A free address inserted keeps the list ascending, and a node removed or
\* refreshed does.
LEMMA InsertAscends ==
  ASSUME NEW list \in Seq(Node), Ascending(list), InPool(list), NEW e \in Node,
         e.ip \in StartIP .. EndIP, StartIP \in Nat, EndIP \in Nat,
         \A j \in 1 .. Len(list) : list[j].ip # e.ip
  PROVE  LET new == node_insert_to_list(list, e) IN Ascending(new) /\ InPool(new)
<1> DEFINE new == node_insert_to_list(list, e)
<1>1. Len(new) = Len(list) + 1 /\ Len(list) \in Nat
  BY Inserted
<1>2. PICK i \in 1 .. (Len(list) + 1) :
        /\ \A j \in 1 .. (Len(list) + 1) :
             new[j] = IF j < i THEN list[j] ELSE IF j = i THEN e ELSE list[j - 1]
        /\ \A j \in 1 .. (i - 1) : list[j].ip <= e.ip
        /\ i <= Len(list) => e.ip < list[i].ip
  BY Inserted
<1> HIDE DEF new
<1>3. \A j \in 1 .. Len(list) : list[j].ip \in StartIP .. EndIP /\ list[j].ip \in Nat
  BY DEF InPool
<1>4. \A j \in 1 .. Len(list) : j < i => list[j].ip < e.ip
  <2> SUFFICES ASSUME NEW j \in 1 .. Len(list), j < i PROVE list[j].ip < e.ip
    OBVIOUS
  <2>1. list[j].ip <= e.ip
    BY <1>1, <1>2
  <2>2. list[j].ip # e.ip /\ list[j].ip \in Nat /\ e.ip \in Nat
    BY <1>3
  <2> QED BY <2>1, <2>2
<1>5. \A j \in 1 .. Len(list) : j >= i => e.ip < list[j].ip
  <2> SUFFICES ASSUME NEW j \in 1 .. Len(list), j >= i PROVE e.ip < list[j].ip
    OBVIOUS
  <2>1. i \in 1 .. Len(list) /\ e.ip < list[i].ip
    BY <1>1, <1>2
  <2>2. i < j => list[i].ip < list[j].ip
    BY <2>1 DEF Ascending
  <2> QED BY <1>1, <1>3, <2>1, <2>2
<1>6. \A j \in 1 .. (Len(list) + 1) :
        \/ j < i /\ j \in 1 .. Len(list) /\ new[j] = list[j]
        \/ j = i /\ new[j] = e
        \/ j > i /\ j - 1 \in 1 .. Len(list) /\ new[j] = list[j - 1]
  <2> TAKE j \in 1 .. (Len(list) + 1)
  <2>1. new[j] = IF j < i THEN list[j] ELSE IF j = i THEN e ELSE list[j - 1]
    BY <1>2
  <2>2. j < i => j \in 1 .. Len(list)
    BY <1>1, <1>2
  <2>3. j > i => j - 1 \in 1 .. Len(list)
    BY <1>1, <1>2
  <2>4. j < i \/ j = i \/ j > i
    BY <1>1, <1>2
  <2> QED BY <2>1, <2>2, <2>3, <2>4
<1>7. InPool(new)
  BY <1>1, <1>3, <1>6 DEF InPool
<1>8. Ascending(new)
  <2> SUFFICES ASSUME NEW j \in 1 .. (Len(list) + 1), NEW k \in 1 .. (Len(list) + 1), j < k
               PROVE  new[j].ip < new[k].ip
    BY <1>1 DEF Ascending
  <2>1. CASE k < i
    BY <1>1, <1>6, <2>1 DEF Ascending
  <2>2. CASE k = i
    BY <1>1, <1>4, <1>6, <2>2
  <2>3. CASE k > i /\ j = i
    <3>1. k - 1 \in 1 .. Len(list) /\ k - 1 >= i
      BY <1>1, <2>3
    <3> QED BY <1>1, <1>5, <1>6, <2>3, <3>1
  <2>4. CASE k > i /\ j < i
    <3>1. new[j] = list[j] /\ j \in 1 .. Len(list) /\ new[k] = list[k - 1]
          /\ k - 1 \in 1 .. Len(list) /\ j < k - 1
      BY <1>1, <1>6, <2>4
    <3> QED BY <3>1 DEF Ascending
  <2>5. CASE k > i /\ j > i
    <3>1. new[j] = list[j - 1] /\ j - 1 \in 1 .. Len(list) /\ new[k] = list[k - 1]
          /\ k - 1 \in 1 .. Len(list) /\ j - 1 < k - 1
      BY <1>1, <1>6, <2>5
    <3> QED BY <3>1 DEF Ascending
  <2> QED BY <1>1, <2>1, <2>2, <2>3, <2>4, <2>5
<1> QED BY <1>7, <1>8 DEF new

LEMMA RemoveAscends ==
  ASSUME NEW list \in Seq(Node), Ascending(list), InPool(list), NEW i \in 1 .. Len(list)
  PROVE  LET new == RemoveAt(list, i) IN Ascending(new) /\ InPool(new)
<1> DEFINE new == RemoveAt(list, i)
           At(j) == IF j < i THEN j ELSE j + 1
<1>1. Len(new) = Len(list) - 1 /\ Len(list) \in Nat
  BY RemovedAt
<1>2. \A j \in 1 .. (Len(list) - 1) : new[j] = IF j < i THEN list[j] ELSE list[j + 1]
  BY RemovedAt
<1> HIDE DEF new
<1>3. \A j \in 1 .. Len(new) : At(j) \in 1 .. Len(list) /\ new[j] = list[At(j)]
  BY <1>1, <1>2
<1>4. \A j, k \in 1 .. Len(new) : j < k => At(j) < At(k)
  BY <1>1
<1> HIDE DEF At
<1>5. InPool(new)
  BY <1>3 DEF InPool
<1>6. Ascending(new)
  BY <1>3, <1>4 DEF Ascending
<1> QED BY <1>5, <1>6 DEF new

\* The server's own bookkeeping of a message, without reservations.
LEMMA HandlePoolOnly ==
  ASSUME ServerOK, PoolInv, PoolOnly, NEW msg \in Messages, handle_dhcp(msg)
  PROVE  PoolOnly'
<1> DEFINE m == msg.mac
           l == Located(m)
           v == Verdict(msg, l)
<1>1. m \in Macs /\ state = "STARTED" /\ poll.enable
  BY DEF Messages, Message, handle_dhcp, PoolOnly
<1>2. StartIP \in Nat /\ EndIP \in Nat /\ StartIP <= EndIP /\ plus \in StartIP .. (EndIP + 1)
  BY <1>1 DEF ServerOK, PoolOK, PoolInv, PoolSafe, PoolOnly, StartIP, EndIP
<1>3. leases \in Seq(Node) /\ OneEach(leases) /\ Ascending(leases) /\ InPool(leases)
  BY DEF ServerOK, PoolOnly
<1>4. DOMAIN leases = 1 .. Len(leases) /\ Len(leases) \in Nat
  BY <1>3
<1>5. /\ l.leases \in Seq(Node) /\ Ascending(l.leases) /\ InPool(l.leases)
      /\ l.plus \in StartIP .. (EndIP + 1)
  <2>1. CASE HasLease(m)
    <3> DEFINE i == Holder(m)
               front == SubSeq(leases, 1, i - 1)
               new == Refreshed(leases, i, LeaseTicks)
    <3>1. i \in 1 .. Len(leases)
      <4>1. PICK j \in 1 .. Len(leases) : leases[j].mac = m
        BY <1>4, <2>1 DEF HasLease
      <4>2. Holder(m) = j
        BY <1>1, <4>1, HolderIs
      <4> QED BY <4>1, <4>2
    <3>2. l.leases = new /\ l.plus = Search(front).plus
      BY <2>1 DEF Located, Refreshed
    <3> HIDE DEF i, l
    <3>3. front \in Seq(Node) /\ Len(front) = i - 1 /\ \A j \in 1 .. (i - 1) : front[j] = leases[j]
      BY <1>3, <3>1
    <3> HIDE DEF front
    <3>4. Ascending(front) /\ InPool(front)
      BY <1>3, <1>4, <3>1, <3>3 DEF Ascending, InPool
    <3>5. Search(front).plus \in StartIP .. (EndIP + 1)
      BY <1>2, <3>3, <3>4, SearchFinds DEF Searched
    <3>6. LeaseTicks \in Nat
      BY DhcpAssumption
    <3>7. /\ new \in Seq(Node) /\ Len(new) = Len(leases)
          /\ \A j \in 1 .. Len(leases) : new[j].mac = leases[j].mac /\ new[j].ip = leases[j].ip
      BY <1>3, <3>1, <3>6, RefreshKeeps
    <3> HIDE DEF new
    <3>8. Ascending(new) /\ InPool(new)
      BY <1>3, <3>7 DEF Ascending, InPool
    <3> QED BY <3>2, <3>5, <3>7, <3>8
  <2>2. CASE ~HasLease(m)
    <3> DEFINE ip == ChosenAddress(m, Search(leases))
               e == [mac |-> m, ip |-> ip, timer |-> LeaseTicks]
               list == node_insert_to_list(leases, e)
    <3>1. ip \in StartIP .. (EndIP + 1) /\ \A j \in 1 .. Len(leases) : leases[j].ip # ip
      BY <1>1, ChosenFree
    <3>2. /\ l.leases = IF ip > EndIP THEN leases ELSE list
          /\ l.plus = IF ip > EndIP \/ ip = EndIP THEN StartIP ELSE ip + 1
      BY <1>2, <2>2, <3>1 DEF Located
    <3> HIDE DEF ip, l
    <3>3. l.plus \in StartIP .. (EndIP + 1)
      BY <1>2, <3>1, <3>2
    <3>4. CASE ip > EndIP
      BY <1>3, <3>2, <3>3, <3>4
    <3>5. CASE ~(ip > EndIP)
      <4>1. e \in Node /\ e.ip = ip /\ ip \in StartIP .. EndIP
        BY <1>1, <1>2, <3>1, <3>5, DhcpAssumption DEF Node
      <4> HIDE DEF e
      <4>2. list \in Seq(Node)
        BY <1>3, <4>1, Inserted
      <4>3. Ascending(list) /\ InPool(list)
        BY <1>2, <1>3, <3>1, <4>1, InsertAscends
      <4> QED BY <3>2, <3>3, <3>5, <4>2, <4>3
    <3> QED BY <3>4, <3>5
  <2> QED BY <2>1, <2>2
<1>6. l.node = 0 \/ l.node \in 1 .. Len(l.leases)
  BY <1>1, LocatedKeeps
<1>7. /\ leases' = IF l.node # 0 /\ Refused(v) THEN RemoveAt(l.leases, l.node) ELSE l.leases
      /\ plus' = l.plus
      /\ UNCHANGED <<poll, state, resv>>
  BY DEF handle_dhcp
<1> HIDE DEF l, v
<1>8. Ascending(leases') /\ InPool(leases')
  BY <1>5, <1>6, <1>7, RemoveAscends
<1>9. StartIP' = StartIP /\ EndIP' = EndIP
  BY <1>7 DEF StartIP, EndIP
<1>10. InPool(leases)'
  BY <1>8, <1>9 DEF InPool
<1> QED BY <1>1, <1>5, <1>7, <1>8, <1>9, <1>10 DEF PoolOnly, Ascending

\* The other steps of the server.
LEMMA StartPoolOnly == ServerOK /\ PoolInv /\ PoolOnly /\ dhcps_start => PoolOnly'
<1> SUFFICES ASSUME ServerOK, PoolInv, PoolOnly, dhcps_start PROVE PoolOnly'
  OBVIOUS
<1>1. PoolInv'
  BY StartPoolInv
<1>2. poll'.enable = TRUE
  BY DEF dhcps_start, dhcps_poll_set, Usable, PoolInv, PoolOK
<1>3. /\ leases = <<>> /\ plus' = poll'.start /\ state' = "STARTED"
      /\ UNCHANGED <<leases, resv>>
  BY DEF dhcps_start, PoolOnly
<1>4. plus' \in poll'.start .. (poll'.end + 1)
  BY <1>1, <1>2, <1>3 DEF PoolInv, PoolOK, PoolSafe
<1>5. Len(leases') = 0
  BY <1>3
<1>6. Ascending(leases)' /\ InPool(leases)'
  BY <1>5 DEF Ascending, InPool
<1> QED BY <1>2, <1>3, <1>4, <1>6 DEF PoolOnly, StartIP, EndIP

LEMMA TimerPoolOnly == ServerOK /\ PoolOnly /\ dhcps_tmr => PoolOnly'
<1> SUFFICES ASSUME ServerOK, PoolOnly, dhcps_tmr PROVE PoolOnly'
  OBVIOUS
<1>1. leases \in Seq(Node) /\ Live(leases) /\ Ascending(leases) /\ InPool(leases)
  BY DEF ServerOK, PoolOnly
<1>2. leases' \in Seq(Node) /\ SomeSurvivors(leases, leases')
  BY <1>1, TimerLeaves
<1>3. PICK from \in [1 .. Len(leases') -> 1 .. Len(leases)] : Survivors(leases, leases', from)
  BY <1>2 DEF SomeSurvivors
<1>4. UNCHANGED <<poll, state, plus, resv>> /\ state = "STARTED"
  BY DEF dhcps_tmr
<1>5. Ascending(leases')
  BY <1>1, <1>3 DEF Ascending, Survivors
<1>6. InPool(leases')
  BY <1>1, <1>3 DEF InPool, Survivors
<1>7. StartIP' = StartIP /\ EndIP' = EndIP
  BY <1>4 DEF StartIP, EndIP
<1>8. InPool(leases)' /\ Ascending(leases)'
  BY <1>5, <1>6, <1>7 DEF InPool, Ascending
<1> QED BY <1>4, <1>7, <1>8 DEF PoolOnly

\* As long as the table has no room, no reservation is ever made.
LEMMA NextPoolOnly ==
  ASSUME MaxReservations = 0
  PROVE  ServerOK /\ PoolInv /\ PoolOnly /\ [Next]_vars => PoolOnly'
<1> SUFFICES ASSUME ServerOK, PoolInv, PoolOnly, [Next]_vars PROVE PoolOnly'
  OBVIOUS
<1>1. CASE dhcps_start
  BY <1>1, StartPoolOnly
<1>2. CASE dhcps_stop
  <2>1. Len(<<>>) = 0
    OBVIOUS
  <2>2. Ascending(leases)' /\ InPool(leases)'
    BY <1>2, <2>1 DEF dhcps_stop, Ascending, InPool
  <2> QED BY <1>2, <2>2 DEF dhcps_stop, PoolOnly, StartIP, EndIP
<1>3. CASE dhcps_tmr
  BY <1>3, TimerPoolOnly
<1>4. ASSUME NEW msg \in Messages, handle_dhcp(msg) PROVE PoolOnly'
  BY <1>4, HandlePoolOnly
<1>5. ASSUME NEW m \in Macs, NEW ip \in Addresses, add_dhcp_reservation(m, ip) PROVE PoolOnly'
  <2>1. {k \in Macs : resv[k] # NoAddress} = {}
    BY DEF PoolOnly
  <2>2. Cardinality({}) = 0
    BY FS_EmptySet
  <2>3. resv[m] # NoAddress \/ Cardinality({k \in Macs : resv[k] # NoAddress}) < MaxReservations
    BY <1>5 DEF add_dhcp_reservation
  <2>4. ~(Cardinality({k \in Macs : resv[k] # NoAddress}) < MaxReservations)
    BY <2>1, <2>2
  <2> QED BY <2>3, <2>4 DEF PoolOnly
<1>6. ASSUME NEW m \in Macs, del_dhcp_reservation(m) PROVE PoolOnly'
  BY <1>6 DEF del_dhcp_reservation, PoolOnly
<1>7. CASE UNCHANGED vars
  BY <1>7 DEF vars, PoolOnly, StartIP, EndIP, Ascending, InPool
<1> QED BY <1>1, <1>2, <1>3, <1>4, <1>5, <1>6, <1>7 DEF Next

LEMMA InitPoolOnly == Init => PoolOnly
<1> SUFFICES ASSUME Init PROVE PoolOnly
  OBVIOUS
<1>1. leases = <<>> /\ Len(<<>>) = 0
  BY DEF Init
<1>2. Ascending(leases) /\ InPool(leases)
  BY <1>1 DEF Ascending, InPool
<1> QED BY <1>2 DEF Init, PoolOnly, NoPoll

\* And as long as nothing is reserved, the list is strictly ascending in the pool.
THEOREM PoolOnlyInvariance ==
  ASSUME MaxReservations = 0
  PROVE  Spec => [](PoolInv /\ ServerOK /\ PoolOnly)
<1>1. PoolInv /\ ServerOK /\ PoolOnly /\ [Next]_vars => PoolOnly'
  BY NextPoolOnly
<1> QED BY <1>1, InitPoolOnly, ServerInvariance, PTL DEF Spec

\* Without reservations, for any number of clients and any pool: no address is ever
\* leased to two clients (parse_msg: the next-address pointer, the first gap, the
\* early end of the walk).
THEOREM AddressesAlwaysDistinct ==
  ASSUME MaxReservations = 0
  PROVE  Spec => []AddressesDistinct
<1>1. ServerOK /\ PoolOnly => AddressesDistinct
  <2> SUFFICES ASSUME ServerOK, PoolOnly, NEW i \in DOMAIN leases, NEW j \in DOMAIN leases,
                      leases[i].ip = leases[j].ip
               PROVE  i = j
    BY DEF AddressesDistinct
  <2>1. i \in 1 .. Len(leases) /\ j \in 1 .. Len(leases)
    BY DEF ServerOK
  <2>2. leases[i].ip \in Nat
    BY <2>1 DEF ServerOK, PoolOK, PoolOnly, InPool, StartIP, EndIP
  <2>3. ~(i < j) /\ ~(j < i)
    BY <2>1, <2>2 DEF PoolOnly, Ascending
  <2> QED BY <2>1, <2>3
<1> QED BY <1>1, PoolOnlyInvariance, PTL

\* Without reservations, for any number of clients and any pool: a new client is
\* refused only when every address of the pool is leased (parse_msg, POOL_CHECK).
THEOREM AlwaysServedWhileFree ==
  ASSUME MaxReservations = 0
  PROVE  Spec => ServedWhileFree
<1> DEFINE Served == \A m \in Macs :
              (/\ ~HasLease(m)
               /\ \E a \in StartIP .. EndIP : a \notin LeasedIPs(leases)
               /\ reply'.mac = m /\ reply'.type = "DISCOVER")
              => reply'.verdict = "OFFER"
<1>1. (PoolInv /\ ServerOK /\ PoolOnly) /\ [Next]_vars => [Served]_vars
  <2> SUFFICES ASSUME PoolInv, ServerOK, PoolOnly, Next, NEW m \in Macs, ~HasLease(m),
                      NEW a \in StartIP .. EndIP, a \notin LeasedIPs(leases),
                      reply'.mac = m, reply'.type = "DISCOVER"
               PROVE  reply'.verdict = "OFFER"
    OBVIOUS
  <2>1. ASSUME NEW msg \in Messages, handle_dhcp(msg) PROVE reply'.verdict = "OFFER"
    <3> DEFINE l == Located(m)
    <3>1. /\ msg.mac = m /\ msg.type = "DISCOVER" /\ state = "STARTED"
          /\ reply'.verdict = Verdict(msg, l)
      BY <2>1 DEF handle_dhcp
    <3>2. poll.enable
      BY <3>1 DEF PoolOnly
    <3>3. StartIP \in Nat \ {0} /\ EndIP \in Nat
      BY <3>2, SubnetAssumption DEF ServerOK, PoolOK, PoolInv, PoolSafe, Hosts, StartIP, EndIP
    <3>4. l.client \in StartIP .. (EndIP + 1) /\ ~(l.client > EndIP)
      BY <3>1, LocatedFresh, ChosenFree
    <3>5. l.client # NoAddress
      BY <3>3, <3>4 DEF NoAddress
    <3> QED BY <3>1, <3>4, <3>5 DEF Verdict, parse_options
  <2>2. CASE reply' = NoReply
    BY <2>2 DEF NoReply
  <2>3. CASE dhcps_start
    BY <2>3 DEF dhcps_start, PoolOnly, NoReply
  <2>4. Next => \/ \E msg \in Messages : handle_dhcp(msg)
                \/ reply' = NoReply \/ dhcps_start
    BY DEF Next, dhcps_stop, dhcps_tmr, add_dhcp_reservation, del_dhcp_reservation
  <2> QED BY <2>1, <2>2, <2>3, <2>4
<1> QED BY <1>1, PoolOnlyInvariance, PTL DEF Spec, ServedWhileFree
-----------------------------------------------------------------------------
(* The reservation table *)

Labels == {"idle", "fill", "count", "store", "save"}

PcOK == pc \in [Tasks -> Labels]

\* While flash differs from the table, some task has its save still ahead, unless
\* the last save failed.
SaveAhead ==
  nvs # dhcp_reservations =>
    unsaved \/ \E t \in Tasks : pc[t] \in {"count", "store", "save"}

\* A scan that nobody has overtaken is of the table as it is, and a counter that is
\* not stale is exact but between a change of the table and the store of what was
\* counted then.
Exact == Cardinality(Isolated(dhcp_reservations))
CountAhead ==
  ~stale => isolated_count = Exact \/ \E t \in Tasks : pc[t] \in {"count", "store"}
CountFresh == \A t \in Tasks : pc[t] = "store" /\ t \notin outdated => n[t] = Exact
Counted == CountAhead /\ CountFresh

Shapes ==
  /\ PcOK
  /\ outdated \subseteq Tasks /\ stale \in BOOLEAN /\ unsaved \in BOOLEAN
  /\ dhcp_reservations \in [Slots -> Entry] /\ nvs \in [Slots -> Entry]
  /\ slot \in [Tasks -> Slots] /\ mac \in [Tasks -> MacAddrs]
  /\ DOMAIN n = Tasks

TableInv == Shapes /\ SaveAhead /\ Counted
-----------------------------------------------------------------------------
\* What the search for a slot or an entry returns.
LEMMA FirstOfIn ==
  ASSUME NEW S \in SUBSET Slots, S # {}
  PROVE  FirstOf(S) \in S
<1>1. S \in SUBSET Nat
  BY TableAssumption DEF Slots
<1> QED BY <1>1, Smallest DEF FirstOf
-----------------------------------------------------------------------------
LEMMA InitTableInv == TableInit => TableInv
<1> SUFFICES ASSUME TableInit PROVE TableInv
  OBVIOUS
<1>1. Shapes
  <2>1. AnyMac \in MacAddrs
    BY TableAssumption DEF AnyMac
  <2>2. ZeroTable \in [Slots -> Entry]
    BY <2>1 DEF ZeroTable, ZeroEntry, Entry
  <2>3. 1 \in Slots
    BY TableAssumption DEF Slots
  <2> QED BY <2>1, <2>2, <2>3 DEF TableInit, Shapes, PcOK, Labels, AnySlots, AnyMacs, ZeroCounts
<1>2. Isolated(dhcp_reservations) = {}
  BY DEF TableInit, Isolated, ZeroTable, ZeroEntry
<1>3. Counted
  BY <1>2, FS_EmptySet DEF TableInit, Counted, CountAhead, CountFresh, Exact
<1> QED BY <1>1, <1>3 DEF TableInit, TableInv, SaveAhead

\* The values of the locals of a task that is not in an operation.
LEMMA OneSlotOneMac == 1 \in Slots /\ AnyMac \in MacAddrs
BY TableAssumption DEF Slots, AnyMac

LEMMA NextShapes == Shapes /\ [TableNext]_table_vars => Shapes'
<1> SUFFICES ASSUME Shapes, [TableNext]_table_vars PROVE Shapes'
  OBVIOUS
<1> USE DEF Shapes, PcOK, Labels, Goto, Begin, Overtake, history
<1>1. ASSUME NEW t \in Tasks, NEW m \in MacAddrs, UpdateKnown(t, m) PROVE Shapes'
  BY <1>1 DEF UpdateKnown
<1>2. ASSUME NEW t \in Tasks, NEW m \in MacAddrs, FindSlot(t, m) PROVE Shapes'
  <2>1. FirstOf(Free) \in Slots
    <3>1. Free \in SUBSET Slots /\ Free # {}
      BY <1>2 DEF FindSlot, Free
    <3> QED BY <3>1, FirstOfIn
  <2> QED BY <1>2, <2>1 DEF FindSlot
<1>3. ASSUME NEW t \in Tasks, NEW m \in MacAddrs, Delete(t, m) PROVE Shapes'
  <2>1. FirstOf(Matching(m)) \in Slots
    <3>1. Matching(m) \in SUBSET Slots /\ Matching(m) # {}
      BY <1>3 DEF Delete, Matching
    <3> QED BY <3>1, FirstOfIn
  <2>2. dhcp_reservations' \in [Slots -> Entry]
    BY <1>3, <2>1 DEF Delete, Entry
  <2> QED BY <1>3, <2>2 DEF Delete
<1>4. ASSUME NEW t \in Tasks, NEW m \in MacAddrs, NEW level \in BOOLEAN, SetIsolation(t, m, level)
      PROVE  Shapes'
  <2>1. FirstOf(Matching(m)) \in Slots
    <3>1. Matching(m) \in SUBSET Slots /\ Matching(m) # {}
      BY <1>4 DEF SetIsolation, Matching
    <3> QED BY <3>1, FirstOfIn
  <2>2. dhcp_reservations' \in [Slots -> Entry]
    BY <1>4, <2>1 DEF SetIsolation, Entry
  <2> QED BY <1>4, <2>2 DEF SetIsolation
<1>5. ASSUME NEW t \in Tasks, FillSlot(t) PROVE Shapes'
  <2>1. dhcp_reservations' \in [Slots -> Entry]
    BY <1>5 DEF FillSlot, Entry
  <2>2. slot' \in [Tasks -> Slots] /\ mac' \in [Tasks -> MacAddrs]
    BY <1>5, OneSlotOneMac DEF FillSlot
  <2> QED BY <1>5, <2>1, <2>2 DEF FillSlot
<1>6. ASSUME NEW t \in Tasks, ClearAll(t) PROVE Shapes'
  <2>1. dhcp_reservations' \in [Slots -> Entry]
    BY <1>6 DEF ClearAll, Entry
  <2> QED BY <1>6, <2>1 DEF ClearAll
<1>7. ASSUME NEW t \in Tasks, Count(t) PROVE Shapes'
  BY <1>7 DEF Count
<1>8. ASSUME NEW t \in Tasks, Store(t) PROVE Shapes'
  BY <1>8 DEF Store
<1>9. ASSUME NEW t \in Tasks, Save(t) PROVE Shapes'
  BY <1>9 DEF Save
<1>10. CASE Reboot
  BY <1>10, OneSlotOneMac DEF Reboot, AnySlots, AnyMacs, ZeroCounts
<1>11. CASE UNCHANGED table_vars
  BY <1>11 DEF table_vars
<1> QED
  BY <1>1, <1>2, <1>3, <1>4, <1>5, <1>6, <1>7, <1>8, <1>9, <1>10, <1>11 DEF TableNext

LEMMA NextSaveAhead == Shapes /\ SaveAhead /\ [TableNext]_table_vars => SaveAhead'
<1> SUFFICES ASSUME Shapes, SaveAhead, [TableNext]_table_vars PROVE SaveAhead'
  OBVIOUS
<1> USE DEF Shapes, PcOK, SaveAhead, Labels, Goto, Begin, Overtake, history
<1>1. ASSUME NEW t \in Tasks, NEW m \in MacAddrs, UpdateKnown(t, m) PROVE SaveAhead'
  BY <1>1 DEF UpdateKnown
<1>2. ASSUME NEW t \in Tasks, NEW m \in MacAddrs, FindSlot(t, m) PROVE SaveAhead'
  BY <1>2 DEF FindSlot
<1>3. ASSUME NEW t \in Tasks, NEW m \in MacAddrs, Delete(t, m) PROVE SaveAhead'
  BY <1>3 DEF Delete
<1>4. ASSUME NEW t \in Tasks, NEW m \in MacAddrs, NEW level \in BOOLEAN, SetIsolation(t, m, level)
      PROVE  SaveAhead'
  BY <1>4 DEF SetIsolation
<1>5. ASSUME NEW t \in Tasks, FillSlot(t) PROVE SaveAhead'
  BY <1>5 DEF FillSlot
<1>6. ASSUME NEW t \in Tasks, ClearAll(t) PROVE SaveAhead'
  BY <1>6 DEF ClearAll
<1>7. ASSUME NEW t \in Tasks, Count(t) PROVE SaveAhead'
  BY <1>7 DEF Count
<1>8. ASSUME NEW t \in Tasks, Store(t) PROVE SaveAhead'
  BY <1>8 DEF Store
<1>9. ASSUME NEW t \in Tasks, Save(t) PROVE SaveAhead'
  BY <1>9 DEF Save
<1>10. CASE Reboot
  BY <1>10 DEF Reboot
<1>11. CASE UNCHANGED table_vars
  BY <1>11 DEF table_vars
<1> QED
  BY <1>1, <1>2, <1>3, <1>4, <1>5, <1>6, <1>7, <1>8, <1>9, <1>10, <1>11 DEF TableNext

\* Who has just scanned is overtaken by a change of what it counts; a change of
\* anything else leaves the count.
LEMMA OvertakenOrSame ==
  ASSUME Shapes, CountFresh, Overtake,
         NEW t \in Tasks, pc[t] # "store", NEW label \in Labels \ {"store"}, Goto(t, label), n' = n
  PROVE  CountFresh' /\ (Exact' = Exact \/ outdated' = {u \in Tasks : pc[u] = "store"})
<1>1. \A u \in Tasks : pc'[u] = "store" => u # t /\ pc[u] = "store"
  BY DEF Shapes, PcOK, Goto
<1>2. CASE Isolated(dhcp_reservations)' = Isolated(dhcp_reservations)
  <2>1. Exact' = Exact /\ outdated' = outdated
    BY <1>2 DEF Overtake, Exact
  <2> QED BY <1>1, <2>1 DEF CountFresh
<1>3. CASE Isolated(dhcp_reservations)' # Isolated(dhcp_reservations)
  <2>1. outdated' = {u \in Tasks : pc[u] = "store"}
    BY <1>3 DEF Overtake
  <2> QED BY <1>1, <2>1 DEF CountFresh
<1> QED BY <1>2, <1>3

LEMMA NextCounted == Shapes /\ Counted /\ [TableNext]_table_vars => Counted'
<1> SUFFICES ASSUME Shapes, Counted, [TableNext]_table_vars PROVE Counted'
  OBVIOUS
<1> USE DEF Labels
\* A step that only moves task t, from and to places where nothing is counted.
<1>1. ASSUME NEW t \in Tasks, NEW label \in {"fill", "save", "idle"}, Goto(t, label),
             pc[t] \in {"idle", "save"},
             UNCHANGED <<dhcp_reservations, isolated_count, n, outdated, stale>>
      PROVE  Counted'
  <2>1. \A u \in Tasks : pc'[u] \in {"count", "store"} <=> pc[u] \in {"count", "store"}
    BY <1>1 DEF Goto, Shapes, PcOK
  <2>2. \A u \in Tasks : pc'[u] = "store" <=> pc[u] = "store"
    BY <1>1 DEF Goto, Shapes, PcOK
  <2>3. Exact' = Exact
    BY <1>1 DEF Exact, Isolated
  <2> QED BY <1>1, <2>1, <2>2, <2>3 DEF Counted, CountAhead, CountFresh
\* A change whose count is ahead.
<1>2. ASSUME NEW t \in Tasks, Begin(t), Goto(t, "count"), Overtake, n' = n PROVE Counted'
  <2>1. pc[t] # "store" /\ pc'[t] = "count"
    BY <1>2 DEF Begin, Goto, Shapes, PcOK
  <2>2. CountFresh'
    BY <1>2, <2>1, OvertakenOrSame DEF Counted
  <2> QED BY <2>1, <2>2 DEF Counted, CountAhead
<1>3. ASSUME NEW t \in Tasks, FillSlot(t) PROVE Counted'
  <2>1. pc[t] = "fill" /\ Goto(t, "save") /\ Overtake /\ n' = n /\ isolated_count' = isolated_count
    BY <1>3 DEF FillSlot
  <2>2. CountFresh'
    BY <2>1, OvertakenOrSame DEF Counted
  <2>3. \A u \in Tasks : pc'[u] \in {"count", "store"} <=> pc[u] \in {"count", "store"}
    BY <2>1 DEF Goto, Shapes, PcOK
  <2>4. ~stale' => ~stale /\ Exact' = Exact
    BY <1>3 DEF FillSlot, Exact
  <2> QED BY <2>1, <2>2, <2>3, <2>4 DEF Counted, CountAhead
<1>4. ASSUME NEW t \in Tasks, Count(t) PROVE Counted'
  <2>1. pc'[t] = "store" /\ n'[t] = Exact
    BY <1>4 DEF Count, Goto, Shapes, PcOK, Exact
  <2>2. \A u \in Tasks : u # t => n'[u] = n[u] /\ pc'[u] = pc[u]
    BY <1>4 DEF Count, Goto, Shapes, PcOK
  <2>3. outdated' = outdated /\ Exact' = Exact
    BY <1>4 DEF Count, Exact, history
  <2> QED BY <2>1, <2>2, <2>3 DEF Counted, CountAhead, CountFresh
<1>5. ASSUME NEW t \in Tasks, Store(t) PROVE Counted'
  <2>1. pc[t] = "store" /\ isolated_count' = n[t] /\ stale' = (t \in outdated)
        /\ outdated' = outdated \ {t} /\ Exact' = Exact
    BY <1>5 DEF Store, Exact
  <2>2. ~stale' => isolated_count' = Exact'
    BY <2>1 DEF Counted, CountFresh
  <2>3. \A u \in Tasks : pc'[u] = "store" => u # t /\ pc[u] = "store" /\ n'[u] = n[u]
    BY <1>5 DEF Store, Goto, Shapes, PcOK
  <2> QED BY <2>1, <2>2, <2>3 DEF Counted, CountAhead, CountFresh
<1>6. CASE Reboot
  <2>1. \A t \in Tasks : pc'[t] = "idle"
    BY <1>6 DEF Reboot
  <2>2. isolated_count' = Exact'
    BY <1>6 DEF Reboot, Exact
  <2> QED BY <2>1, <2>2 DEF Counted, CountAhead, CountFresh
<1>7. CASE UNCHANGED table_vars
  BY <1>7 DEF table_vars, history, Counted, CountAhead, CountFresh, Exact
<1>8. ASSUME NEW t \in Tasks, NEW m \in MacAddrs, UpdateKnown(t, m) \/ FindSlot(t, m)
      PROVE  Counted'
  BY <1>8, <1>1 DEF UpdateKnown, FindSlot, Begin, history
<1>9. ASSUME NEW t \in Tasks, Save(t) PROVE Counted'
  BY <1>9, <1>1 DEF Save
<1>10. ASSUME NEW t \in Tasks, NEW m \in MacAddrs,
              Delete(t, m) \/ \E level \in BOOLEAN : SetIsolation(t, m, level)
       PROVE  Counted'
  BY <1>10, <1>2 DEF Delete, SetIsolation
<1>11. ASSUME NEW t \in Tasks, ClearAll(t) PROVE Counted'
  BY <1>11, <1>2 DEF ClearAll
<1> QED
  BY <1>3, <1>4, <1>5, <1>6, <1>7, <1>8, <1>9, <1>10, <1>11 DEF TableNext

\* The inductive invariant of the table, for any tasks and any table size.
THEOREM TableInvariance == TableSpec => []TableInv
<1>1. TableInv /\ [TableNext]_table_vars => TableInv'
  BY NextShapes, NextSaveAhead, NextCounted DEF TableInv
<1> QED BY <1>1, InitTableInv, PTL DEF TableSpec

\* Whatever tasks edit the table and however their operations overlap, flash and
\* table agree whenever no operation is under way and the last save did not fail
\* (set_config_param_blob saves the whole table after the last write of each
\* operation).
THEOREM FlashFollowsTable == TableSpec => []PersistedWhenIdle
<1>1. TableInv => PersistedWhenIdle
  BY DEF TableInv, SaveAhead, PersistedWhenIdle, Idle
<1> QED BY <1>1, TableInvariance, PTL

\* For any number of tasks and slots, and however edits and power losses overlap, the
\* counter that tells the packet hook whether anybody is isolated is right between
\* edits, unless the count stored last was of a scan that was overtaken, or an entry
\* was overwritten since (recount_isolated, get_dhcp_reservations).
THEOREM CounterAlwaysExact == TableSpec => []CountExactWhenIdle
<1>1. TableInv => CountExactWhenIdle
  BY DEF TableInv, Counted, CountAhead, Exact, CountExactWhenIdle, Idle
<1> QED BY <1>1, TableInvariance, PTL
=============================================================================

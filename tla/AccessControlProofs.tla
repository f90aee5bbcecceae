------------------------ MODULE AccessControlProofs ------------------------
(***************************************************************************)
(* Proofs about AccessControl: no worker writes through a pointer to a     *)
(* node that another worker has freed, for any number of workers, limits,  *)
(* keys and requests, any tables, bursts, pool sizes and clocks.           *)
(***************************************************************************)
EXTENDS AccessControl, FiniteSetTheorems, SequenceTheorems, TLAPS

-----------------------------------------------------------------------------
(***************************************************************************)
(* Arithmetic                                                              *)
(***************************************************************************)

\* The rate of a key with a quota is positive.
LEMMA MaxTpsPositive ==
  ASSUME NEW fm \in Int, fm > 0
  PROVE  MaxTps(fm) \in Nat \ {0}
BY SMT, Z3, SMTT(20) DEF MaxTps

\* The handler's expression for excess never yields a negative number.
LEMMA ExcessNat ==
  ASSUME NEW nd \in NodeType, NEW r \in Nat, NEW t \in Nat
  PROVE  Excess(nd, r, t) \in Nat
<1>1. Abs(t - nd.last) \in Nat
  BY SMT, Z3, SMTT(20) DEF Abs, NodeType
<1>2. r * Abs(t - nd.last) \in Nat
  BY <1>1, SMT, Z3, SMTT(20)
<1>3. Drain(nd, r, t) \in Int
  BY <1>2, SMT, Z3, SMTT(20) DEF Drain
<1> QED
  BY <1>3, SMT, Z3, SMTT(20) DEF Excess, NodeType

\* A delay in ms is a natural number.
LEMMA QuotientNat ==
  ASSUME NEW e \in Nat, NEW r \in Nat \ {0}
  PROVE  (e * 1000) \div r \in Nat
BY SMT, Z3, SMTT(20)

-----------------------------------------------------------------------------
(***************************************************************************)
(* The LRU queue                                                           *)
(***************************************************************************)

\* Removing the last node of a queue keeps the others.
LEMMA DropTailKeeps ==
  ASSUME NEW q \in Seq(Keys), Len(q) > 0
  PROVE  /\ DropTail(q) \in Seq(Keys)
         /\ Len(DropTail(q)) = Len(q) - 1
         /\ \A k \in Keys : InQueue(q, k) /\ k # Tail1(q) => InQueue(DropTail(q), k)
<1>1. Len(q) - 1 \in Nat
  BY SMT, Z3, SMTT(20)
<1>2. \A j \in 1..(Len(q) - 1) : q[j] \in Keys
  BY SMT, Z3, SMTT(20)
<1>3. DropTail(q) \in Seq(Keys) /\ Len(DropTail(q)) = Len(q) - 1
  BY <1>1, <1>2, SMT, Z3, SMTT(20) DEF DropTail
<1>4. ASSUME NEW k \in Keys, InQueue(q, k), k # Tail1(q)
      PROVE  InQueue(DropTail(q), k)
  <2>1. PICK i \in 1..Len(q) : q[i] = k
    BY <1>4, Zenon DEF InQueue
  <2>2. i \in 1..(Len(q) - 1)
    BY <1>4, <2>1, SMT, Z3, SMTT(20) DEF Tail1
  <2> QED
    BY <1>3, <2>1, <2>2, Zenon DEF InQueue, DropTail
<1> QED
  BY <1>3, <1>4, Zenon

\* A lookup moves a node to the head of the queue and loses none.
LEMMA MoveToHeadKeeps ==
  ASSUME NEW q \in Seq(Keys), NEW k \in Keys, InQueue(q, k)
  PROVE  /\ MoveToHead(q, k) \in Seq(Keys)
         /\ \A x \in Keys : InQueue(q, x) => InQueue(MoveToHead(q, k), x)
<1> DEFINE i == CHOOSE j \in 1..Len(q) : q[j] = k
           m == MoveToHead(q, k)
<1>1. i \in 1..Len(q) /\ q[i] = k
  BY Zenon DEF InQueue
<1> HIDE DEF i
<1>2. m = [j \in 1..Len(q) |-> IF j = 1 THEN k ELSE IF j <= i THEN q[j-1] ELSE q[j]]
  BY Zenon DEF MoveToHead, i
<1>3. \A j \in 1..Len(q) : (IF j = 1 THEN k ELSE IF j <= i THEN q[j-1] ELSE q[j]) \in Keys
  BY <1>1, SMT, Z3, SMTT(20)
<1>4. m \in Seq(Keys) /\ Len(m) = Len(q)
  BY <1>2, <1>3, SMT, Z3, SMTT(20)
<1>5. ASSUME NEW x \in Keys, InQueue(q, x)
      PROVE  InQueue(m, x)
  <2>1. PICK p \in 1..Len(q) : q[p] = x
    BY <1>5, Zenon DEF InQueue
  <2>2. CASE p = i
    <3>1. 1 \in 1..Len(m) /\ m[1] = x
      BY <1>1, <1>2, <1>4, <2>1, <2>2, SMT, Z3, SMTT(20)
    <3> QED
      BY <3>1, Zenon DEF InQueue
  <2>3. CASE p < i
    <3>1. p + 1 \in 1..Len(m) /\ m[p + 1] = x
      BY <1>1, <1>2, <1>4, <2>1, <2>3, SMT, Z3, SMTT(20)
    <3> QED
      BY <3>1, Zenon DEF InQueue
  <2>4. CASE p > i
    <3>1. p \in 1..Len(m) /\ m[p] = x
      BY <1>1, <1>2, <1>4, <2>1, <2>4, SMT, Z3, SMTT(20)
    <3> QED
      BY <3>1, Zenon DEF InQueue
  <2> QED
    BY <1>1, <2>2, <2>3, <2>4, SMT, Z3, SMTT(20)
<1> QED
  BY <1>4, <1>5, Zenon

\* Inserting a node at the head of a queue keeps the others.
LEMMA ConsKeeps ==
  ASSUME NEW q \in Seq(Keys), NEW k \in Keys
  PROVE  /\ <<k>> \o q \in Seq(Keys)
         /\ InQueue(<<k>> \o q, k)
         /\ \A x \in Keys : InQueue(q, x) => InQueue(<<k>> \o q, x)
<1> DEFINE s == <<k>> \o q
<1>1. s \in Seq(Keys) /\ Len(s) = Len(q) + 1 /\ s[1] = k
  BY SMT, Z3, SMTT(20)
<1>2. \A i \in 1..Len(q) : s[i + 1] = q[i]
  BY SMT, Z3, SMTT(20)
<1> HIDE DEF s
<1>3. InQueue(s, k)
  <2>1. 1 \in 1..Len(s)
    BY <1>1, SMT, Z3, SMTT(20)
  <2> QED
    BY <1>1, <2>1, Zenon DEF InQueue
<1>4. ASSUME NEW x \in Keys, InQueue(q, x)
      PROVE  InQueue(s, x)
  <2>1. PICK i \in 1..Len(q) : q[i] = x
    BY <1>4, Zenon DEF InQueue
  <2>2. i + 1 \in 1..Len(s) /\ s[i + 1] = x
    BY <1>1, <1>2, <2>1, SMT, Z3, SMTT(20)
  <2> QED
    BY <2>2, Zenon DEF InQueue
<1> QED
  BY <1>1, <1>3, <1>4, Zenon DEF s

\* What an expiry may do to a queue: every pinned node stays.
KeepsPinned(q, nd, q2) ==
  /\ q2 \in Seq(Keys)
  /\ \A k \in Keys : InQueue(q, k) /\ nd[k].count # 0 => InQueue(q2, k)

\* One pass of the expiry loop keeps the pinned nodes.
LEMMA ExpireIdleKeeps ==
  ASSUME NEW q \in Seq(Keys), NEW nd \in [Keys -> NodeType], NEW r, NEW t
  PROVE  KeepsPinned(q, nd, ExpireIdle(q, nd, r, t))
BY DropTailKeeps, Zenon DEF KeepsPinned, ExpireIdle

\* Both expiry calls of a lookup, forced or not, keep the pinned nodes.
LEMMA MakeRoomKeeps ==
  ASSUME NEW q \in Seq(Keys), NEW nd \in [Keys -> NodeType], NEW r, NEW t
  PROVE  KeepsPinned(q, nd, MakeRoom(q, nd, r, t))
<1>1. ASSUME NEW q1 \in Seq(Keys)
      PROVE  KeepsPinned(q1, nd, Expire1(q1, nd, r, t))
  <2>1. KeepsPinned(q1, nd, ExpireIdle(q1, nd, r, t))
    BY ExpireIdleKeeps, Zenon
  <2>2. KeepsPinned(ExpireIdle(q1, nd, r, t), nd, Expire1(q1, nd, r, t))
    BY <2>1, ExpireIdleKeeps, Zenon DEF KeepsPinned, Expire1
  <2> QED
    BY <2>1, <2>2, Zenon DEF KeepsPinned
<1>2. ASSUME NEW q1 \in Seq(Keys)
      PROVE  KeepsPinned(q1, nd, Expire0(q1, nd, r, t))
  <2>1. CASE Len(q1) > 0 /\ nd[Tail1(q1)].count = 0
    <3>1. KeepsPinned(q1, nd, DropTail(q1))
      BY <2>1, DropTailKeeps, Zenon DEF KeepsPinned
    <3>2. KeepsPinned(DropTail(q1), nd, Expire0(q1, nd, r, t))
      BY <2>1, <3>1, <1>1, Zenon DEF KeepsPinned, Expire0
    <3> QED
      BY <3>1, <3>2, Zenon DEF KeepsPinned
  <2>2. CASE ~ (Len(q1) > 0 /\ nd[Tail1(q1)].count = 0)
    BY <2>2, Zenon DEF KeepsPinned, Expire0
  <2> QED
    BY <2>1, <2>2, Zenon
<1>3. KeepsPinned(q, nd, Expire1(q, nd, r, t))
  BY <1>1, Zenon
<1>4. KeepsPinned(Expire1(q, nd, r, t), nd, Expire0(Expire1(q, nd, r, t), nd, r, t))
  BY <1>2, <1>3, Zenon DEF KeepsPinned
<1> QED
  BY <1>3, <1>4, Zenon DEF KeepsPinned, MakeRoom

-----------------------------------------------------------------------------
(***************************************************************************)
(* Types and control state                                                 *)
(***************************************************************************)

\* The initial state satisfies the inductive invariant.
LEMMA InitIInv == Init => IInv
<1> SUFFICES ASSUME Init PROVE IInv
  BY Zenon
<1>1. TypeOK
  BY LimitsAssumption, TimeAssumption, SMT, Z3, SMTT(20)
     DEF Init, TypeOK, NodeType, Blank, Limits
<1>2. ControlInv
  BY Zenon DEF Init, ControlInv
<1>3. \A w \in Workers : Pinned(w) = {}
  BY Zenon DEF Init, Pinned
<1>4. NoDanglingNode
  BY <1>3, Zenon DEF NoDanglingNode
<1>5. PinsCounted
  <2> SUFFICES ASSUME NEW z \in Limits, NEW k \in Keys
               PROVE  Cardinality(Holders(z, k)) <= node[z][k].count
    BY Zenon DEF PinsCounted
  <2>1. Holders(z, k) = {}
    BY <1>3, Zenon DEF Holders
  <2> QED
    BY <2>1, FS_EmptySet, SMT, Z3, SMTT(20) DEF Init, Blank
<1> QED
  BY <1>1, <1>2, <1>4, <1>5, Zenon DEF IInv

\* What Answer leaves behind, whatever the lookup answered.
LEMMA AnswerType ==
  ASSUME TypeOK, ControlInv, NEW w \in Workers, pc[w] = "limit",
         Fm[n[w]][key[cur[w]]] > 0,
         NEW v \in {"BUSY", "ERROR", "OK", "AGAIN"}, NEW e \in Nat,
         v = "AGAIN" => n[w] < NLimits,
         Answer(w, v, e)
  PROVE  /\ now' \in Nat /\ wtime' \in [Workers -> Nat]
         /\ pc' \in [Workers -> {"idle", "limit", "release", "account"}]
         /\ cur' \in [Workers -> Requests \cup {NULL}]
         /\ n' \in [Workers -> 0..NLimits]
         /\ rc' \in [Workers -> {"DECLINED", "BUSY", "ERROR", "OK", "AGAIN"}]
         /\ maxtps' \in [Workers -> Nat]
         /\ mdelay' \in [Workers -> Nat]
         /\ key' \in [Requests -> Keys]
         /\ status' \in [Requests -> {"new", "handling", "delayed", "passed",
                                      "refused", "limited", "failed"}]
         /\ set' \in [Requests -> BOOLEAN]
         /\ delay' \in [Requests -> Nat]
         /\ ControlInv'
<1>1. n[w] \in Limits /\ cur[w] \in Requests /\ key[cur[w]] \in Keys
  BY Zenon DEF ControlInv, TypeOK
<1>2. Fm[n[w]][key[cur[w]]] \in Int
  BY <1>1, FmAssumption, Zenon
<1>3. RateOf(w) \in Nat \ {0}
  BY <1>2, MaxTpsPositive, Zenon DEF RateOf
<1>4. FirstDelay(w, e) \in Nat
  BY <1>3, QuotientNat, SMT, Z3, SMTT(20) DEF FirstDelay
<1>5. n[w] - 1 \in 0..NLimits /\ (v = "AGAIN" => n[w] + 1 \in Limits)
  BY <1>1, LimitsAssumption, SMT, Z3, SMTT(20) DEF Limits
<1>6. /\ now' \in Nat /\ wtime' \in [Workers -> Nat]
      /\ key' \in [Requests -> Keys]
      /\ cur' \in [Workers -> Requests \cup {NULL}]
      /\ status' \in [Requests -> {"new", "handling", "delayed", "passed",
                                   "refused", "limited", "failed"}]
      /\ delay' \in [Requests -> Nat]
  BY Zenon DEF Answer, TypeOK, clocks
<1>7. n' \in [Workers -> 0..NLimits]
  BY <1>5, SMT, Z3, SMTT(20) DEF Answer, TypeOK, Limits
<1>8. pc' \in [Workers -> {"idle", "limit", "release", "account"}]
  BY Zenon DEF Answer, TypeOK
<1>9. /\ rc' \in [Workers -> {"DECLINED", "BUSY", "ERROR", "OK", "AGAIN"}]
      /\ maxtps' \in [Workers -> Nat]
      /\ mdelay' \in [Workers -> Nat]
  BY <1>3, <1>4, Zenon DEF Answer, TypeOK
<1>10. set' \in [Requests -> BOOLEAN]
  BY Zenon DEF Answer, TypeOK
<1>11. ControlInv'
  <2> SUFFICES ASSUME NEW x \in Workers
               PROVE  /\ pc'[x] # "idle" => cur'[x] \in Requests
                      /\ pc'[x] = "limit" => n'[x] \in Limits
                      /\ pc'[x] \in {"release", "account"} => n'[x] < NLimits
                      /\ pc'[x] = "account" => maxtps'[x] # 0
    BY Zenon DEF ControlInv
  <2>1. CASE x = w
    BY <2>1, <1>1, <1>3, <1>5, LimitsAssumption, SMT, Z3, SMTT(20)
       DEF Answer, TypeOK, ControlInv, Limits
  <2>2. CASE x # w
    BY <2>2, Zenon DEF Answer, TypeOK, ControlInv
  <2> QED
    BY <2>1, <2>2, Zenon
<1> QED
  BY <1>6, <1>7, <1>8, <1>9, <1>10, <1>11, Zenon

-----------------------------------------------------------------------------
(***************************************************************************)
(* How a step may change who holds which node                              *)
(***************************************************************************)

\* The holders of a node are finitely many; a held node is in its zone and
\* has a positive count.
LEMMA HoldersFacts ==
  ASSUME TypeOK, NoDanglingNode, PinsCounted, NEW z \in Limits, NEW k \in Keys
  PROVE  /\ IsFiniteSet(Holders(z, k))
         /\ Cardinality(Holders(z, k)) \in Nat
         /\ node[z][k].count \in Nat
         /\ Holders(z, k) # {} => node[z][k].count # 0 /\ InQueue(queue[z], k)
<1>1. IsFiniteSet(Holders(z, k))
  BY WorkersAssumption, FS_Subset, Zenon DEF Holders
<1>2. Cardinality(Holders(z, k)) \in Nat
  BY <1>1, FS_CardinalityType, Zenon
<1>3. node[z][k].count \in Nat
  BY <1>2, SMT, Z3, SMTT(20) DEF PinsCounted, TypeOK, NodeType
<1>4. Holders(z, k) # {} => Cardinality(Holders(z, k)) # 0
  BY <1>1, FS_EmptySet, Zenon
<1>5. Holders(z, k) # {} => node[z][k].count # 0
  BY <1>2, <1>3, <1>4, SMT, Z3, SMTT(20) DEF PinsCounted
<1>6. Holders(z, k) # {} => InQueue(queue[z], k)
  BY Zenon DEF Holders, NoDanglingNode
<1> QED
  BY <1>1, <1>2, <1>3, <1>5, <1>6, Zenon

\* A step after which no worker holds more, and which keeps every counted
\* node in place with its count, preserves both invariants.
LEMMA PinsKept ==
  ASSUME TypeOK, NoDanglingNode, PinsCounted,
         ctxnode' = ctxnode,
         \A x \in Workers : Pinned(x)' \subseteq Pinned(x),
         \A z \in Limits, k \in Keys :
           /\ node'[z][k].count \in Nat
           /\ InQueue(queue[z], k) /\ node[z][k].count # 0 =>
                /\ InQueue(queue'[z], k)
                /\ node'[z][k].count = node[z][k].count
  PROVE  NoDanglingNode' /\ PinsCounted'
<1>1. \A x \in Workers : Pinned(x) \subseteq Limits
  BY Zenon DEF Pinned, TypeOK
<1>2. ASSUME NEW z \in Limits, NEW k \in Keys
      PROVE  Holders(z, k)' \subseteq Holders(z, k)
  BY Zenon DEF Holders
<1>3. NoDanglingNode'
  <2> SUFFICES ASSUME NEW x \in Workers, NEW z \in Pinned(x)'
               PROVE  ctxnode'[x][z] \in Keys /\ InQueue(queue'[z], ctxnode'[x][z])
    BY Zenon DEF NoDanglingNode
  <2>1. z \in Pinned(x) /\ z \in Limits /\ ctxnode[x][z] \in Keys
    BY <1>1, Zenon DEF NoDanglingNode
  <2>2. x \in Holders(z, ctxnode[x][z])
    BY <2>1, Zenon DEF Holders
  <2> QED
    BY <2>1, <2>2, HoldersFacts, Zenon
<1>4. PinsCounted'
  <2> SUFFICES ASSUME NEW z \in Limits, NEW k \in Keys
               PROVE  Cardinality(Holders(z, k)') <= node'[z][k].count
    BY Zenon DEF PinsCounted
  <2>1. IsFiniteSet(Holders(z, k)) /\ Cardinality(Holders(z, k)) \in Nat
    BY HoldersFacts, Zenon
  <2>2. /\ Cardinality(Holders(z, k)') <= Cardinality(Holders(z, k))
        /\ Cardinality(Holders(z, k)') \in Nat
    BY <1>2, <2>1, FS_Subset, FS_CardinalityType, Zenon
  <2>3. CASE Holders(z, k) = {}
    BY <2>2, <2>3, FS_EmptySet, SMT, Z3, SMTT(20)
  <2>4. CASE Holders(z, k) # {}
    <3>1. node'[z][k].count = node[z][k].count /\ node[z][k].count \in Nat
      BY <2>4, HoldersFacts, Zenon
    <3>2. Cardinality(Holders(z, k)) <= node[z][k].count
      BY Zenon DEF PinsCounted
    <3> QED
      BY <2>1, <2>2, <3>1, <3>2, SMT, Z3, SMTT(20)
  <2> QED
    BY <2>3, <2>4, Zenon
<1> QED
  BY <1>3, <1>4, Zenon

\* A lookup that pins node k0 of zone z0 for worker w and counts it.
LEMMA PinAdded ==
  ASSUME TypeOK, NoDanglingNode, PinsCounted,
         NEW w \in Workers, NEW z0 \in Limits, NEW k0 \in Keys,
         z0 \notin Pinned(w),
         Pinned(w)' = Pinned(w) \cup {z0},
         \A x \in Workers \ {w} : Pinned(x)' = Pinned(x),
         ctxnode' = [ctxnode EXCEPT ![w][z0] = k0],
         InQueue(queue'[z0], k0),
         node'[z0][k0].count \in Nat,
         node'[z0][k0].count >= Cardinality(Holders(z0, k0)) + 1,
         \A z \in Limits, k \in Keys :
           z # z0 \/ k # k0 =>
           /\ node'[z][k].count \in Nat
           /\ InQueue(queue[z], k) /\ node[z][k].count # 0 =>
                /\ InQueue(queue'[z], k)
                /\ node'[z][k].count = node[z][k].count
  PROVE  NoDanglingNode' /\ PinsCounted'
<1>1. \A x \in Workers : Pinned(x) \subseteq Limits
  BY Zenon DEF Pinned, TypeOK
<1>2. /\ ctxnode'[w][z0] = k0
      /\ \A x \in Workers, z \in Limits :
           x # w \/ z # z0 => ctxnode'[x][z] = ctxnode[x][z]
  BY Zenon DEF TypeOK
<1>3. Holders(z0, k0)' = Holders(z0, k0) \cup {w}
  BY <1>2, ZenonT(20), SMT DEF Holders
<1>4. ASSUME NEW z \in Limits, NEW k \in Keys, z # z0 \/ k # k0
      PROVE  Holders(z, k)' = Holders(z, k)
  BY <1>2, <1>4, SMT, Z3, SMTT(20) DEF Holders
<1>5. NoDanglingNode'
  <2> SUFFICES ASSUME NEW x \in Workers, NEW z \in Pinned(x)'
               PROVE  ctxnode'[x][z] \in Keys /\ InQueue(queue'[z], ctxnode'[x][z])
    BY Zenon DEF NoDanglingNode
  <2>1. CASE x = w /\ z = z0
    BY <2>1, <1>2, Zenon
  <2>2. CASE x # w \/ z # z0
    <3>1. z \in Pinned(x) /\ z \in Limits
      BY <1>1, <2>2, SMT, Z3, SMTT(20)
    <3>2. ctxnode'[x][z] = ctxnode[x][z] /\ ctxnode[x][z] \in Keys
      BY <1>2, <2>2, <3>1, Zenon DEF NoDanglingNode
    <3>3. x \in Holders(z, ctxnode[x][z])
      BY <3>1, Zenon DEF Holders
    <3>4. InQueue(queue[z], ctxnode[x][z]) /\ node[z][ctxnode[x][z]].count # 0
      BY <3>1, <3>2, <3>3, HoldersFacts, Zenon
    <3> QED
      BY <3>1, <3>2, <3>4, Zenon
  <2> QED
    BY <2>1, <2>2, Zenon
<1>6. PinsCounted'
  <2> SUFFICES ASSUME NEW z \in Limits, NEW k \in Keys
               PROVE  Cardinality(Holders(z, k)') <= node'[z][k].count
    BY Zenon DEF PinsCounted
  <2>1. CASE z = z0 /\ k = k0
    <3>1. IsFiniteSet(Holders(z0, k0)) /\ Cardinality(Holders(z0, k0)) \in Nat
      BY HoldersFacts, Zenon
    <3>2. w \notin Holders(z0, k0)
      BY Zenon DEF Holders
    <3>3. Cardinality(Holders(z0, k0)') = Cardinality(Holders(z0, k0)) + 1
      BY <1>3, <3>1, <3>2, FS_AddElement, Zenon
    <3> QED
      BY <2>1, <3>1, <3>3, Zenon
  <2>2. CASE z # z0 \/ k # k0
    <3>1. Holders(z, k)' = Holders(z, k)
      BY <1>4, <2>2, Zenon
    <3>2. CASE Holders(z, k) = {}
      BY <2>2, <3>1, <3>2, FS_EmptySet, SMT, Z3, SMTT(20)
    <3>3. CASE Holders(z, k) # {}
      BY <2>2, <3>1, <3>3, HoldersFacts, Zenon DEF PinsCounted
    <3> QED
      BY <3>2, <3>3, Zenon
  <2> QED
    BY <2>1, <2>2, Zenon
<1> QED
  BY <1>5, <1>6, Zenon

\* Accounting or releasing the node worker w pinned in zone z0.
LEMMA PinRemoved ==
  ASSUME TypeOK, NoDanglingNode, PinsCounted,
         NEW w \in Workers, NEW z0 \in Limits, NEW k0 \in Keys,
         z0 \in Pinned(w), ctxnode[w][z0] = k0,
         Pinned(w)' = Pinned(w) \ {z0},
         \A x \in Workers \ {w} : Pinned(x)' = Pinned(x),
         ctxnode' = [ctxnode EXCEPT ![w][z0] = NULL],
         queue' = queue,
         node'[z0][k0].count = node[z0][k0].count - 1,
         \A z \in Limits, k \in Keys :
           z # z0 \/ k # k0 => node'[z][k].count = node[z][k].count
  PROVE  NoDanglingNode' /\ PinsCounted'
<1>1. \A x \in Workers : Pinned(x) \subseteq Limits
  BY Zenon DEF Pinned, TypeOK
<1>2. \A x \in Workers, z \in Limits :
        x # w \/ z # z0 => ctxnode'[x][z] = ctxnode[x][z]
  BY Zenon DEF TypeOK
<1>3. Holders(z0, k0)' = Holders(z0, k0) \ {w}
  BY <1>1, <1>2, ZenonT(20), SMT DEF Holders
<1>4. ASSUME NEW z \in Limits, NEW k \in Keys, z # z0 \/ k # k0
      PROVE  Holders(z, k)' = Holders(z, k)
  BY <1>1, <1>2, <1>4, SMT, Z3, SMTT(20) DEF Holders
<1>5. NoDanglingNode'
  <2> SUFFICES ASSUME NEW x \in Workers, NEW z \in Pinned(x)'
               PROVE  ctxnode'[x][z] \in Keys /\ InQueue(queue'[z], ctxnode'[x][z])
    BY Zenon DEF NoDanglingNode
  <2>1. z \in Pinned(x) /\ z \in Limits /\ (x # w \/ z # z0)
    BY <1>1, Zenon
  <2> QED
    BY <1>2, <2>1, Zenon DEF NoDanglingNode
<1>6. PinsCounted'
  <2> SUFFICES ASSUME NEW z \in Limits, NEW k \in Keys
               PROVE  Cardinality(Holders(z, k)') <= node'[z][k].count
    BY Zenon DEF PinsCounted
  <2>1. /\ IsFiniteSet(Holders(z, k)) /\ Cardinality(Holders(z, k)) \in Nat
        /\ node[z][k].count \in Nat
        /\ Cardinality(Holders(z, k)) <= node[z][k].count
    BY HoldersFacts, Zenon DEF PinsCounted
  <2>2. CASE z = z0 /\ k = k0
    <3>1. w \in Holders(z0, k0) /\ IsFiniteSet(Holders(z0, k0))
      BY <2>1, <2>2, Zenon DEF Holders
    <3>2. Cardinality(Holders(z0, k0) \ {w}) = Cardinality(Holders(z0, k0)) - 1
      BY <3>1, FS_RemoveElement, Zenon
    <3>3. /\ Cardinality(Holders(z0, k0)) \in Nat /\ node[z0][k0].count \in Nat
          /\ Cardinality(Holders(z0, k0)) <= node[z0][k0].count
      BY <2>1, <2>2, Zenon
    <3>4. Cardinality(Holders(z0, k0)') <= node'[z0][k0].count
      BY <1>3, <3>2, <3>3, SMT, Z3, SMTT(20)
    <3> QED
      BY <2>2, <3>4, Zenon
  <2>3. CASE z # z0 \/ k # k0
    BY <1>4, <2>1, <2>3, Zenon
  <2> QED
    BY <2>2, <2>3, Zenon
<1> QED
  BY <1>5, <1>6, Zenon

-----------------------------------------------------------------------------
(***************************************************************************)
(* The lookups                                                             *)
(***************************************************************************)

\* What is known when a worker reaches the lookup of limit n.
LEMMA AtLookupFacts ==
  ASSUME TypeOK, ControlInv, NEW w \in Workers, NEW found, AtLookup(w, found)
  PROVE  /\ pc[w] = "limit" /\ Fm[n[w]][key[cur[w]]] > 0
         /\ n[w] \in Limits /\ cur[w] \in Requests /\ key[cur[w]] \in Keys
         /\ wtime[w] \in Nat
         /\ RateOf(w) \in Nat
         /\ LookupExcess(w) \in Nat
<1>1. /\ pc[w] = "limit" /\ Fm[n[w]][key[cur[w]]] > 0
      /\ n[w] \in Limits /\ cur[w] \in Requests /\ key[cur[w]] \in Keys
      /\ wtime[w] \in Nat
  BY Zenon DEF AtLookup, ControlInv, TypeOK
<1>2. Fm[n[w]][key[cur[w]]] \in Int
  BY <1>1, FmAssumption, Zenon
<1>3. RateOf(w) \in Nat
  BY <1>1, <1>2, MaxTpsPositive, Zenon DEF RateOf
<1>4. node[n[w]][key[cur[w]]] \in NodeType
  BY <1>1, SMT, Z3, SMTT(20) DEF TypeOK
<1>5. LookupExcess(w) \in Nat
  BY <1>1, <1>3, <1>4, ExcessNat, Zenon DEF LookupExcess
<1> QED
  BY <1>1, <1>3, <1>5, Zenon

\* AGAIN adds the limit just looked up to those the worker has pinned; the
\* other answers leave the pinned limits alone.
LEMMA AnswerPinned ==
  ASSUME TypeOK, ControlInv, NEW w \in Workers, pc[w] = "limit",
         NEW v \in {"BUSY", "ERROR", "OK", "AGAIN"}, NEW e, Answer(w, v, e)
  PROVE  /\ n[w] \notin Pinned(w)
         /\ v = "AGAIN" => Pinned(w)' = Pinned(w) \cup {n[w]}
         /\ v # "AGAIN" => Pinned(w)' = Pinned(w)
         /\ \A x \in Workers \ {w} : Pinned(x)' = Pinned(x)
<1>1. n[w] \in Limits /\ n[w] \in Int
  BY SMT, Z3, SMTT(20) DEF ControlInv, Limits
<1>2. Pinned(w) = {z \in Limits : z < n[w]}
  BY Zenon DEF Pinned
<1>3. ASSUME v = "AGAIN"
      PROVE  Pinned(w)' = Pinned(w) \cup {n[w]}
  <2>1. pc'[w] = "limit" /\ n'[w] = n[w] + 1
    BY <1>3, Zenon DEF Answer, TypeOK
  <2>2. Pinned(w)' = {z \in Limits : z < n[w] + 1}
    BY <2>1, Zenon DEF Pinned
  <2> QED
    BY <1>1, <1>2, <1>3, <2>2, SMT, Z3, SMTT(20) DEF Limits
<1>4. ASSUME v # "AGAIN"
      PROVE  Pinned(w)' = Pinned(w)
  <2>1. pc'[w] \in {"release", "account"} /\ n'[w] = n[w] - 1
    BY <1>4, Zenon DEF Answer, TypeOK
  <2>2. Pinned(w)' = {z \in Limits : z <= n[w] - 1}
    BY <2>1, Zenon DEF Pinned
  <2> QED
    BY <1>1, <1>2, <1>4, <2>2, SMT, Z3, SMTT(20) DEF Limits
<1>5. ASSUME NEW x \in Workers \ {w}
      PROVE  Pinned(x)' = Pinned(x)
  <2>1. pc'[x] = pc[x] /\ n'[x] = n[x]
    BY Zenon DEF Answer, TypeOK
  <2> QED
    BY <2>1, Zenon DEF Pinned
<1>6. n[w] \notin Pinned(w)
  BY <1>1, <1>2, SMT, Z3, SMTT(20)
<1> QED
  BY <1>3, <1>4, <1>5, <1>6, Zenon

\* Putting the pieces of TypeOK' together after a lookup.
LEMMA LookupType ==
  ASSUME TypeOK, ControlInv, NEW w \in Workers, NEW found, AtLookup(w, found),
         NEW v \in {"BUSY", "ERROR", "OK", "AGAIN"}, NEW e \in Nat,
         v = "AGAIN" => n[w] < NLimits,
         Answer(w, v, e),
         queue' \in [Limits -> Seq(Keys)],
         node' \in [Limits -> [Keys -> NodeType]],
         ctxnode' \in [Workers -> [Limits -> Keys \cup {NULL}]],
         Charge(w) \/ UNCHANGED charged
  PROVE  TypeOK' /\ ControlInv'
<1>1. n[w] \in Limits /\ cur[w] \in Requests
  BY AtLookupFacts, Zenon
<1>2. charged' \in [Requests -> [Limits -> Nat]]
  <2>1. CASE Charge(w)
    BY <1>1, <2>1, SMT, Z3, SMTT(20) DEF TypeOK, Charge
  <2>2. CASE UNCHANGED charged
    BY <2>2, Zenon DEF TypeOK
  <2> QED
    BY <2>1, <2>2, Zenon
<1>3. pc[w] = "limit" /\ Fm[n[w]][key[cur[w]]] > 0
  BY AtLookupFacts, Zenon
<1> QED
  BY <1>2, <1>3, AnswerType, Zenon DEF TypeOK

\* A lookup moves the node it found to the head of its queue.
LEMMA MovedToHead ==
  ASSUME TypeOK, NEW z \in Limits, NEW k \in Keys, InQueue(queue[z], k),
         queue' = [queue EXCEPT ![z] = MoveToHead(@, k)]
  PROVE  /\ queue' \in [Limits -> Seq(Keys)]
         /\ \A y \in Limits, x \in Keys :
              InQueue(queue[y], x) => InQueue(queue'[y], x)
<1>1. queue[z] \in Seq(Keys)
  BY Zenon DEF TypeOK
<1>2. /\ MoveToHead(queue[z], k) \in Seq(Keys)
      /\ \A x \in Keys : InQueue(queue[z], x) => InQueue(MoveToHead(queue[z], k), x)
  BY <1>1, MoveToHeadKeeps, Zenon
<1>3. /\ queue'[z] = MoveToHead(queue[z], k)
      /\ \A y \in Limits : y # z => queue'[y] = queue[y]
  BY Zenon DEF TypeOK
<1> QED
  BY <1>2, <1>3, Zenon DEF TypeOK

\* Over the burst: only the queue has changed.
LEMMA LookupBusyInv ==
  ASSUME IInv, NEW w \in Workers, LookupBusy(w)
  PROVE  IInv'
<1> USE DEF IInv
<1>1. AtLookup(w, TRUE) /\ Answer(w, "BUSY", 0)
  BY Zenon DEF LookupBusy
<1>2. n[w] \in Limits /\ key[cur[w]] \in Keys /\ pc[w] = "limit"
  BY <1>1, AtLookupFacts, Zenon
<1>3. InQueue(queue[n[w]], key[cur[w]])
  BY <1>1, Zenon DEF AtLookup
<1>4. queue' = [queue EXCEPT ![n[w]] = MoveToHead(@, key[cur[w]])]
      /\ UNCHANGED <<node, ctxnode, charged>>
  BY Zenon DEF LookupBusy
<1>5. /\ queue' \in [Limits -> Seq(Keys)]
      /\ \A y \in Limits, x \in Keys :
           InQueue(queue[y], x) => InQueue(queue'[y], x)
  BY <1>2, <1>3, <1>4, MovedToHead, Zenon
<1>6. /\ node' \in [Limits -> [Keys -> NodeType]]
      /\ ctxnode' \in [Workers -> [Limits -> Keys \cup {NULL}]]
  BY <1>4, Zenon DEF TypeOK
<1>7. TypeOK' /\ ControlInv'
  BY <1>1, <1>4, <1>5, <1>6, LookupType, Zenon
<1>8. \A x \in Workers : Pinned(x)' \subseteq Pinned(x)
  BY <1>1, <1>2, AnswerPinned, Zenon
<1>9. \A y \in Limits, x \in Keys : node'[y][x].count \in Nat
  BY <1>4, HoldersFacts, Zenon
<1>10. NoDanglingNode' /\ PinsCounted'
  BY <1>4, <1>5, <1>8, <1>9, PinsKept, Zenon
<1> QED
  BY <1>7, <1>10, Zenon

\* Accounted on the spot: excess and last have changed, no count has.
LEMMA LookupAccountInv ==
  ASSUME IInv, NEW w \in Workers, LookupAccount(w)
  PROVE  IInv'
<1> DEFINE z == n[w]
           k == key[cur[w]]
           e == LookupExcess(w)
<1> USE DEF IInv
<1>1. AtLookup(w, TRUE) /\ Answer(w, "OK", e)
  BY Zenon DEF LookupAccount
<1>2. z \in Limits /\ k \in Keys /\ pc[w] = "limit" /\ e \in Nat /\ wtime[w] \in Nat
  BY <1>1, AtLookupFacts, Zenon
<1>3. InQueue(queue[z], k)
  BY <1>1, Zenon DEF AtLookup
<1>4. /\ queue' = [queue EXCEPT ![z] = MoveToHead(@, k)]
      /\ node' = [node EXCEPT ![z][k].excess = e, ![z][k].last = wtime[w]]
      /\ Charge(w) /\ ctxnode' = ctxnode
  BY Zenon DEF LookupAccount
<1> HIDE DEF z, k, e
<1>5. /\ queue' \in [Limits -> Seq(Keys)]
      /\ \A y \in Limits, x \in Keys :
           InQueue(queue[y], x) => InQueue(queue'[y], x)
  BY <1>2, <1>3, <1>4, MovedToHead, Zenon
<1>6. /\ node' \in [Limits -> [Keys -> NodeType]]
      /\ \A y \in Limits, x \in Keys : node'[y][x].count = node[y][x].count
  <2>1. node[z][k] \in NodeType
    BY <1>2, SMT, Z3, SMTT(20) DEF TypeOK
  <2>2. node'[z][k] = [[node[z][k] EXCEPT !.excess = e] EXCEPT !.last = wtime[w]]
    BY <1>2, <1>4, Zenon DEF TypeOK
  <2>3. node'[z][k] \in NodeType /\ node'[z][k].count = node[z][k].count
    BY <1>2, <2>1, <2>2, Zenon DEF NodeType
  <2>4. \A y \in Limits, x \in Keys :
          y # z \/ x # k => node'[y][x] = node[y][x]
    BY <1>2, <1>4, Zenon DEF TypeOK
  <2>5. \A y \in Limits, x \in Keys :
          node'[y][x] \in NodeType /\ node'[y][x].count = node[y][x].count
    <3> SUFFICES ASSUME NEW y \in Limits, NEW x \in Keys
                 PROVE  /\ node'[y][x] \in NodeType
                        /\ node'[y][x].count = node[y][x].count
      BY Zenon
    <3>1. CASE y = z /\ x = k
      BY <2>3, <3>1, Zenon
    <3>2. CASE y # z \/ x # k
      <4>1. node'[y][x] = node[y][x]
        BY <2>4, <3>2, Zenon
      <4>2. node[y][x] \in NodeType
        BY ZenonT(20), SMT DEF TypeOK
      <4> QED
        BY <4>1, <4>2, Zenon
    <3> QED
      BY <3>1, <3>2, Zenon
  <2>6. /\ node' = [y \in Limits |-> node'[y]]
        /\ \A y \in Limits : node'[y] = [x \in Keys |-> node'[y][x]]
    BY <1>2, <1>4, Zenon DEF TypeOK
  <2>7. \A y \in Limits : node'[y] \in [Keys -> NodeType]
    BY <2>5, <2>6, Zenon
  <2> QED
    BY <2>5, <2>6, <2>7, Zenon
<1>7. ctxnode' \in [Workers -> [Limits -> Keys \cup {NULL}]]
  BY <1>4, Zenon DEF TypeOK
<1>8. TypeOK' /\ ControlInv'
  BY <1>1, <1>2, <1>4, <1>5, <1>6, <1>7, LookupType, Zenon
<1>9. \A x \in Workers : Pinned(x)' \subseteq Pinned(x)
  BY <1>1, <1>2, AnswerPinned, Zenon
<1>10. \A y \in Limits, x \in Keys : node'[y][x].count \in Nat
  BY <1>6, HoldersFacts, Zenon
<1>11. NoDanglingNode' /\ PinsCounted'
  BY <1>4, <1>5, <1>6, <1>9, <1>10, PinsKept, Zenon
<1> QED
  BY <1>8, <1>11, Zenon

\* Pinned: the count of one node grows by one, and so do its holders.
LEMMA LookupPinInv ==
  ASSUME IInv, NEW w \in Workers, LookupPin(w)
  PROVE  IInv'
<1> DEFINE z == n[w]
           k == key[cur[w]]
<1> USE DEF IInv
<1>1. AtLookup(w, TRUE) /\ Answer(w, "AGAIN", 0) /\ n[w] < NLimits
  BY Zenon DEF LookupPin
<1>2. z \in Limits /\ k \in Keys /\ pc[w] = "limit"
  BY <1>1, AtLookupFacts, Zenon
<1>3. InQueue(queue[z], k)
  BY <1>1, Zenon DEF AtLookup
<1>4. /\ queue' = [queue EXCEPT ![z] = MoveToHead(@, k)]
      /\ node' = [node EXCEPT ![z][k] = Pin(@)]
      /\ ctxnode' = [ctxnode EXCEPT ![w][z] = k]
      /\ UNCHANGED charged
  BY Zenon DEF LookupPin
<1>5. /\ z \notin Pinned(w)
      /\ Pinned(w)' = Pinned(w) \cup {z}
      /\ \A x \in Workers \ {w} : Pinned(x)' = Pinned(x)
  BY <1>1, <1>2, AnswerPinned, Zenon
<1> HIDE DEF z, k
<1>6. /\ queue' \in [Limits -> Seq(Keys)]
      /\ \A y \in Limits, x \in Keys :
           InQueue(queue[y], x) => InQueue(queue'[y], x)
  BY <1>2, <1>3, <1>4, MovedToHead, Zenon
<1>7. /\ node' \in [Limits -> [Keys -> NodeType]]
      /\ node'[z][k].count = node[z][k].count + 1
      /\ \A y \in Limits, x \in Keys :
           y # z \/ x # k => node'[y][x].count = node[y][x].count
  <2>1. node[z][k] \in NodeType
    BY <1>2, SMT, Z3, SMTT(20) DEF TypeOK
  <2>2. /\ Pin(node[z][k]) \in NodeType
        /\ Pin(node[z][k]).count = node[z][k].count + 1
    BY <2>1, SMT, Z3, SMTT(20) DEF Pin, NodeType
  <2> QED
    BY <1>2, <1>4, <2>2, Zenon DEF TypeOK
<1>8. ctxnode' \in [Workers -> [Limits -> Keys \cup {NULL}]]
  BY <1>2, <1>4, Zenon DEF TypeOK
<1>9. TypeOK' /\ ControlInv'
  BY <1>1, <1>4, <1>6, <1>7, <1>8, LookupType, Zenon
<1>10. /\ Cardinality(Holders(z, k)) \in Nat
       /\ Cardinality(Holders(z, k)) <= node[z][k].count
       /\ \A y \in Limits, x \in Keys : node[y][x].count \in Nat
  BY <1>2, HoldersFacts, Zenon DEF PinsCounted
<1>11. /\ InQueue(queue'[z], k)
       /\ node'[z][k].count \in Nat
       /\ node'[z][k].count >= Cardinality(Holders(z, k)) + 1
  BY <1>2, <1>3, <1>6, <1>7, <1>10, SMT, Z3, SMTT(20)
<1>12. \A y \in Limits, x \in Keys :
         y # z \/ x # k =>
         /\ node'[y][x].count \in Nat
         /\ InQueue(queue[y], x) /\ node[y][x].count # 0 =>
              /\ InQueue(queue'[y], x)
              /\ node'[y][x].count = node[y][x].count
  BY <1>6, <1>7, <1>10, Zenon
<1>13. ctxnode' = [ctxnode EXCEPT ![w][z] = k]
  BY <1>4, Zenon
<1>14. NoDanglingNode' /\ PinsCounted'
  BY <1>2, <1>5, <1>11, <1>12, <1>13, PinAdded, Zenon
<1> QED
  BY <1>9, <1>14, Zenon

\* The nodes of zone z that are in q are as they were, and every pinned node
\* of the zone is in q.
KeepsNodes(z, q) ==
  /\ q \in Seq(Keys)
  /\ Live(node[z], q) \in [Keys -> NodeType]
  /\ \A x \in Keys :
       /\ Live(node[z], q)[x].count \in Nat
       /\ InQueue(queue[z], x) /\ node[z][x].count # 0 =>
            /\ InQueue(q, x)
            /\ Live(node[z], q)[x].count = node[z][x].count

\* That is what making room does.
LEMMA RoomMade ==
  ASSUME TypeOK, NoDanglingNode, PinsCounted, NEW z \in Limits, NEW r, NEW t
  PROVE  KeepsNodes(z, MakeRoom(queue[z], node[z], r, t))
<1> DEFINE q == MakeRoom(queue[z], node[z], r, t)
<1>1. queue[z] \in Seq(Keys) /\ node[z] \in [Keys -> NodeType]
  BY Zenon DEF TypeOK
<1>2. KeepsPinned(queue[z], node[z], q)
  BY <1>1, MakeRoomKeeps, Zenon
<1>3. Blank \in NodeType /\ Blank.count = 0
  BY SMT, Z3, SMTT(20) DEF Blank, NodeType
<1>4. \A x \in Keys : node[z][x].count \in Nat
  BY HoldersFacts, Zenon
<1> HIDE DEF q
<1>5. KeepsNodes(z, q)
  BY <1>1, <1>2, <1>3, <1>4, SMT, Z3, SMTT(20) DEF KeepsNodes, KeepsPinned, Live
<1> QED
  BY <1>5, Zenon DEF q

\* The pool is exhausted: some nodes were freed, none of them pinned.
LEMMA LookupNoMemoryInv ==
  ASSUME IInv, NEW w \in Workers, LookupNoMemory(w)
  PROVE  IInv'
<1> DEFINE z == n[w]
           q == MakeRoom(queue[z], node[z], RateOf(w), wtime[w])
<1> USE DEF IInv
<1>1. AtLookup(w, FALSE) /\ Answer(w, "ERROR", 0)
  BY Zenon DEF LookupNoMemory
<1>2. z \in Limits /\ pc[w] = "limit"
  BY <1>1, AtLookupFacts, Zenon
<1>3. /\ queue' = [queue EXCEPT ![z] = q]
      /\ node' = [node EXCEPT ![z] = Live(@, q)]
      /\ UNCHANGED <<ctxnode, charged>>
  BY Zenon DEF LookupNoMemory
<1>4. KeepsNodes(z, q)
  BY <1>2, RoomMade, Zenon
<1> HIDE DEF z, q
<1>5. /\ queue' \in [Limits -> Seq(Keys)]
      /\ node' \in [Limits -> [Keys -> NodeType]]
      /\ ctxnode' \in [Workers -> [Limits -> Keys \cup {NULL}]]
  BY <1>2, <1>3, <1>4, Zenon DEF TypeOK, KeepsNodes
<1>6. TypeOK' /\ ControlInv'
  BY <1>1, <1>3, <1>5, LookupType, Zenon
<1>7. \A x \in Workers : Pinned(x)' \subseteq Pinned(x)
  BY <1>1, <1>2, AnswerPinned, Zenon
<1>8. \A y \in Limits, x \in Keys :
        /\ node'[y][x].count \in Nat
        /\ InQueue(queue[y], x) /\ node[y][x].count # 0 =>
             /\ InQueue(queue'[y], x)
             /\ node'[y][x].count = node[y][x].count
  <2> SUFFICES ASSUME NEW y \in Limits, NEW x \in Keys
               PROVE  /\ node'[y][x].count \in Nat
                      /\ InQueue(queue[y], x) /\ node[y][x].count # 0 =>
                           /\ InQueue(queue'[y], x)
                           /\ node'[y][x].count = node[y][x].count
    BY Zenon
  <2>1. CASE y = z
    <3>1. queue'[z] = q /\ node'[z] = Live(node[z], q)
      BY <1>2, <1>3, Zenon DEF TypeOK
    <3> QED
      BY <1>4, <2>1, <3>1, Zenon DEF KeepsNodes
  <2>2. CASE y # z
    <3>1. queue'[y] = queue[y] /\ node'[y] = node[y]
      BY <1>2, <1>3, <2>2, Zenon DEF TypeOK
    <3> QED
      BY <3>1, HoldersFacts, Zenon
  <2> QED
    BY <2>1, <2>2, Zenon
<1>9. NoDanglingNode' /\ PinsCounted'
  BY <1>3, <1>7, <1>8, PinsKept, Zenon
<1> QED
  BY <1>6, <1>9, Zenon

\* A fresh node: nobody held one for this key, so restarting its count at 0,
\* or at 1 for the worker that has just pinned it, loses nothing.
LEMMA LookupNewInv ==
  ASSUME IInv, NEW w \in Workers, LookupNew(w)
  PROVE  IInv'
<1> DEFINE z == n[w]
           k == key[cur[w]]
           q == MakeRoom(queue[z], node[z], RateOf(w), wtime[w])
           fresh == IF z = NLimits
                    THEN [excess |-> 0, last |-> wtime[w], count |-> 0]
                    ELSE [excess |-> 0, last |-> 0, count |-> 1]
<1> USE DEF IInv
<1>1. AtLookup(w, FALSE)
  BY Zenon DEF LookupNew
<1>2. z \in Limits /\ k \in Keys /\ pc[w] = "limit" /\ wtime[w] \in Nat
  BY <1>1, AtLookupFacts, Zenon
<1>3. /\ queue' = [queue EXCEPT ![z] = <<k>> \o q]
      /\ node' = [node EXCEPT ![z] = [Live(@, q) EXCEPT ![k] = fresh]]
  BY Zenon DEF LookupNew
<1>4. KeepsNodes(z, q)
  BY <1>2, RoomMade, Zenon
<1>5. ~ InQueue(queue[z], k)
  BY <1>1, Zenon DEF AtLookup
<1>6. fresh \in NodeType /\ fresh.count = IF z = NLimits THEN 0 ELSE 1
  BY <1>2, SMT, Z3, SMTT(20) DEF NodeType
<1> HIDE DEF fresh, q
<1>8. /\ queue'[z] = <<k>> \o q
      /\ node'[z] = [Live(node[z], q) EXCEPT ![k] = fresh]
      /\ \A y \in Limits : y # z => queue'[y] = queue[y] /\ node'[y] = node[y]
  BY <1>2, <1>3, Zenon DEF TypeOK
<1>9. /\ queue'[z] \in Seq(Keys) /\ InQueue(queue'[z], k)
      /\ \A x \in Keys : InQueue(q, x) => InQueue(queue'[z], x)
  BY <1>2, <1>4, <1>8, ConsKeeps, SMT, Z3, SMTT(20) DEF KeepsNodes
<1>10. /\ queue' \in [Limits -> Seq(Keys)]
       /\ node' \in [Limits -> [Keys -> NodeType]]
       /\ node'[z][k] = fresh
  <2>1. [Live(node[z], q) EXCEPT ![k] = fresh] \in [Keys -> NodeType]
    BY <1>4, <1>6, Zenon DEF KeepsNodes
  <2> QED
    BY <1>2, <1>3, <1>4, <1>8, <1>9, <2>1, Zenon DEF TypeOK, KeepsNodes
<1>11. \A y \in Limits, x \in Keys :
         y # z \/ x # k =>
         /\ node'[y][x].count \in Nat
         /\ InQueue(queue[y], x) /\ node[y][x].count # 0 =>
              /\ InQueue(queue'[y], x)
              /\ node'[y][x].count = node[y][x].count
  <2> SUFFICES ASSUME NEW y \in Limits, NEW x \in Keys, y # z \/ x # k
               PROVE  /\ node'[y][x].count \in Nat
                      /\ InQueue(queue[y], x) /\ node[y][x].count # 0 =>
                           /\ InQueue(queue'[y], x)
                           /\ node'[y][x].count = node[y][x].count
    BY Zenon
  <2>1. CASE y = z
    <3>1. node'[z][x] = Live(node[z], q)[x]
      BY <1>4, <1>8, <2>1, Zenon DEF KeepsNodes
    <3> QED
      BY <1>4, <1>9, <2>1, <3>1, Zenon DEF KeepsNodes
  <2>2. CASE y # z
    <3>1. queue'[y] = queue[y] /\ node'[y] = node[y]
      BY <1>8, <2>2, ZenonT(20), SMT
    <3> QED
      BY <3>1, HoldersFacts, Zenon
  <2> QED
    BY <2>1, <2>2, Zenon
<1>12. CASE z = NLimits
  <2>1. Charge(w) /\ Answer(w, "OK", 0) /\ ctxnode' = ctxnode
    BY <1>12, Zenon DEF LookupNew
  <2>2. ctxnode' \in [Workers -> [Limits -> Keys \cup {NULL}]]
    BY <2>1, Zenon DEF TypeOK
  <2>3. TypeOK' /\ ControlInv'
    BY <1>1, <1>10, <2>1, <2>2, LookupType, Zenon
  <2>4. \A x \in Workers : Pinned(x)' \subseteq Pinned(x)
    BY <1>2, <2>1, AnswerPinned, Zenon
  <2>5. \A y \in Limits, x \in Keys :
          /\ node'[y][x].count \in Nat
          /\ InQueue(queue[y], x) /\ node[y][x].count # 0 =>
               /\ InQueue(queue'[y], x)
               /\ node'[y][x].count = node[y][x].count
    BY <1>5, <1>6, <1>10, <1>11, <1>12, SMT, Z3, SMTT(20)
  <2>6. NoDanglingNode' /\ PinsCounted'
    BY <2>1, <2>4, <2>5, PinsKept, Zenon
  <2> QED
    BY <2>3, <2>6, Zenon
<1>13. CASE z # NLimits
  <2>1. /\ ctxnode' = [ctxnode EXCEPT ![w][z] = k]
        /\ Answer(w, "AGAIN", 0) /\ UNCHANGED charged
    BY <1>13, Zenon DEF LookupNew
  <2>2. ctxnode' \in [Workers -> [Limits -> Keys \cup {NULL}]]
    BY <1>2, <2>1, Zenon DEF TypeOK
  <2>3. n[w] < NLimits
    BY <1>2, <1>13, LimitsAssumption, SMT, Z3, SMTT(20) DEF Limits
  <2>4. TypeOK' /\ ControlInv'
    BY <1>1, <1>10, <2>1, <2>2, <2>3, LookupType, Zenon
  <2>5. /\ z \notin Pinned(w)
        /\ Pinned(w)' = Pinned(w) \cup {z}
        /\ \A x \in Workers \ {w} : Pinned(x)' = Pinned(x)
    BY <1>2, <2>1, AnswerPinned, Zenon
  <2>6. Cardinality(Holders(z, k)) = 0
    BY <1>2, <1>5, HoldersFacts, FS_EmptySet, Zenon
  <2>7. /\ node'[z][k].count \in Nat
        /\ node'[z][k].count >= Cardinality(Holders(z, k)) + 1
    BY <1>6, <1>10, <1>13, <2>6, SMT, Z3, SMTT(20)
  <2> HIDE DEF z, k
  <2>8. NoDanglingNode' /\ PinsCounted'
    BY <1>2, <1>9, <1>11, <2>1, <2>5, <2>7, PinAdded, Zenon
  <2> QED
    BY <2>4, <2>8, Zenon
<1> QED
  BY <1>12, <1>13, Zenon

-----------------------------------------------------------------------------
(***************************************************************************)
(* Release and accounting                                                  *)
(***************************************************************************)

\* A worker about to account or release limit n holds a node there, and the
\* step to n - 1 gives up exactly that one.
LEMMA StepDown ==
  ASSUME IInv, NEW w \in Workers, pc[w] \in {"release", "account"}, n[w] > 0,
         pc' = pc, n' = [n EXCEPT ![w] = n[w] - 1]
  PROVE  /\ n[w] \in Limits /\ n[w] \in Pinned(w)
         /\ ctxnode[w][n[w]] \in Keys
         /\ n' \in [Workers -> 0..NLimits]
         /\ Pinned(w)' = Pinned(w) \ {n[w]}
         /\ \A x \in Workers \ {w} : Pinned(x)' = Pinned(x)
<1>1. n[w] \in Limits /\ n[w] \in Nat /\ Limits \subseteq Nat
  BY LimitsAssumption, SMT, Z3, SMTT(20) DEF IInv, TypeOK, Limits
<1>2. Pinned(w) = {z \in Limits : z <= n[w]}
  BY Zenon DEF Pinned
<1>3. n[w] \in Pinned(w)
  BY <1>1, <1>2, SMT, Z3, SMTT(20)
<1>4. ctxnode[w][n[w]] \in Keys
  BY <1>3, Zenon DEF IInv, NoDanglingNode
<1>5. n' \in [Workers -> 0..NLimits]
  <2>1. n[w] - 1 \in 0..NLimits
    BY <1>1, LimitsAssumption, SMT, Z3, SMTT(20) DEF Limits
  <2> QED
    BY <2>1, Zenon DEF IInv, TypeOK
<1>6. Pinned(w)' = {z \in Limits : z <= n[w] - 1}
  BY Zenon DEF Pinned, IInv, TypeOK
<1>7. Pinned(w)' = Pinned(w) \ {n[w]}
  <2>1. \A z \in Limits : z <= n[w] - 1 <=> z <= n[w] /\ z # n[w]
    BY <1>1, SMT, Z3, SMTT(20)
  <2> QED
    BY <1>2, <1>6, <2>1, Zenon
<1>8. \A x \in Workers \ {w} : Pinned(x)' = Pinned(x)
  BY Zenon DEF Pinned, IInv, TypeOK
<1> QED
  BY <1>1, <1>3, <1>4, <1>5, <1>7, <1>8, Zenon

\* A release gives up the node of one limit and takes its pin back.
LEMMA ReleaseInv ==
  ASSUME IInv, NEW w \in Workers, Release(w)
  PROVE  IInv'
<1> DEFINE z == n[w]
           k == ctxnode[w][z]
<1>1. pc[w] = "release" /\ n[w] > 0 /\ pc' = pc /\ n' = [n EXCEPT ![w] = z - 1]
  BY Zenon DEF Release
<1>2. /\ z \in Limits /\ z \in Pinned(w) /\ k \in Keys
      /\ n' \in [Workers -> 0..NLimits]
      /\ Pinned(w)' = Pinned(w) \ {z}
      /\ \A x \in Workers \ {w} : Pinned(x)' = Pinned(x)
  BY <1>1, StepDown, Zenon
<1>3. /\ node' = [node EXCEPT ![z][k] = Unpin(@)]
      /\ ctxnode' = [ctxnode EXCEPT ![w][z] = NULL]
      /\ queue' = queue
  BY <1>2, NullAssumption, Zenon DEF Release
<1>4. UNCHANGED <<clocks, queue, cur, rc, maxtps, mdelay, request>>
  BY Zenon DEF Release
<1>5. z - 1 < NLimits
  BY <1>2, LimitsAssumption, SMT, Z3, SMTT(20) DEF Limits
<1> HIDE DEF z, k
<1>6. /\ node' \in [Limits -> [Keys -> NodeType]]
      /\ node'[z][k].count = node[z][k].count - 1
      /\ \A y \in Limits, x \in Keys :
           y # z \/ x # k => node'[y][x].count = node[y][x].count
  <2>1. node[z][k] \in NodeType
    BY <1>2, SMT, Z3, SMTT(20) DEF IInv, TypeOK
  <2>2. /\ Unpin(node[z][k]) \in NodeType
        /\ Unpin(node[z][k]).count = node[z][k].count - 1
    BY <2>1, SMT, Z3, SMTT(20) DEF Unpin, NodeType
  <2> QED
    BY <1>2, <1>3, <2>2, Zenon DEF IInv, TypeOK
<1>7. TypeOK'
  BY <1>1, <1>2, <1>3, <1>4, <1>6, Zenon DEF IInv, TypeOK, clocks, request
<1>8. ControlInv'
  BY <1>1, <1>4, <1>5, Zenon DEF IInv, TypeOK, ControlInv
<1>9. TypeOK /\ NoDanglingNode /\ PinsCounted /\ k = ctxnode[w][z]
  BY Zenon DEF IInv, k
<1>10. NoDanglingNode' /\ PinsCounted'
  <2>1. z \in Limits /\ z \in Pinned(w) /\ k \in Keys /\ ctxnode[w][z] = k
    BY <1>2, <1>9, Zenon
  <2>2. ctxnode' = [ctxnode EXCEPT ![w][z] = NULL] /\ queue' = queue
    BY <1>3, Zenon
  <2>3. /\ Pinned(w)' = Pinned(w) \ {z}
        /\ \A x \in Workers \ {w} : Pinned(x)' = Pinned(x)
    BY <1>2, Zenon
  <2> QED
    BY <1>6, <1>9, <2>1, <2>2, <2>3, PinRemoved, Zenon
<1> QED
  BY <1>7, <1>8, <1>10, Zenon DEF IInv

\* Accounting charges the node of one limit and takes its pin back.
LEMMA AccountInv ==
  ASSUME IInv, NEW w \in Workers, Account(w)
  PROVE  IInv'
<1> DEFINE z == n[w]
           k == ctxnode[w][z]
           e == Excess(node[z][k], maxtps[w], wtime[w])
           d == IF NoDelay[z] THEN 0 ELSE (e * 1000) \div maxtps[w]
<1>1. pc[w] = "account" /\ n[w] > 0 /\ pc' = pc /\ n' = [n EXCEPT ![w] = z - 1]
  BY Zenon DEF Account
<1>2. /\ z \in Limits /\ z \in Pinned(w) /\ k \in Keys
      /\ n' \in [Workers -> 0..NLimits]
      /\ Pinned(w)' = Pinned(w) \ {z}
      /\ \A x \in Workers \ {w} : Pinned(x)' = Pinned(x)
  BY <1>1, StepDown, Zenon
<1>3. /\ node' = [node EXCEPT ![z][k] =
                    Unpin([@ EXCEPT !.excess = e, !.last = wtime[w]])]
      /\ mdelay' = [mdelay EXCEPT ![w] = IF d > @ THEN d ELSE @]
      /\ Charge(w)
      /\ ctxnode' = [ctxnode EXCEPT ![w][z] = NULL]
      /\ queue' = queue
  BY <1>2, NullAssumption, ZenonT(20), SMT DEF Account
<1>4. UNCHANGED <<clocks, cur, rc, maxtps, key, status, set, delay>>
  BY Zenon DEF Account
<1>5. z - 1 < NLimits
  BY <1>2, LimitsAssumption, SMT, Z3, SMTT(20) DEF Limits
<1>6. /\ node[z][k] \in NodeType /\ wtime[w] \in Nat /\ maxtps[w] \in Nat \ {0}
      /\ cur[w] \in Requests
  BY <1>1, <1>2, SMT, Z3, SMTT(20) DEF IInv, TypeOK, ControlInv
<1>7. e \in Nat
  BY <1>6, ExcessNat, Zenon
<1>8. d \in Nat
  <2> HIDE DEF e
  <2> QED
    BY <1>6, <1>7, QuotientNat, SMT, Z3, SMTT(20)
<1>9. charged' \in [Requests -> [Limits -> Nat]]
  BY <1>2, <1>3, <1>6, SMT, Z3, SMTT(20) DEF IInv, TypeOK, Charge
<1>10. k = ctxnode[w][z]
  BY Zenon
<1> HIDE DEF z, k, e, d
<1>11. mdelay' \in [Workers -> Nat]
  BY <1>3, <1>8, Zenon DEF IInv, TypeOK
<1>12. /\ node' \in [Limits -> [Keys -> NodeType]]
       /\ node'[z][k].count = node[z][k].count - 1
       /\ \A y \in Limits, x \in Keys :
            y # z \/ x # k => node'[y][x].count = node[y][x].count
  <2> DEFINE nd == Unpin([node[z][k] EXCEPT !.excess = e, !.last = wtime[w]])
  <2>1. nd \in NodeType /\ nd.count = node[z][k].count - 1
    <3> DEFINE c == [node[z][k] EXCEPT !.excess = e, !.last = wtime[w]]
    <3>1. c \in NodeType /\ c.count = node[z][k].count
      BY <1>6, <1>7, Zenon DEF NodeType
    <3> HIDE DEF c
    <3>2. Unpin(c) \in NodeType /\ Unpin(c).count = c.count - 1
      BY <3>1, SMT, Z3, SMTT(20) DEF Unpin, NodeType
    <3> QED
      BY <3>1, <3>2, Zenon DEF c
  <2>2. node' = [node EXCEPT ![z][k] = nd]
    BY <1>3, Zenon
  <2> HIDE DEF nd
  <2> QED
    BY <1>2, <2>1, <2>2, Zenon DEF IInv, TypeOK
<1>13. TypeOK'
  BY <1>1, <1>2, <1>3, <1>4, <1>9, <1>11, <1>12, Zenon DEF IInv, TypeOK, clocks
<1>14. ControlInv'
  BY <1>1, <1>4, <1>5, Zenon DEF IInv, TypeOK, ControlInv
<1>15. TypeOK /\ NoDanglingNode /\ PinsCounted
  BY Zenon DEF IInv
<1>16. NoDanglingNode' /\ PinsCounted'
  <2>1. z \in Limits /\ z \in Pinned(w) /\ k \in Keys /\ ctxnode[w][z] = k
    BY <1>2, <1>10, Zenon
  <2>2. ctxnode' = [ctxnode EXCEPT ![w][z] = NULL] /\ queue' = queue
    BY <1>3, Zenon
  <2>3. /\ Pinned(w)' = Pinned(w) \ {z}
        /\ \A x \in Workers \ {w} : Pinned(x)' = Pinned(x)
    BY <1>2, Zenon
  <2> QED
    BY <1>12, <1>15, <2>1, <2>2, <2>3, PinRemoved, Zenon
<1> QED
  BY <1>13, <1>14, <1>16, Zenon DEF IInv

-----------------------------------------------------------------------------
(***************************************************************************)
(* Entering and leaving the handler, clocks and timers                     *)
(***************************************************************************)

\* A step that leaves the zones and ctx->node alone and pins nothing.
LEMMA HandsOff ==
  ASSUME TypeOK, NoDanglingNode, PinsCounted,
         UNCHANGED <<queue, node, ctxnode>>,
         \A x \in Workers : Pinned(x)' \subseteq Pinned(x)
  PROVE  NoDanglingNode' /\ PinsCounted'
<1>1. \A z \in Limits, k \in Keys : node[z][k].count \in Nat
  BY HoldersFacts, Zenon
<1> QED
  BY <1>1, PinsKept, Zenon

\* The worker returns from the handler: it holds nothing any more.
LEMMA LeaveInv ==
  ASSUME IInv, NEW w \in Workers, pc[w] # "idle",
         NEW s \in {"passed", "delayed", "failed", "refused", "limited"},
         Leave(w, s),
         UNCHANGED <<clocks, queue, node, ctxnode, key, set, charged>>,
         delay' \in [Requests -> Nat]
  PROVE  IInv'
<1>1. cur[w] \in Requests
  BY Zenon DEF IInv, ControlInv
<1>2. TypeOK'
  <2>1. 0 \in 0..NLimits
    BY LimitsAssumption, SMT, Z3, SMTT(20)
  <2>2. /\ pc' \in [Workers -> {"idle", "limit", "release", "account"}]
        /\ cur' \in [Workers -> Requests \cup {NULL}]
        /\ n' \in [Workers -> 0..NLimits]
        /\ rc' \in [Workers -> {"DECLINED", "BUSY", "ERROR", "OK", "AGAIN"}]
        /\ maxtps' \in [Workers -> Nat]
        /\ mdelay' \in [Workers -> Nat]
    BY <2>1, Zenon DEF IInv, TypeOK, Leave
  <2>3. status' \in [Requests -> {"new", "handling", "delayed", "passed",
                                  "refused", "limited", "failed"}]
    BY <1>1, Zenon DEF IInv, TypeOK, Leave
  <2> QED
    BY <2>2, <2>3, Zenon DEF IInv, TypeOK, clocks
<1>3. ControlInv'
  BY Zenon DEF IInv, TypeOK, ControlInv, Leave
<1>4. ASSUME NEW x \in Workers
      PROVE  Pinned(x)' \subseteq Pinned(x)
  <2>1. CASE x = w
    <3>1. pc'[w] = "idle"
      BY Zenon DEF Leave, IInv, TypeOK
    <3>2. Pinned(w)' = {}
      BY <3>1, Zenon DEF Pinned
    <3> QED
      BY <2>1, <3>2, Zenon
  <2>2. CASE x # w
    <3>1. pc'[x] = pc[x] /\ n'[x] = n[x]
      BY <2>2, Zenon DEF Leave, IInv, TypeOK
    <3> QED
      BY <3>1, Zenon DEF Pinned
  <2> QED
    BY <2>1, <2>2, Zenon
<1>5. NoDanglingNode' /\ PinsCounted'
  BY <1>4, HandsOff, Zenon DEF IInv
<1> QED
  BY <1>2, <1>3, <1>5, Zenon DEF IInv

\* A request enters the handler, or is declined there at once.
LEMMA HandlerInv ==
  ASSUME IInv, NEW w \in Workers, NEW r \in Requests, Handler(w, r)
  PROVE  IInv'
<1>1. pc[w] = "idle" /\ UNCHANGED <<queue, node, ctxnode>>
  BY Zenon DEF Handler, shared
<1>2. 1 \in Limits /\ 1 \in 0..NLimits
  BY LimitsAssumption, SMT, Z3, SMTT(20) DEF Limits
<1>3. TypeOK'
  <2>1. /\ pc' \in [Workers -> {"idle", "limit", "release", "account"}]
        /\ cur' \in [Workers -> Requests \cup {NULL}]
        /\ n' \in [Workers -> 0..NLimits]
        /\ status' \in [Requests -> {"new", "handling", "delayed", "passed",
                                     "refused", "limited", "failed"}]
    <3>1. CASE Controlled(r)
      <4>1. /\ status' = [status EXCEPT ![r] = "passed"]
            /\ pc' = pc /\ cur' = cur /\ n' = n
        BY <3>1, Zenon DEF Handler
      <4> QED
        BY <4>1, Zenon DEF IInv, TypeOK
    <3>2. CASE ~ Controlled(r)
      <4>1. /\ status' = [status EXCEPT ![r] = "handling"]
            /\ pc' = [pc EXCEPT ![w] = "limit"]
            /\ cur' = [cur EXCEPT ![w] = r]
            /\ n' = [n EXCEPT ![w] = 1]
        BY <3>2, Zenon DEF Handler
      <4> QED
        BY <1>2, <4>1, Zenon DEF IInv, TypeOK
    <3> QED
      BY <3>1, <3>2, Zenon
  <2>2. UNCHANGED <<now, wtime, queue, node, rc, ctxnode, maxtps, mdelay,
                    key, set, delay, charged>>
    BY Zenon DEF Handler, clocks, shared
  <2> QED
    BY <2>1, <2>2, Zenon DEF IInv, TypeOK
<1>4. ControlInv'
  BY <1>2, SMT, Z3, SMTT(20) DEF IInv, TypeOK, ControlInv, Handler
<1>5. ASSUME NEW x \in Workers
      PROVE  Pinned(x)' \subseteq Pinned(x)
  <2>1. CASE pc'[x] = pc[x] /\ n'[x] = n[x]
    BY <2>1, Zenon DEF Pinned
  <2>2. CASE x = w /\ pc'[w] = "limit" /\ n'[w] = 1
    <3>1. Pinned(w)' = {z \in Limits : z < 1}
      BY <2>2, Zenon DEF Pinned
    <3>2. \A z \in Limits : ~ (z < 1)
      BY LimitsAssumption, SMT, Z3, SMTT(20) DEF Limits
    <3> QED
      BY <2>2, <3>1, <3>2, Zenon
  <2> QED
    BY <2>1, <2>2, Zenon DEF Handler, IInv, TypeOK
<1>6. NoDanglingNode' /\ PinsCounted'
  BY <1>1, <1>5, HandsOff, Zenon DEF IInv
<1> QED
  BY <1>3, <1>4, <1>6, Zenon DEF IInv

\* Clocks, timers and stuttering leave the workers alone.
LEMMA OutsideInv ==
  ASSUME IInv, UNCHANGED <<shared, worker>>,
         now' \in Nat, wtime' \in [Workers -> Nat],
         status' \in [Requests -> {"new", "handling", "delayed", "passed",
                                   "refused", "limited", "failed"}],
         UNCHANGED <<key, set, delay, charged>>
  PROVE  IInv'
<1>1. TypeOK'
  BY Zenon DEF IInv, TypeOK, shared, worker
<1>2. ControlInv'
  BY Zenon DEF IInv, ControlInv, worker
<1>3. \A x \in Workers : Pinned(x)' \subseteq Pinned(x)
  BY Zenon DEF Pinned, worker
<1>4. UNCHANGED <<queue, node, ctxnode>>
  BY Zenon DEF shared, worker
<1>5. NoDanglingNode' /\ PinsCounted'
  BY <1>3, <1>4, HandsOff, Zenon DEF IInv
<1> QED
  BY <1>1, <1>2, <1>5, Zenon DEF IInv

\* Every step of the specification preserves the inductive invariant.
LEMMA NextIInv == IInv /\ [Next]_vars => IInv'
<1> SUFFICES ASSUME IInv, [Next]_vars PROVE IInv'
  BY Zenon
<1>1. CASE Tick
  BY <1>1, OutsideInv, TimeAssumption, SMT, Z3, SMTT(20)
     DEF Tick, IInv, TypeOK, request
<1>2. ASSUME NEW w \in Workers, TimeUpdate(w)
      PROVE  IInv'
  BY <1>2, OutsideInv, Zenon DEF TimeUpdate, IInv, TypeOK, request
<1>3. ASSUME NEW w \in Workers, NEW r \in Requests, Handler(w, r)
      PROVE  IInv'
  BY <1>3, HandlerInv, Zenon
<1>4. ASSUME NEW w \in Workers, Refuse(w)
      PROVE  IInv'
  BY <1>4, LeaveInv, Zenon DEF Refuse, shared, IInv, TypeOK
<1>5. ASSUME NEW w \in Workers, Limited(w)
      PROVE  IInv'
  BY <1>5, LeaveInv, Zenon DEF Limited, shared, IInv, TypeOK
<1>6. ASSUME NEW w \in Workers, Accounted(w)
      PROVE  IInv'
  <2>1. PICK s \in {"passed", "delayed", "failed"} : Leave(w, s)
    BY <1>6, Zenon DEF Accounted
  <2>2. delay' \in [Requests -> Nat]
    BY <1>6, Zenon DEF Accounted, IInv, TypeOK
  <2> QED
    BY <1>6, <2>1, <2>2, LeaveInv, Zenon DEF Accounted, shared
<1>7. ASSUME NEW w \in Workers, Step(w)
      PROVE  IInv'
  BY <1>4, <1>5, <1>6, <1>7, LookupBusyInv, LookupAccountInv, LookupPinInv,
     LookupNoMemoryInv, LookupNewInv, ReleaseInv, AccountInv, ZenonT(20), SMT
     DEF Step
<1>8. ASSUME NEW r \in Requests, DelayOver(r) \/ DelayAborted(r)
      PROVE  IInv'
  BY <1>8, OutsideInv, Zenon DEF DelayOver, DelayAborted, clocks, IInv, TypeOK
<1>9. CASE UNCHANGED vars
  BY <1>9, OutsideInv, Zenon DEF vars, clocks, request, IInv, TypeOK
<1> QED
  BY <1>1, <1>2, <1>3, <1>7, <1>8, <1>9, Zenon DEF Next

-----------------------------------------------------------------------------
(***************************************************************************)
(* Theorems                                                                *)
(***************************************************************************)

\* The inductive invariant holds in every reachable state.
THEOREM AlwaysIInv == Spec => []IInv
BY InitIInv, NextIInv, PTL DEF Spec

\* Every variable of the limiter keeps its type; in particular no excess and
\* no delay the handler computes is ever negative.
THEOREM TypeCorrect == Spec => []TypeOK
<1>1. IInv => TypeOK
  BY Zenon DEF IInv
<1> QED
  BY <1>1, AlwaysIInv, PTL

\* No worker writes, in ngx_http_access_control_account or in the release
\* loop of the handler, through a pointer to a node another worker has freed.
THEOREM NodesStayAlive == Spec => []NoDanglingNode
<1>1. IInv => NoDanglingNode
  BY Zenon DEF IInv
<1> QED
  BY <1>1, AlwaysIInv, PTL

\* The count of a node covers all the workers that hold it.
THEOREM PinsAreCounted == Spec => []PinsCounted
<1>1. IInv => PinsCounted
  BY Zenon DEF IInv
<1> QED
  BY <1>1, AlwaysIInv, PTL
=============================================================================

------------------------- MODULE ExplorerFigures_proofs -------------------------
(***************************************************************************)
(* Theorems about the copy that the pages of Explorer read and about the   *)
(* figures they show of it, for any channel and nodes, any interleaving of *)
(* the copy with the statements of a request, and any failures.            *)
(***************************************************************************)
EXTENDS ExplorerFigures, FiniteSetTheorems, FunctionTheorems, NaturalsInduction, TLAPS

-----------------------------------------------------------------------------
(* Sets of numbers, and sums. *)

LEMMA LeastOf ==
  ASSUME NEW S \in SUBSET Nat, S # {}
  PROVE  \E i \in S : \A j \in S : i <= j
  <1>1. IsWellFoundedOn(OpToRel(<, Nat), Nat)
    BY NatLessThanWellFounded
  <1>2. PICK i \in S : \A j \in S : ~(<<j, i>> \in OpToRel(<, Nat))
    BY <1>1, WFMin, Zenon
  <1>3. \A j \in S : ~(j < i)
    BY <1>2 DEF OpToRel
  <1>4. QED BY <1>3

LEMMA GreatestOf ==
  ASSUME NEW n \in Nat, NEW S \in SUBSET (0..n), S # {}
  PROVE  \E i \in S : \A j \in S : j <= i
  <1> DEFINE T == {k \in Nat : \A j \in S : j <= k}
  <1>1. n \in T /\ T \subseteq Nat
    OBVIOUS
  <1>2. PICK k \in T : \A l \in T : k <= l
    BY <1>1, LeastOf
  <1>3. k \in S
    <2>1. SUFFICES ASSUME k \notin S PROVE FALSE
      OBVIOUS
    <2>2. \A j \in S : j <= k - 1
      BY <2>1
    <2>3. k # 0
      <3>1. PICK j \in S : TRUE
        OBVIOUS
      <3>2. j \in Nat /\ j <= k - 1
        BY <2>2, <3>1
      <3>3. QED BY <3>2
    <2>4. k - 1 \in T
      BY <2>2, <2>3
    <2>5. QED BY <1>2, <2>4
  <1>4. QED BY <1>3

(* A set of finite fibres over a finite set is finite. *)
LEMMA UnitsFinite ==
  ASSUME NEW D, IsFiniteSet(D), NEW f \in [D -> Nat]
  PROVE  IsFiniteSet(UNION {{x} \X (1..f[x]) : x \in D})
  <1> DEFINE F == [x \in D |-> {x} \X (1..f[x])]
             R == {{x} \X (1..f[x]) : x \in D}
  <1>1. F \in Surjection(D, R)
    BY DEF Surjection
  <1>2. IsFiniteSet(R)
    BY <1>1, FS_Surjection
  <1>3. ASSUME NEW x \in D
        PROVE  IsFiniteSet({x} \X (1..f[x]))
    <2>1. IsFiniteSet({x})
      BY FS_Singleton
    <2>2. f[x] \in Int
      OBVIOUS
    <2>3. IsFiniteSet(1..f[x])
      BY <2>2, FS_Interval
    <2>4. QED BY <2>1, <2>3, FS_Product
  <1>4. \A r \in R : IsFiniteSet(r)
    BY <1>3
  <1>5. QED BY <1>2, <1>4, FS_UNION

(* The sum of the sizes of the parts that a key divides a set into. *)
LEMMA TotalOfParts ==
  ASSUME NEW S, IsFiniteSet(S), NEW D, NEW Key \in [S -> D],
         NEW f \in [D -> Nat],
         \A d \in D : f[d] = Cardinality({r \in S : Key[r] = d})
  PROVE  Total(f) = Cardinality(S)
  <1> DEFINE Part(d) == {r \in S : Key[r] = d}
             U == UNION {{x} \X (1..f[x]) : x \in D}
             count == [d \in D |-> CHOOSE b : b \in Bijection(1..f[d], Part(d))]
             G == [p \in U |-> count[p[1]][p[2]]]
  <1>1. ASSUME NEW d \in D
        PROVE  count[d] \in Bijection(1..f[d], Part(d))
    <2>1. IsFiniteSet(Part(d))
      BY FS_Subset
    <2>2. ExistsBijection(1..f[d], Part(d))
      BY <2>1, FS_CardinalityType
    <2>3. \E b : b \in Bijection(1..f[d], Part(d))
      BY <2>2 DEF ExistsBijection
    <2>4. QED BY <2>3
  <1>2. ASSUME NEW p \in U
        PROVE  p[1] \in D /\ p[2] \in 1..f[p[1]] /\ p = <<p[1], p[2]>>
    <2>1. PICK x \in D : p \in {x} \X (1..f[x])
      OBVIOUS
    <2> HIDE DEF U, count, G
    <2>2. p[1] = x /\ p[2] \in 1..f[x] /\ p = <<p[1], p[2]>>
      BY <2>1
    <2>3. QED BY <2>2
  <1>3. \A d \in D : \A i \in 1..f[d] : <<d, i>> \in U
    OBVIOUS
  <1> HIDE DEF U, count
  <1>4. \A d \in D : \A i \in 1..f[d] : count[d][i] \in S /\ Key[count[d][i]] = d
    <2>1. ASSUME NEW d \in D, NEW i \in 1..f[d]
          PROVE  count[d][i] \in S /\ Key[count[d][i]] = d
      <3>1. count[d] \in [1..f[d] -> Part(d)]
        BY <1>1 DEF Bijection, Injection
      <3>2. count[d][i] \in Part(d)
        BY <3>1
      <3>3. QED BY <3>2
    <2>2. QED BY <2>1
  <1>5. G \in [U -> S]
    BY <1>2, <1>4
  <1>6. ASSUME NEW p \in U, NEW q \in U, G[p] = G[q]
        PROVE  p = q
    <2>1. p[1] = q[1]
      BY <1>2, <1>4, <1>6
    <2>2. p[2] = q[2]
      <3>1. \A i, j \in 1..f[p[1]] : count[p[1]][i] = count[p[1]][j] => i = j
        <4>1. count[p[1]] \in Bijection(1..f[p[1]], Part(p[1]))
          BY <1>1, <1>2
        <4>2. QED BY <4>1 DEF Bijection, Injection, IsInjective
      <3>2. count[p[1]][p[2]] = count[p[1]][q[2]]
        BY <2>1, <1>6
      <3>3. p[2] \in 1..f[p[1]] /\ q[2] \in 1..f[p[1]]
        BY <2>1, <1>2
      <3>4. QED BY <3>1, <3>2, <3>3
    <2>3. QED BY <2>1, <2>2, <1>2
  <1>7. ASSUME NEW r \in S
        PROVE  \E p \in U : G[p] = r
    <2>1. Key[r] \in D /\ r \in Part(Key[r])
      OBVIOUS
    <2>2. PICK i \in 1..f[Key[r]] : count[Key[r]][i] = r
      BY <1>1, <2>1 DEF Bijection, Surjection
    <2>3. <<Key[r], i>> \in U
      BY <1>3, <2>1
    <2>4. QED BY <2>2, <2>3
  <1> HIDE DEF G
  <1>8. G \in Bijection(U, S)
    <2>1. G \in Injection(U, S)
      BY <1>5, <1>6 DEF Injection, IsInjective
    <2>2. G \in Surjection(U, S)
      BY <1>5, <1>7 DEF Surjection
    <2>3. QED BY <2>1, <2>2 DEF Bijection
  <1>9. ExistsBijection(U, S)
    BY <1>8 DEF ExistsBijection
  <1>10. Cardinality(U) = Cardinality(S)
    BY <1>9, FS_Bijection, Fun_ExistsBijSymmetric
  <1>11. QED BY <1>10 DEF Total, U

-----------------------------------------------------------------------------
(* The copy: it stays whole and only grows. *)

LEMMA TxsFinite == IsFiniteSet(Txs) /\ IsFiniteSet(Blocks)
  <1>1. IsFiniteSet(Blocks)
    BY CopyAssumption, FS_Interval DEF Blocks
  <1>2. TxCount \in [Blocks -> Nat]
    BY CopyAssumption
  <1>3. IsFiniteSet(UNION {{x} \X (1..TxCount[x]) : x \in Blocks})
    BY <1>1, <1>2, UnitsFinite
  <1>4. QED BY <1>1, <1>3 DEF Txs

LEMMA TxsOfBlock ==
  ASSUME NEW b \in Blocks
  PROVE  Cardinality(TxsOf(b)) = TxCount[b] /\ <<b, 1>> \in Txs
  <1> DEFINE f == [i \in 1..TxCount[b] |-> <<b, i>>]
  <1>1. TxCount[b] \in Nat \ {0}
    BY CopyAssumption
  <1>2. \A i \in 1..TxCount[b] : <<b, i>> \in TxsOf(b)
    BY DEF TxsOf, Txs
  <1>3. \A t \in TxsOf(b) : t[2] \in 1..TxCount[b] /\ t = <<b, t[2]>>
    BY DEF TxsOf, Txs
  <1>4. f \in Injection(1..TxCount[b], TxsOf(b))
    BY <1>2 DEF Injection, IsInjective
  <1>5. \A t \in TxsOf(b) : f[t[2]] = t
    BY <1>3
  <1>6. f \in Surjection(1..TxCount[b], TxsOf(b))
    BY <1>2, <1>3, <1>5 DEF Surjection
  <1>7. ExistsBijection(1..TxCount[b], TxsOf(b))
    BY <1>4, <1>6 DEF ExistsBijection, Bijection
  <1>8. Cardinality(TxsOf(b)) = TxCount[b]
    BY <1>1, <1>7, FS_CountingElements
  <1>9. QED BY <1>1, <1>2, <1>8 DEF TxsOf

Moments ==
  [txs : SUBSET Txs, blocks : SUBSET Blocks, counter : [blocks : Nat, txs : Nat], height : Nat,
   now : Nat, nodes : SUBSET Nodes, lives : [Nodes -> Nat]]

(* A moment of the copy: the blocks stored are whole, and no counter is ahead. *)
Whole(w) ==
  /\ w \in Moments
  /\ \A b \in w.blocks : b < w.height /\ TxsOf(b) \subseteq w.txs
  /\ w.counter.blocks <= Cardinality(w.blocks)
  /\ w.counter.txs <= Cardinality(w.txs \cap Invocations)

(* What was there at moment v is there at moment w. *)
Precedes(v, w) ==
  /\ v.txs \subseteq w.txs /\ v.blocks \subseteq w.blocks /\ v.nodes \subseteq w.nodes
  /\ v.counter.blocks <= w.counter.blocks /\ v.counter.txs <= w.counter.txs
  /\ v.height <= w.height /\ v.now <= w.now
  /\ \A n \in Nodes : v.lives[n] <= w.lives[n]

LEMMA MomentWhole == CopyOK => Whole(Moment)
  BY CopyAssumption DEF CopyOK, WorldOK, Whole, Moment, Moments, Times, Blocks

LEMMA PrecedesAgain ==
  ASSUME NEW u \in Moments, NEW v \in Moments, NEW w \in Moments, Precedes(u, v), Precedes(v, w)
  PROVE  Precedes(u, w)
  <1>1. \A n \in Nodes : u.lives[n] \in Nat /\ v.lives[n] \in Nat /\ w.lives[n] \in Nat
    BY DEF Moments
  <1>2. QED BY <1>1 DEF Precedes, Moments

LEMMA PrecedesItself == ASSUME NEW w \in Moments PROVE Precedes(w, w)
  BY DEF Precedes, Moments

LEMMA Sizes ==
  ASSUME NEW S, NEW T, S \subseteq T, IsFiniteSet(T)
  PROVE  /\ IsFiniteSet(S) /\ Cardinality(S) \in Nat /\ Cardinality(T) \in Nat
         /\ Cardinality(S) <= Cardinality(T)
  BY FS_Subset, FS_CardinalityType

(* A step of a page, or of a route, moves nothing of the copy. *)
Served == (server' = server \/ Uncaught) /\ (events' = events \/ Happens)
CopyStep == World \/ Stop \/ (UNCHANGED <<world, kind>> /\ Served)

LEMMA CopyInitially == CopyInit => CopyOK
  <1> SUFFICES ASSUME CopyInit PROVE CopyOK
    OBVIOUS
  <1>1. WorldOK /\ kind \in Kinds /\ server = "up" /\ events = 0
    BY DEF CopyInit
  <1>2. MaxBlock \in Nat /\ MaxTime \in Nat
    BY CopyAssumption
  <1>3. height \in 0..(MaxBlock + 1) /\ txs \subseteq Txs /\ blocks \subseteq Blocks
    <2>1. CASE "rows" \in Sees[kind]
      BY <2>1 DEF CopyInit
    <2>2. CASE "rows" \notin Sees[kind]
      <3>1. height = MaxBlock + 1 /\ txs = Txs /\ blocks = Blocks
        BY <2>2 DEF CopyInit
      <3>2. QED BY <1>2, <3>1
    <2>3. QED BY <2>1, <2>2
  <1>4. now \in Times /\ nodes \subseteq Nodes
    <2>1. now \in Times \/ now = MaxTime
      BY DEF CopyInit
    <2>2. nodes \in SUBSET Nodes \/ nodes = Nodes
      BY DEF CopyInit
    <2>3. QED BY <1>2, <2>1, <2>2 DEF Times
  <1>5. lives \in [Nodes -> Nat] /\ counter \in [blocks : Nat, txs : Nat]
    <2>1. Cardinality(Txs) \in Nat
      BY TxsFinite, FS_CardinalityType
    <2>2. lives \in [Nodes -> 0..1] \/ lives = [n \in Nodes |-> 0]
      BY DEF CopyInit
    <2>3. counter \in [blocks : 0..(MaxBlock + 1), txs : 0..Cardinality(Txs)]
          \/ counter = [blocks |-> 0, txs |-> 0]
      BY DEF CopyInit
    <2>4. QED BY <1>2, <2>1, <2>2, <2>3
  <1>6. MaxEvents[kind] \in Nat
    BY <1>1, CopyAssumption
  <1>7. QED BY <1>1, <1>2, <1>3, <1>4, <1>5, <1>6 DEF CopyOK

LEMMA CopyStays ==
  ASSUME CopyOK, CopyStep
  PROVE  CopyOK' /\ kind' = kind /\ Precedes(Moment, Moment')
  <1> USE CopyAssumption
  <1>1. Whole(Moment)
    BY MomentWhole
  <1>2. Precedes(Moment, Moment)
    BY <1>1, PrecedesItself DEF Whole
  <1>3. MaxEvents[kind] \in Nat /\ events \in 0..MaxEvents[kind]
    BY DEF CopyOK
  <1>4. IsFiniteSet(txs \cap Invocations) /\ IsFiniteSet(blocks)
    BY TxsFinite, FS_Subset DEF CopyOK
  <1>5. Cardinality(txs \cap Invocations) \in Nat /\ Cardinality(blocks) \in Nat
    BY <1>4, FS_CardinalityType
  <1>6. CASE UNCHANGED <<world, kind>>
             /\ (server' \in {"up", "stopping", "down"}) /\ (events' = events \/ Happens)
    <2>1. Moment' = Moment
      BY <1>6 DEF Moment, world
    <2>2. events' \in 0..MaxEvents[kind]
      <3>1. MaxEvents[kind]' = MaxEvents[kind]
        BY <1>6
      <3>2. QED BY <1>3, <1>6 DEF Happens
    <2>3. CopyOK'
      BY <1>6, <2>2 DEF CopyOK, WorldOK, world, TxsOf
    <2>4. QED BY <1>2, <1>6, <2>1, <2>3
  <1>7. CASE Stop
    BY <1>6, <1>7 DEF Stop
  <1>8. CASE UNCHANGED <<world, kind>> /\ Served
    <2>1. server' \in {"up", "stopping", "down"}
      BY <1>8 DEF Served, Uncaught, CopyOK
    <2>2. QED BY <1>6, <1>8, <2>1 DEF Served
  <1>9. CASE World
    <2>1. events' \in 0..MaxEvents[kind] /\ UNCHANGED <<server, kind>>
      <3>1. Happens /\ UNCHANGED <<server, kind>>
        BY <1>9 DEF World, CommitBlock, CountRow, Tick, SaveTransaction, SaveBlock, SaveNode,
                    StopOrStart, Changes
      <3>2. QED BY <1>3, <3>1 DEF Happens
    <2> USE <2>1 DEF Precedes, Moment
    <2>2. CASE CommitBlock
      <3>1. height' \in 0..(MaxBlock + 1) /\ height < height'
        BY <2>2 DEF CommitBlock, CopyOK
      <3>2. UNCHANGED <<now, txs, blocks, counter, nodes, lives>>
        BY <2>2 DEF CommitBlock
      <3>3. height \in Int /\ \A b \in Blocks : b \in Int
        BY DEF CopyOK, Blocks
      <3>4. \A t \in Txs : t[1] \in Int
        BY <3>3 DEF Txs
      <3>5. WorldOK'
        BY <3>1, <3>2, <3>3, <3>4 DEF WorldOK, CopyOK, TxsOf
      <3>6. Precedes(Moment, Moment')
        BY <3>1, <3>2, <1>2 DEF CopyOK
      <3>7. QED BY <3>1, <3>2, <3>5, <3>6 DEF CopyOK
    <2>3. CASE CountRow
      <3>1. /\ counter.blocks \in Nat /\ counter.txs \in Nat
            /\ counter.blocks <= Cardinality(blocks) /\ counter.txs <= Cardinality(txs \cap Invocations)
        BY DEF CopyOK, WorldOK
      <3>2. /\ counter' \in [blocks : Nat, txs : Nat]
            /\ counter'.blocks <= Cardinality(blocks) /\ counter'.txs <= Cardinality(txs \cap Invocations)
            /\ counter.blocks <= counter'.blocks /\ counter.txs <= counter'.txs
        BY <2>3, <3>1, <1>5 DEF CountRow, CopyOK
      <3>3. UNCHANGED <<height, now, txs, blocks, nodes, lives>>
        BY <2>3 DEF CountRow
      <3>4. WorldOK'
        BY <3>2, <3>3 DEF WorldOK, CopyOK, TxsOf
      <3>5. Precedes(Moment, Moment')
        BY <3>2, <3>3, <1>2
      <3>6. QED BY <3>2, <3>3, <3>4, <3>5 DEF CopyOK
    <2>4. CASE Tick
      <3>1. now' \in Times /\ now <= now' /\ UNCHANGED <<height, txs, blocks, counter, nodes, lives>>
        BY <2>4 DEF Tick, CopyOK, Times
      <3>2. WorldOK'
        BY <3>1 DEF WorldOK, CopyOK, TxsOf
      <3>3. QED BY <3>1, <3>2, <1>2 DEF CopyOK
    <2>5. ASSUME NEW t \in Txs, SaveTransaction(t) PROVE CopyOK' /\ Precedes(Moment, Moment')
      <3>1. txs' = txs \cup {t} /\ UNCHANGED <<height, now, blocks, counter, nodes, lives>>
        BY <2>5 DEF SaveTransaction
      <3>2. txs' \subseteq Txs /\ t[1] < height
        BY <3>1, <2>5 DEF CopyOK, SaveTransaction
      <3>3. \A u \in txs' : u[1] < height /\ \A x \in TxsOf(u[1]) : x[2] < u[2] => x \in txs'
        BY <2>5, <3>1, <3>2 DEF SaveTransaction, CopyOK, WorldOK, TxsOf
      <3>4. Cardinality(txs \cap Invocations) <= Cardinality(txs' \cap Invocations)
            /\ Cardinality(txs' \cap Invocations) \in Nat
        <4>1. IsFiniteSet(txs' \cap Invocations)
          BY <3>2, TxsFinite, FS_Subset
        <4>2. txs \cap Invocations \subseteq txs' \cap Invocations
          BY <3>1
        <4>3. QED BY <4>1, <4>2, Sizes
      <3>5. WorldOK'
        BY <3>1, <3>3, <3>4, <1>5 DEF WorldOK, CopyOK, TxsOf
      <3>6. QED BY <3>1, <3>2, <3>5, <1>2 DEF CopyOK
    <2>6. ASSUME NEW b \in Blocks, SaveBlock(b) PROVE CopyOK' /\ Precedes(Moment, Moment')
      <3>1. blocks' = blocks \cup {b} /\ UNCHANGED <<height, now, txs, counter, nodes, lives>>
        BY <2>6 DEF SaveBlock
      <3>2. blocks' \subseteq Blocks /\ b < height /\ TxsOf(b) \subseteq txs
        BY <3>1, <2>6 DEF CopyOK, SaveBlock
      <3>3. Cardinality(blocks) <= Cardinality(blocks') /\ Cardinality(blocks') \in Nat
        <4>1. IsFiniteSet(blocks')
          BY <3>2, TxsFinite, FS_Subset
        <4>2. QED BY <4>1, <3>1, Sizes
      <3>4. WorldOK'
        BY <3>1, <3>2, <3>3, <1>5 DEF WorldOK, CopyOK, TxsOf
      <3>5. QED BY <3>1, <3>2, <3>4, <1>2 DEF CopyOK
    <2>7. ASSUME NEW n \in Nodes, SaveNode(n) PROVE CopyOK' /\ Precedes(Moment, Moment')
      <3>1. nodes' = nodes \cup {n} /\ UNCHANGED <<height, now, txs, blocks, counter, lives>>
        BY <2>7 DEF SaveNode
      <3>2. WorldOK'
        BY <3>1 DEF WorldOK, CopyOK, TxsOf
      <3>3. QED BY <3>1, <3>2, <1>2 DEF CopyOK
    <2>8. ASSUME NEW n \in Nodes, StopOrStart(n) PROVE CopyOK' /\ Precedes(Moment, Moment')
      <3>1. lives' = [lives EXCEPT ![n] = @ + 1] /\ UNCHANGED <<height, now, txs, blocks, counter, nodes>>
        BY <2>8 DEF StopOrStart
      <3>2. lives' \in [Nodes -> Nat] /\ \A m \in Nodes : lives[m] <= lives'[m]
        BY <3>1 DEF CopyOK
      <3>3. WorldOK'
        BY <3>1 DEF WorldOK, CopyOK, TxsOf
      <3>4. QED BY <3>1, <3>2, <3>3, <1>2 DEF CopyOK
    <2>9. QED BY <1>9, <2>1, <2>2, <2>3, <2>4, <2>5, <2>6, <2>7, <2>8 DEF World
  <1>10. QED BY <1>7, <1>8, <1>9 DEF CopyStep

-----------------------------------------------------------------------------
(* What a statement told, of a request sent at moment m, by moment w. *)

Counts(S, x, T) == x \in Nat /\ Between(S, x, T)
Sent(o, w) == {t \in w.txs : Creator[t] = o}
RowsOf(m, x, w) ==
  /\ \A g, h \in x : g[1] = h[1] => g = h
  /\ \A g \in x : Counts(Sent(g[1], m), g[2], Sent(g[1], w))
  /\ \A t \in m.txs : Creator[t] # NoOrg => \E g \in x : g[1] = Creator[t]
RowTime(k, r) == IF k = "txChart" THEN Time[r] ELSE BlockTime(r)
ChartedIn(k, w) == IF k = "txChart" THEN w.txs ELSE w.blocks
RowsIn(k, w, from, to) == {r \in ChartedIn(k, w) : Within(RowTime(k, r), [from |-> from, to |-> to])}
ChartOf(k, m, x, w) ==
  /\ Total(x.counts) \in Nat
  /\ Between(RowsIn(k, m, x.at - Period, x.at), Total(x.counts),
             RowsIn(k, w, Trunc(x.at) - Period, x.at + Unit))
ActivityOf(m, x) ==
  LET nums == {g.num : g \in x} IN
    /\ \A g \in x : g = FromLedger(g.num)
    /\ \A b \in m.blocks \ nums : Cardinality(nums) = Latest /\ \A n \in nums : n > b
\* Who of N is up, if it did not move since.
StatusOf(N, m, x, w) ==
  \A n \in N : w.lives[n] = m.lives[n] => (n \in x <=> w.lives[n] % 2 = 0)
ChannelOf(m, x, w) ==
  /\ x.blocks \in Nat /\ x.age \in Nat
  /\ m.counter.blocks <= x.blocks /\ x.blocks <= w.height
  /\ x.age = 0 \/ m.blocks = {} \/ x.age <= w.now - LatestTime(m.blocks)

Tells(k, s, m, x, w) ==
  /\ s = "txs" => Counts(m.txs, x, w.txs)
  /\ s = "blocks" => Counts(m.blocks, x, w.blocks)
  /\ s = "peers" => Counts(m.nodes \cap Peers, x, w.nodes)
  /\ s = "chaincode" => x \in Nat /\ m.counter.txs <= x /\ x <= w.counter.txs
  /\ s \in {"senders", "members"} => RowsOf(m, x, w)
  /\ s = "members" => \A n \in m.nodes : \E g \in x : g[1] = OrgOf[n]
  /\ s = "units" => ChartOf(k, m, x, w)
  /\ s = "latest" => ActivityOf(m, x)
  /\ s = "orderers" => StatusOf(Orderers, m, x, w)
  /\ s = "rows" => m.nodes \subseteq x /\ x \subseteq Nodes
  /\ s = "discovery" => StatusOf(Peers, m, x, w)
  /\ s = "channel" => ChannelOf(m, x, w)
  /\ s = "height" => x \in Nat /\ m.height <= x /\ x <= w.height

LEMMA BlockTimes ==
  ASSUME NEW b \in Blocks
  PROVE  BlockTime(b) \in Times
  BY TxsOfBlock, CopyAssumption DEF BlockTime

LEMMA LatestTimeIs ==
  ASSUME NEW B \in SUBSET Blocks, B # {}
  PROVE  /\ LatestTime(B) \in Times
         /\ \E b \in B : BlockTime(b) = LatestTime(B)
         /\ \A b \in B : BlockTime(b) <= LatestTime(B)
  <1> DEFINE T == {BlockTime(b) : b \in B}
  <1>1. T \in SUBSET Times /\ T # {}
    BY BlockTimes
  <1>2. MaxTime \in Nat
    BY CopyAssumption
  <1>3. \E x \in T : \A y \in T : y <= x
    BY <1>1, <1>2, GreatestOf DEF Times
  <1>4. \E x \in T : \A b \in B : BlockTime(b) <= x
    BY <1>3
  <1>5. LatestTime(B) = CHOOSE x \in T : \A b \in B : BlockTime(b) <= x
    BY DEF LatestTime
  <1>6. LatestTime(B) \in T /\ \A b \in B : BlockTime(b) <= LatestTime(B)
    BY <1>4, <1>5
  <1>7. QED BY <1>1, <1>6

LEMMA WholeTypes ==
  ASSUME NEW w, Whole(w)
  PROVE  /\ w \in Moments
         /\ w.txs \subseteq Txs /\ w.blocks \subseteq Blocks /\ w.nodes \subseteq Nodes
         /\ IsFiniteSet(w.txs) /\ IsFiniteSet(w.blocks) /\ IsFiniteSet(w.nodes)
         /\ w.counter.blocks \in Nat /\ w.counter.txs \in Nat /\ w.height \in Nat /\ w.now \in Nat
         /\ \A n \in Nodes : w.lives[n] \in Nat
  <1>1. w \in Moments
    BY DEF Whole
  <1>2. w.txs \subseteq Txs /\ w.blocks \subseteq Blocks /\ w.nodes \subseteq Nodes
    BY <1>1 DEF Moments
  <1>3. IsFiniteSet(w.txs) /\ IsFiniteSet(w.blocks) /\ IsFiniteSet(w.nodes)
    BY <1>2, TxsFinite, CopyAssumption, FS_Subset
  <1>4. QED BY <1>1, <1>2, <1>3 DEF Moments

LEMMA CountsMore ==
  ASSUME NEW S, NEW x, NEW T, NEW U, T \subseteq U, IsFiniteSet(U), Counts(S, x, T), IsFiniteSet(S)
  PROVE  Counts(S, x, U)
  <1>1. Cardinality(T) <= Cardinality(U) /\ Cardinality(T) \in Nat /\ Cardinality(U) \in Nat
    BY Sizes
  <1>2. Cardinality(S) \in Nat
    BY FS_CardinalityType
  <1>3. QED BY <1>1, <1>2 DEF Counts, Between

(* What was told stays true while the copy grows. *)
LEMMA TellsStays ==
  ASSUME NEW k, NEW s, NEW m, NEW x, NEW v, NEW w,
         m \in Moments, Precedes(m, v), Whole(v), Whole(w), Precedes(v, w), Tells(k, s, m, x, v)
  PROVE  Tells(k, s, m, x, w)
  <1>1. /\ m.txs \subseteq Txs /\ m.blocks \subseteq Blocks /\ m.nodes \subseteq Nodes
        /\ IsFiniteSet(m.txs) /\ IsFiniteSet(m.blocks) /\ IsFiniteSet(m.nodes)
    BY TxsFinite, CopyAssumption, FS_Subset DEF Moments
  <1>2. /\ v.txs \subseteq w.txs /\ v.blocks \subseteq w.blocks /\ v.nodes \subseteq w.nodes
        /\ v.height <= w.height /\ v.now <= w.now /\ v.counter.txs <= w.counter.txs
    BY DEF Precedes
  <1>3. /\ IsFiniteSet(w.txs) /\ IsFiniteSet(w.blocks) /\ IsFiniteSet(w.nodes)
        /\ v.height \in Nat /\ w.height \in Nat /\ v.now \in Nat /\ w.now \in Nat
        /\ v.counter.txs \in Nat /\ w.counter.txs \in Nat /\ m.counter.txs \in Nat
    BY WholeTypes DEF Moments
  <1>4. ASSUME s = "txs" PROVE Counts(m.txs, x, w.txs)
    BY <1>1, <1>2, <1>3, <1>4, CountsMore DEF Tells
  <1>5. ASSUME s = "blocks" PROVE Counts(m.blocks, x, w.blocks)
    BY <1>1, <1>2, <1>3, <1>5, CountsMore DEF Tells
  <1>6. ASSUME s = "peers" PROVE Counts(m.nodes \cap Peers, x, w.nodes)
    <2>1. IsFiniteSet(m.nodes \cap Peers)
      BY <1>1, FS_Subset
    <2>2. QED BY <2>1, <1>2, <1>3, <1>6, CountsMore DEF Tells
  <1>7. ASSUME s = "chaincode" PROVE x \in Nat /\ m.counter.txs <= x /\ x <= w.counter.txs
    BY <1>2, <1>3, <1>7 DEF Tells
  <1>8. ASSUME s \in {"senders", "members"} PROVE RowsOf(m, x, w)
    <2>1. RowsOf(m, x, v)
      BY <1>8 DEF Tells
    <2>2. ASSUME NEW g \in x PROVE Counts(Sent(g[1], m), g[2], Sent(g[1], w))
      <3>1. IsFiniteSet(Sent(g[1], m)) /\ IsFiniteSet(Sent(g[1], w))
        BY <1>1, <1>3, FS_Subset DEF Sent
      <3>2. Sent(g[1], v) \subseteq Sent(g[1], w)
        BY <1>2 DEF Sent
      <3>3. Counts(Sent(g[1], m), g[2], Sent(g[1], v))
        BY <2>1, <2>2 DEF RowsOf
      <3>4. QED BY <3>1, <3>2, <3>3, CountsMore
    <2>3. QED BY <2>1, <2>2 DEF RowsOf
  <1>9. ASSUME s = "units" PROVE ChartOf(k, m, x, w)
    <2>1. ChartedIn(k, v) \subseteq ChartedIn(k, w)
      BY <1>2 DEF ChartedIn
    <2>2. IsFiniteSet(ChartedIn(k, m)) /\ IsFiniteSet(ChartedIn(k, w))
      BY <1>1, <1>3 DEF ChartedIn
    <2>3. RowsIn(k, v, Trunc(x.at) - Period, x.at + Unit) \subseteq RowsIn(k, w, Trunc(x.at) - Period, x.at + Unit)
      BY <2>1 DEF RowsIn
    <2>4. /\ IsFiniteSet(RowsIn(k, w, Trunc(x.at) - Period, x.at + Unit))
          /\ IsFiniteSet(RowsIn(k, m, x.at - Period, x.at))
      BY <2>2, FS_Subset DEF RowsIn
    <2>5. Counts(RowsIn(k, m, x.at - Period, x.at), Total(x.counts),
                 RowsIn(k, v, Trunc(x.at) - Period, x.at + Unit))
      BY <1>9 DEF Tells, ChartOf, Counts
    <2>6. QED BY <2>3, <2>4, <2>5, CountsMore DEF ChartOf, Counts
  <1>10. ASSUME NEW N, N \subseteq Nodes, StatusOf(N, m, x, v) PROVE StatusOf(N, m, x, w)
    <2>1. SUFFICES ASSUME NEW n \in N, w.lives[n] = m.lives[n] PROVE v.lives[n] = m.lives[n]
      BY <1>10 DEF StatusOf
    <2>2. m.lives[n] \in Nat /\ v.lives[n] \in Nat /\ w.lives[n] \in Nat
      BY <1>10, WholeTypes DEF Moments
    <2>3. m.lives[n] <= v.lives[n] /\ v.lives[n] <= w.lives[n]
      BY <1>10 DEF Precedes
    <2>4. QED BY <2>1, <2>2, <2>3
  <1>11. Orderers \subseteq Nodes /\ Peers \subseteq Nodes
    BY CopyAssumption DEF Peers
  <1>12. ASSUME s = "orderers" PROVE StatusOf(Orderers, m, x, w)
    BY <1>10, <1>11, <1>12 DEF Tells
  <1>13. ASSUME s = "discovery" PROVE StatusOf(Peers, m, x, w)
    BY <1>10, <1>11, <1>13 DEF Tells
  <1>14. ASSUME s = "channel" PROVE ChannelOf(m, x, w)
    <2>1. ChannelOf(m, x, v)
      BY <1>14 DEF Tells
    <2>2. x.age <= v.now - LatestTime(m.blocks) /\ m.blocks # {} => x.age <= w.now - LatestTime(m.blocks)
      <3>1. m.blocks # {} => LatestTime(m.blocks) \in Int
        BY <1>1, LatestTimeIs DEF Times
      <3>2. QED BY <3>1, <2>1, <1>2, <1>3 DEF ChannelOf
    <2>3. x.blocks <= w.height
      BY <2>1, <1>2, <1>3 DEF ChannelOf
    <2>4. QED BY <2>1, <2>2, <2>3 DEF ChannelOf
  <1>15. ASSUME s = "height" PROVE x \in Nat /\ m.height <= x /\ x <= w.height
    BY <1>2, <1>3, <1>15 DEF Tells
  <1>16. s = "members" => \A n \in m.nodes : \E g \in x : g[1] = OrgOf[n]
    BY DEF Tells
  <1>17. (s = "latest" => ActivityOf(m, x)) /\ (s = "rows" => m.nodes \subseteq x /\ x \subseteq Nodes)
    BY DEF Tells
  <1>18. QED BY <1>4, <1>5, <1>6, <1>7, <1>8, <1>9, <1>12, <1>13, <1>14, <1>15, <1>16, <1>17 DEF Tells

-----------------------------------------------------------------------------
(* What a statement returns is told of the moment it ran. *)

LEMMA CountsOwn ==
  ASSUME NEW S, NEW T, NEW U, S \subseteq T, T \subseteq U, IsFiniteSet(U)
  PROVE  Counts(S, Cardinality(T), U)
  BY Sizes DEF Counts, Between

LEMMA SendersTell ==
  ASSUME NEW m \in Moments, CopyOK, Precedes(m, Moment)
  PROVE  RowsOf(m, Senders, Moment)
  <1>1. m.txs \subseteq txs /\ txs \subseteq Txs /\ IsFiniteSet(txs)
    BY TxsFinite, FS_Subset DEF Precedes, Moment, CopyOK
  <1>2. \A o : Sent(o, Moment) = CreatedBy(o)
    BY DEF Sent, Moment, CreatedBy
  <1>3. \A g \in Senders : g[2] = Cardinality(CreatedBy(g[1])) /\ g[1] \in Orgs /\ g = <<g[1], g[2]>>
    BY DEF Senders
  <1>4. ASSUME NEW g \in Senders
        PROVE  Counts(Sent(g[1], m), g[2], Sent(g[1], Moment))
    <2>1. Sent(g[1], m) \subseteq CreatedBy(g[1])
      BY <1>1 DEF Sent, CreatedBy
    <2>2. IsFiniteSet(CreatedBy(g[1]))
      BY <1>1, FS_Subset DEF CreatedBy
    <2>3. QED BY <2>1, <2>2, <1>2, <1>3, CountsOwn
  <1>5. ASSUME NEW t \in m.txs, Creator[t] # NoOrg
        PROVE  \E g \in Senders : g[1] = Creator[t]
    <2>1. Creator[t] \in Orgs /\ CreatedBy(Creator[t]) # {}
      BY <1>1, <1>5, CopyAssumption DEF CreatedBy
    <2>2. <<Creator[t], Cardinality(CreatedBy(Creator[t]))>> \in Senders
      BY <2>1 DEF Senders
    <2>3. QED BY <2>2
  <1>6. QED BY <1>3, <1>4, <1>5 DEF RowsOf

(* The members are added that sent nothing, so that none has two rows. *)
LEMMA MembersTell ==
  ASSUME NEW m \in Moments, CopyOK, Precedes(m, Moment), NEW x, RowsOf(m, x, Moment)
  PROVE  /\ RowsOf(m, Members(x), Moment)
         /\ \A n \in m.nodes : \E g \in Members(x) : g[1] = OrgOf[n]
  <1> DEFINE New == {<<o, 0>> : o \in {p \in Mspids : \A g \in x : g[1] # p}}
  <1>1. Members(x) = x \cup New
    BY DEF Members
  <1>2. \A g \in New : g[1] \in Mspids /\ g = <<g[1], 0>> /\ \A h \in x : h[1] # g[1]
    OBVIOUS
  <1>3. \A o \in Mspids : (\A g \in x : g[1] # o) => <<o, 0>> \in New
    OBVIOUS
  <1> HIDE DEF New
  <1>4. \A g, h \in Members(x) : g[1] = h[1] => g = h
    BY <1>1, <1>2 DEF RowsOf
  <1>5. ASSUME NEW g \in New
        PROVE  Counts(Sent(g[1], m), g[2], Sent(g[1], Moment))
    <2>1. m.txs \subseteq txs /\ txs \subseteq Txs /\ IsFiniteSet(txs)
      BY TxsFinite, FS_Subset DEF Precedes, Moment, CopyOK
    <2>2. g[1] \in Orgs
      BY <1>2, CopyAssumption DEF Mspids, CopyOK
    <2>3. Sent(g[1], m) = {}
      BY <1>2, <2>2, CopyAssumption DEF RowsOf, Sent
    <2>4. IsFiniteSet(Sent(g[1], Moment))
      BY <2>1, FS_Subset DEF Sent, Moment
    <2>5. Cardinality(Sent(g[1], Moment)) \in Nat /\ Cardinality({}) = 0 /\ g[2] = 0
      BY <1>2, <2>4, FS_CardinalityType, FS_EmptySet
    <2>6. QED BY <2>3, <2>5 DEF Counts, Between
  <1>6. \A g \in Members(x) : Counts(Sent(g[1], m), g[2], Sent(g[1], Moment))
    BY <1>1, <1>5 DEF RowsOf
  <1>7. RowsOf(m, Members(x), Moment)
    BY <1>1, <1>4, <1>6 DEF RowsOf
  <1>8. ASSUME NEW n \in m.nodes
        PROVE  \E g \in Members(x) : g[1] = OrgOf[n]
    <2>1. OrgOf[n] \in Mspids
      BY DEF Mspids, Precedes, Moment
    <2>2. CASE \A g \in x : g[1] # OrgOf[n]
      <3>1. <<OrgOf[n], 0>> \in Members(x)
        BY <1>1, <1>3, <2>1, <2>2
      <3>2. QED BY <3>1
    <2>3. CASE \E g \in x : g[1] = OrgOf[n]
      BY <1>1, <2>3
    <2>4. QED BY <2>2, <2>3
  <1>9. QED BY <1>7, <1>8

(* A time, and the unit it is in. *)
LEMMA TruncIs ==
  ASSUME NEW x \in Nat
  PROVE  /\ x \div Unit \in Nat /\ Trunc(x) = (x \div Unit) * Unit
         /\ Trunc(x) \in Nat /\ Trunc(x) <= x /\ x < Trunc(x) + Unit
  <1>1. Unit \in Nat \ {0}
    BY FiguresAssumption
  <1>2. x \div Unit \in Nat /\ x = (x \div Unit) * Unit + (x % Unit) /\ x % Unit \in 0..(Unit - 1)
    BY <1>1
  <1>3. (x \div Unit) * Unit \in Nat
    BY <1>1, <1>2
  <1>4. QED BY <1>1, <1>2, <1>3 DEF Trunc

LEMMA PeriodIs == Period \in Nat /\ Period \div Unit \in Nat /\ Period = (Period \div Unit) * Unit
  <1>1. Period \in Nat /\ Unit \in Nat \ {0} /\ Period % Unit = 0
    BY FiguresAssumption
  <1>2. Period \div Unit \in Nat /\ Period = (Period \div Unit) * Unit + (Period % Unit)
    BY <1>1
  <1>3. (Period \div Unit) * Unit \in Nat
    BY <1>1, <1>2
  <1>4. QED BY <1>1, <1>2, <1>3

LEMMA Multiples ==
  ASSUME NEW a \in Int, NEW b \in Int, NEW u \in Nat \ {0}, a * u < b * u + u
  PROVE  a <= b
  <1>1. SUFFICES ASSUME a >= b + 1 PROVE FALSE
    OBVIOUS
  <1>2. PICK d \in Nat : a = b + 1 + d
    <2>1. a - b - 1 \in Nat /\ a = b + 1 + (a - b - 1)
      BY <1>1
    <2>2. QED BY <2>1
  <1>3. a * u = b * u + u + d * u
    BY <1>2
  <1>4. d * u \in Nat /\ a * u \in Int /\ b * u \in Int
    BY <1>2
  <1>5. QED BY <1>3, <1>4

(* The units of a chart cover its period, and reach no further back than its *)
(* first unit.                                                               *)
LEMMA UnitsCover ==
  ASSUME NEW x \in Nat, now \in Nat
  PROVE  /\ now - Period <= x /\ x <= now => Trunc(x) \in Units
         /\ Trunc(x) \in Units => Trunc(now) - Period <= x /\ x <= now + Unit
  <1> DEFINE q == x \div Unit
             a == now \div Unit
             p == Period \div Unit
  <1>1. /\ q \in Nat /\ Trunc(x) = q * Unit /\ Trunc(x) \in Nat /\ Trunc(x) <= x /\ x < Trunc(x) + Unit
        /\ a \in Nat /\ Trunc(now) = a * Unit /\ Trunc(now) \in Nat /\ Trunc(now) <= now
        /\ now < Trunc(now) + Unit
    BY TruncIs
  <1>2. p \in Nat /\ Period = p * Unit /\ Period \in Nat /\ Unit \in Nat \ {0}
    BY PeriodIs, FiguresAssumption
  <1>3. Units = {Trunc(now) - Period + k * Unit : k \in 0..p}
    BY DEF Units
  <1> HIDE DEF q, a, p
  <1>4. ASSUME now - Period <= x, x <= now
        PROVE  Trunc(x) \in Units
    <2>1. q * Unit < a * Unit + Unit
      BY <1>1, <1>2, <1>4
    <2>2. q <= a
      BY <1>1, <1>2, <2>1, Multiples
    <2>3. a * Unit < (q + p) * Unit + Unit
      <3>1. (q + p) * Unit = q * Unit + p * Unit
        BY <1>1, <1>2
      <3>2. QED BY <3>1, <1>1, <1>2, <1>4
    <2>4. a <= q + p
      BY <1>1, <1>2, <2>3, Multiples
    <2>5. q - a + p \in 0..p
      BY <1>1, <1>2, <2>2, <2>4
    <2>6. (q - a + p) * Unit = q * Unit - a * Unit + p * Unit
      BY <1>1, <1>2
    <2>7. Trunc(x) = Trunc(now) - Period + (q - a + p) * Unit
      BY <1>1, <1>2, <2>6
    <2>8. QED BY <1>3, <2>5, <2>7
  <1>5. ASSUME Trunc(x) \in Units
        PROVE  Trunc(now) - Period <= x /\ x <= now + Unit
    <2>1. PICK k \in 0..p : Trunc(x) = Trunc(now) - Period + k * Unit
      BY <1>3, <1>5
    <2>2. PICK d \in Nat : p = k + d
      <3>1. p - k \in Nat /\ p = k + (p - k)
        BY <1>2
      <3>2. QED BY <3>1
    <2>3. p * Unit = k * Unit + d * Unit
      BY <1>2, <2>2
    <2>4. k * Unit \in Nat /\ d * Unit \in Nat
      BY <1>2, <2>2
    <2>5. QED BY <1>1, <1>2, <2>1, <2>3, <2>4
  <1>6. QED BY <1>4, <1>5

LEMMA ChartTells ==
  ASSUME NEW m \in Moments, CopyOK, Precedes(m, Moment)
  PROVE  ChartOf(kind, m, [at |-> now, counts |-> Chart], Moment)
  <1> DEFINE In == {r \in Charted : Trunc(ChartTime(r)) \in Units}
             Key == [r \in In |-> Trunc(ChartTime(r))]
             Early == RowsIn(kind, m, now - Period, now)
             Late == RowsIn(kind, Moment, Trunc(now) - Period, now + Unit)
  <1>1. now \in Nat /\ txs \subseteq Txs /\ blocks \subseteq Blocks /\ IsFiniteSet(txs) /\ IsFiniteSet(blocks)
    BY TxsFinite, FS_Subset DEF CopyOK, Times
  <1>2. IsFiniteSet(Charted) /\ ChartedIn(kind, m) \subseteq Charted /\ ChartedIn(kind, Moment) = Charted
    BY <1>1 DEF Charted, ChartedIn, Precedes, Moment
  <1>3. ASSUME NEW r \in Charted
        PROVE  ChartTime(r) \in Nat /\ RowTime(kind, r) = ChartTime(r)
    <2>1. CASE kind = "txChart"
      <3>1. r \in Txs
        BY <2>1, <1>1 DEF Charted
      <3>2. QED BY <2>1, <3>1, CopyAssumption DEF ChartTime, RowTime, Times
    <2>2. CASE kind # "txChart"
      <3>1. r \in Blocks
        BY <2>2, <1>1 DEF Charted
      <3>2. QED BY <2>2, <3>1, BlockTimes DEF ChartTime, RowTime, Times
    <2>3. QED BY <2>1, <2>2
  <1>4. Total(Chart) = Cardinality(In)
    <2>1. IsFiniteSet(In)
      BY <1>2, FS_Subset
    <2>2. Key \in [In -> Units]
      OBVIOUS
    <2>3. ASSUME NEW u \in Units
          PROVE  /\ Chart[u] = Cardinality({r \in In : Key[r] = u})
                 /\ Chart[u] \in Nat
      <3>1. {r \in In : Key[r] = u} = {r \in Charted : Trunc(ChartTime(r)) = u}
        OBVIOUS
      <3>2. IsFiniteSet({r \in Charted : Trunc(ChartTime(r)) = u})
        BY <1>2, FS_Subset
      <3>3. Chart[u] = Cardinality({r \in Charted : Trunc(ChartTime(r)) = u})
        BY DEF Chart
      <3>4. QED BY <3>1, <3>2, <3>3, FS_CardinalityType
    <2>4. Chart \in [Units -> Nat]
      BY <2>3 DEF Chart
    <2> HIDE DEF In, Key
    <2>5. QED BY <2>1, <2>2, <2>3, <2>4, TotalOfParts
  <1>5. Early \subseteq In
    <2>1. SUFFICES ASSUME NEW r \in Early PROVE r \in In
      OBVIOUS
    <2>2. r \in Charted /\ now - Period <= ChartTime(r) /\ ChartTime(r) <= now
      BY <1>2, <1>3 DEF RowsIn, Within
    <2>3. Trunc(ChartTime(r)) \in Units
      BY <1>1, <1>3, <2>2, UnitsCover
    <2>4. QED BY <2>2, <2>3
  <1>6. In \subseteq Late
    <2>1. SUFFICES ASSUME NEW r \in In PROVE r \in Late
      OBVIOUS
    <2>2. Trunc(now) - Period <= ChartTime(r) /\ ChartTime(r) <= now + Unit
      BY <1>1, <1>3, UnitsCover
    <2>3. QED BY <2>2, <1>2, <1>3 DEF RowsIn, Within
  <1>7. IsFiniteSet(Late)
    BY <1>2, FS_Subset DEF RowsIn
  <1> HIDE DEF In, Early, Late
  <1>8. Counts(Early, Total(Chart), Late)
    BY <1>4, <1>5, <1>6, <1>7, CountsOwn
  <1>9. QED BY <1>8 DEF ChartOf, Counts, Early, Late

(* The blocks with fewer than n above them are all, or the n latest. *)
LEMMA LatestBlocks ==
  ASSUME NEW B \in SUBSET Blocks, NEW n \in Nat \ {0}
  PROVE  LET L == {c \in B : Cardinality({d \in B : d > c}) < n} IN
           \A b \in B \ L : Cardinality(L) = n /\ \A c \in L : c > b
  <1> DEFINE Above(c) == {d \in B : d > c}
             L == {c \in B : Cardinality(Above(c)) < n}
  <1>1. MaxBlock \in Nat /\ B \subseteq 0..MaxBlock /\ IsFiniteSet(B)
    BY TxsFinite, CopyAssumption, FS_Subset DEF Blocks
  <1>2. \A c \in B : c \in Nat
    BY <1>1
  <1>3. \A c : IsFiniteSet(Above(c)) /\ Cardinality(Above(c)) \in Nat
    BY <1>1, FS_Subset, FS_CardinalityType
  <1>4. ASSUME NEW b \in B \ L, NEW c \in L
        PROVE  c > b
    <2>1. SUFFICES ASSUME c <= b PROVE FALSE
      BY <1>2
    <2>2. Above(b) \subseteq Above(c)
      BY <1>2, <2>1
    <2>3. Cardinality(Above(b)) <= Cardinality(Above(c))
      BY <1>3, <2>2, Sizes
    <2>4. QED BY <1>3, <2>3
  <1>5. ASSUME NEW b \in B \ L
        PROVE  Cardinality(L) = n
    <2>1. IsFiniteSet(L) /\ Cardinality(L) \in Nat
      BY <1>1, FS_Subset, FS_CardinalityType
    <2>2. Cardinality(L) >= n
      <3>1. PICK y \in B \ L : \A z \in B \ L : z <= y
        BY <1>1, GreatestOf
      <3>2. Above(y) \subseteq L
        BY <1>2, <3>1
      <3>3. Cardinality(Above(y)) <= Cardinality(L)
        BY <2>1, <3>2, Sizes
      <3>4. Cardinality(Above(y)) >= n
        BY <1>3
      <3>5. Cardinality(Above(y)) \in Nat
        BY <1>3
      <3> HIDE DEF L, Above
      <3>6. QED BY <2>1, <3>3, <3>4, <3>5
    <2>3. Cardinality(L) <= n
      <3>1. L # {}
        <4> HIDE DEF L
        <4>1. L = {} => Cardinality(L) = 0
          BY FS_EmptySet
        <4>2. QED BY <4>1, <2>2
      <3>2. L \in SUBSET Nat
        BY <1>2
      <3>3. PICK x \in L : \A z \in L : x <= z
        BY <3>1, <3>2, LeastOf
      <3>4. L \subseteq Above(x) \cup {x}
        BY <1>2, <3>3
      <3>5. /\ IsFiniteSet(Above(x) \cup {x})
            /\ Cardinality(Above(x) \cup {x}) = Cardinality(Above(x)) + 1
        BY <1>2, <1>3, FS_AddElement
      <3>6. Cardinality(L) <= Cardinality(Above(x)) + 1
        BY <3>4, <3>5, Sizes, ZenonT(40)
      <3>7. Cardinality(Above(x)) \in Nat /\ Cardinality(Above(x)) < n
        BY <1>3
      <3> HIDE DEF L, Above
      <3>8. QED BY <2>1, <3>6, <3>7
    <2>4. QED BY <2>1, <2>2, <2>3
  <1>6. QED BY <1>4, <1>5

(* A block in the database has all its transactions. *)
LEMMA StoredWhole ==
  ASSUME CopyOK, NEW b \in blocks
  PROVE  Stored(b) = TxsOf(b) /\ FromDatabase(b) = FromLedger(b) /\ Stored(b) # {} /\ b \in Blocks
  <1>1. b \in Blocks /\ TxsOf(b) \subseteq txs /\ txs \subseteq Txs
    BY DEF CopyOK, WorldOK
  <1>2. Stored(b) = TxsOf(b)
    BY <1>1 DEF Stored, TxsOf
  <1>3. <<b, 1>> \in TxsOf(b)
    BY <1>1, TxsOfBlock DEF TxsOf
  <1>4. FromDatabase(b) = FromLedger(b)
    BY <1>1, <1>2, TxsOfBlock DEF FromDatabase, FromLedger
  <1>5. QED BY <1>1, <1>2, <1>3, <1>4

LEMMA ActivityTells ==
  ASSUME NEW m \in Moments, CopyOK, Precedes(m, Moment)
  PROVE  ActivityOf(m, Activity)
  <1> DEFINE L == {c \in blocks : Cardinality({d \in blocks : d > c}) < Latest}
             nums == {g.num : g \in Activity}
  <1>1. blocks \in SUBSET Blocks /\ Latest \in Nat \ {0} /\ m.blocks \subseteq blocks
    BY FiguresAssumption DEF CopyOK, Precedes, Moment
  <1>2. \A b \in blocks \ L : Cardinality(L) = Latest /\ \A c \in L : c > b
    BY <1>1, LatestBlocks
  <1>3. L \subseteq blocks /\ Activity = {FromDatabase(b) : b \in L}
    BY DEF Activity
  <1> HIDE DEF L
  <1>4. \A b \in L : FromDatabase(b) = FromLedger(b) /\ FromDatabase(b).num = b
    BY <1>3, StoredWhole DEF FromDatabase
  <1>5. \A g \in Activity : g = FromLedger(g.num)
    BY <1>3, <1>4
  <1>6. nums = L
    BY <1>3, <1>4
  <1>7. QED BY <1>1, <1>2, <1>5, <1>6 DEF ActivityOf

LEMMA BlocksBelowHeight == CopyOK => Cardinality(blocks) <= height /\ Cardinality(blocks) \in Nat
  <1> SUFFICES ASSUME CopyOK PROVE Cardinality(blocks) <= height /\ Cardinality(blocks) \in Nat
    OBVIOUS
  <1>1. MaxBlock \in Nat /\ height \in Nat
    BY CopyAssumption DEF CopyOK
  <1>2. blocks \subseteq 0..(height - 1)
    BY <1>1 DEF CopyOK, WorldOK, Blocks
  <1>3. IsFiniteSet(0..(height - 1)) /\ Cardinality(0..(height - 1)) = height
    <2>1. height - 1 \in Int /\ 0 \in Int
      BY <1>1
    <2>2. /\ IsFiniteSet(0..(height - 1))
          /\ Cardinality(0..(height - 1)) = IF 0 > height - 1 THEN 0 ELSE (height - 1) - 0 + 1
      BY <2>1, FS_Interval
    <2>3. QED BY <1>1, <2>2
  <1>4. QED BY <1>2, <1>3, Sizes

LEMMA ChannelTells ==
  ASSUME NEW m \in Moments, CopyOK, Precedes(m, Moment), blocks # {}
  PROVE  ChannelOf(m, [blocks |-> counter.blocks, age |-> Age], Moment)
  <1>1. /\ counter.blocks \in Nat /\ height \in Nat /\ now \in Nat
        /\ m.counter.blocks <= counter.blocks /\ counter.blocks <= Cardinality(blocks)
    BY CopyAssumption DEF CopyOK, WorldOK, Precedes, Moment, Times
  <1>2. counter.blocks <= height
    BY <1>1, BlocksBelowHeight
  <1>3. blocks \in SUBSET Blocks /\ m.blocks \subseteq blocks
    BY DEF CopyOK, Precedes, Moment
  <1>4. LatestTime(blocks) \in Nat
    BY <1>3, LatestTimeIs DEF Times
  <1>5. Age = IF now > LatestTime(blocks) THEN now - LatestTime(blocks) ELSE 0
    BY DEF Age
  <1>6. Age \in Nat
    BY <1>1, <1>4, <1>5
  <1>7. ASSUME m.blocks # {}, Age # 0
        PROVE  Age <= now - LatestTime(m.blocks)
    <2>1. m.blocks \in SUBSET Blocks
      BY <1>3
    <2>2. LatestTime(m.blocks) \in Nat
      BY <1>7, <2>1, LatestTimeIs DEF Times
    <2>3. PICK b \in m.blocks : BlockTime(b) = LatestTime(m.blocks)
      BY <1>7, <2>1, LatestTimeIs
    <2>4. BlockTime(b) <= LatestTime(blocks)
      BY <1>3, <2>3, LatestTimeIs
    <2>5. QED BY <1>1, <1>4, <1>5, <1>7, <2>2, <2>3, <2>4
  <1>8. QED BY <1>1, <1>2, <1>6, <1>7 DEF ChannelOf, Moment

(* What a statement returns is true of the moment it runs. *)
LEMMA ResultTells ==
  ASSUME NEW m \in Moments, CopyOK, Precedes(m, Moment), NEW s, NEW got,
         s = "channel" => blocks # {},
         s = "members" => RowsOf(m, got["senders"], Moment)
  PROVE  Tells(kind, s, m, Result(s, got), Moment)
  <1>1. /\ Whole(Moment) /\ Moment.txs = txs /\ Moment.blocks = blocks /\ Moment.nodes = nodes
        /\ Moment.counter = counter /\ Moment.height = height /\ Moment.lives = lives
    BY MomentWhole DEF Moment
  <1>2. /\ m.txs \subseteq txs /\ m.blocks \subseteq blocks /\ m.nodes \subseteq nodes /\ m.height <= height
        /\ m.counter.txs <= counter.txs /\ nodes \subseteq Nodes
        /\ IsFiniteSet(txs) /\ IsFiniteSet(blocks) /\ IsFiniteSet(nodes)
        /\ counter.txs \in Nat /\ height \in Nat /\ m.height \in Nat
    BY <1>1, WholeTypes DEF Precedes, Moments
  <1>3. CASE s = "txs"
    BY <1>1, <1>2, <1>3, CountsOwn DEF Result, Tells
  <1>4. CASE s = "blocks"
    BY <1>1, <1>2, <1>4, CountsOwn DEF Result, Tells
  <1>5. CASE s = "peers"
    <2>1. m.nodes \cap Peers \subseteq nodes \cap Peers /\ nodes \cap Peers \subseteq nodes
      BY <1>2
    <2>2. QED BY <1>1, <1>2, <1>5, <2>1, CountsOwn DEF Result, Tells
  <1>6. CASE s = "chaincode"
    BY <1>1, <1>2, <1>6 DEF Result, Tells, TxPerChaincode
  <1>7. CASE s = "senders"
    BY <1>7, SendersTell DEF Result, Tells
  <1>8. CASE s = "members"
    BY <1>8, MembersTell DEF Result, Tells
  <1>9. CASE s = "units"
    BY <1>9, ChartTells DEF Result, Tells
  <1>10. CASE s = "latest"
    BY <1>10, ActivityTells DEF Result, Tells
  <1>11. CASE s = "orderers"
    <2>1. \A n \in Orderers : n \in ActiveOrderers <=> lives[n] % 2 = 0
      BY DEF ActiveOrderers, Up
    <2>2. QED BY <1>1, <1>11, <2>1 DEF Result, Tells, StatusOf
  <1>12. CASE s = "discovery"
    <2>1. \A n \in Peers : n \in DiscoveredPeers <=> lives[n] % 2 = 0
      BY DEF DiscoveredPeers, Up
    <2>2. QED BY <1>1, <1>12, <2>1 DEF Result, Tells, StatusOf
  <1>13. CASE s = "rows"
    BY <1>2, <1>13 DEF Result, Tells, PeerData
  <1>14. CASE s = "channel"
    BY <1>14, ChannelTells DEF Result, Tells
  <1>15. CASE s = "height"
    BY <1>1, <1>2, <1>15 DEF Result, Tells, ChainInfo
  <1>16. QED
    BY <1>3, <1>4, <1>5, <1>6, <1>7, <1>8, <1>9, <1>10, <1>11, <1>12, <1>13, <1>14, <1>15 DEF Tells

-----------------------------------------------------------------------------
(* A request, and what the store keeps of the last answer. *)

Has(got, s) == s \in DOMAIN got

(* The answers that a request sent at moment m has by moment w. *)
AnswerOf(k, m, got, w) ==
  /\ m \in Moments /\ Precedes(m, w)
  /\ \A s \in DOMAIN got : Tells(k, s, m, got[s], w)
  /\ Has(got, "channel") /\ Has(got, "height") => got["channel"].blocks <= got["height"]
  /\ k \in Reports => DOMAIN got \subseteq {Statements[k][i] : i \in DOMAIN Statements[k]}
  /\ Has(got, "peers") => Has(got, "txs") /\ Has(got, "blocks")
  /\ Has(got, "rows") => Has(got, "orderers")

(* What a request of each kind has still to do, and has got already. *)
TodoOf(k, todo, got) ==
  /\ k = "status" =>
       \/ todo = <<"chaincodes", "txs", "blocks", "peers">> \/ todo = <<"txs", "blocks", "peers">>
       \/ todo = <<"blocks", "peers">> /\ Has(got, "txs")
       \/ todo = <<"peers">> /\ Has(got, "txs") /\ Has(got, "blocks")
  /\ k = "orgs" => todo = <<"senders", "members">> \/ (todo = <<"members">> /\ Has(got, "senders"))
  /\ k \in {"txChart", "blockChart"} => todo = <<"units">>
  /\ k = "activity" => todo = <<"latest">>
  /\ k = "nodes" =>
       \/ todo = <<"orderers", "rows", "discovery">>
       \/ todo = <<"rows", "discovery">> /\ Has(got, "orderers")
       \/ todo = <<"discovery">> /\ Has(got, "orderers")
  /\ k = "channels" =>
       \/ todo = <<"channel", "ends", "height">> /\ DOMAIN got = {}
       \/ todo = <<"ends", "height">> \/ todo = <<"height">>
  /\ k = "chaincodes" => todo = <<"chaincode">>

Fields == {"pc", "todo", "got", "asked", "sent"}
FiguresInv ==
  /\ DOMAIN report = Fields
  /\ report.pc \in {"idle", "db", "sent", "refused", "lost"} /\ report.sent \in 0..MaxReports
  /\ report.pc = "db" => kind \in Reports /\ TodoOf(kind, report.todo, report.got)
  /\ AnswerOf(kind, report.asked, report.got, Moment)
  /\ AnswerOf(kind, figure.asked, figure.got, Moment)

LEMMA AnswerStays ==
  ASSUME NEW k, NEW m, NEW got, NEW v, NEW w,
         Whole(v), Whole(w), Precedes(v, w), AnswerOf(k, m, got, v)
  PROVE  AnswerOf(k, m, got, w)
  <1>1. m \in Moments /\ Precedes(m, v) /\ v \in Moments /\ w \in Moments
    BY DEF AnswerOf, Whole
  <1>2. Precedes(m, w)
    BY <1>1, PrecedesAgain
  <1>3. \A s \in DOMAIN got : Tells(k, s, m, got[s], w)
    BY <1>1, TellsStays DEF AnswerOf
  <1>4. QED BY <1>1, <1>2, <1>3 DEF AnswerOf

LEMMA EmptyAnswer ==
  ASSUME NEW k, NEW m \in Moments, NEW w, Precedes(m, w)
  PROVE  AnswerOf(k, m, <<>>, w)
  <1>1. DOMAIN <<>> = {}
    OBVIOUS
  <1>2. QED BY <1>1 DEF AnswerOf, Has

LEMMA AnswerGrows ==
  ASSUME NEW k \in Reports, NEW m, NEW got, NEW w, NEW s, NEW x,
         AnswerOf(k, m, got, w), Tells(k, s, m, x, w),
         s \in {Statements[k][i] : i \in DOMAIN Statements[k]},
         s = "channel" => DOMAIN got = {},
         s = "height" /\ Has(got, "channel") => got["channel"].blocks <= x,
         s = "peers" => Has(got, "txs") /\ Has(got, "blocks"),
         s = "rows" => Has(got, "orderers")
  PROVE  AnswerOf(k, m, With(got, s, x), w)
  <1> DEFINE new == With(got, s, x)
  <1>1. DOMAIN new = DOMAIN got \cup {s} /\ new[s] = x /\ \A y \in DOMAIN got : y # s => new[y] = got[y]
    BY DEF With
  <1> HIDE DEF new
  <1>2. \A y \in DOMAIN new : Tells(k, y, m, new[y], w)
    BY <1>1 DEF AnswerOf
  <1>3. Has(new, "channel") /\ Has(new, "height") => new["channel"].blocks <= new["height"]
    <2>1. CASE s = "channel"
      BY <1>1, <2>1 DEF Has
    <2>2. CASE s = "height"
      BY <1>1, <2>2 DEF Has
    <2>3. CASE s \notin {"channel", "height"}
      BY <1>1, <2>3 DEF Has, AnswerOf
    <2>4. QED BY <2>1, <2>2, <2>3
  <1>4. DOMAIN new \subseteq {Statements[k][i] : i \in DOMAIN Statements[k]}
    BY <1>1 DEF AnswerOf
  <1>5. /\ Has(new, "peers") => Has(new, "txs") /\ Has(new, "blocks")
        /\ Has(new, "rows") => Has(new, "orderers")
    BY <1>1 DEF AnswerOf, Has
  <1>6. QED BY <1>2, <1>3, <1>4, <1>5 DEF AnswerOf, new

LEMMA Tuples ==
  /\ Head(<<"chaincodes", "txs", "blocks", "peers">>) = "chaincodes" /\ Tail(<<"chaincodes", "txs", "blocks", "peers">>) = <<"txs", "blocks", "peers">>
  /\ Head(<<"txs", "blocks", "peers">>) = "txs" /\ Tail(<<"txs", "blocks", "peers">>) = <<"blocks", "peers">>
  /\ Head(<<"blocks", "peers">>) = "blocks" /\ Tail(<<"blocks", "peers">>) = <<"peers">>
  /\ Head(<<"peers">>) = "peers" /\ Tail(<<"peers">>) = <<>>
  /\ Head(<<"senders", "members">>) = "senders" /\ Tail(<<"senders", "members">>) = <<"members">>
  /\ Head(<<"members">>) = "members" /\ Tail(<<"members">>) = <<>>
  /\ Head(<<"units">>) = "units" /\ Tail(<<"units">>) = <<>>
  /\ Head(<<"latest">>) = "latest" /\ Tail(<<"latest">>) = <<>>
  /\ Head(<<"orderers", "rows", "discovery">>) = "orderers" /\ Tail(<<"orderers", "rows", "discovery">>) = <<"rows", "discovery">>
  /\ Head(<<"rows", "discovery">>) = "rows" /\ Tail(<<"rows", "discovery">>) = <<"discovery">>
  /\ Head(<<"discovery">>) = "discovery" /\ Tail(<<"discovery">>) = <<>>
  /\ Head(<<"channel", "ends", "height">>) = "channel" /\ Tail(<<"channel", "ends", "height">>) = <<"ends", "height">>
  /\ Head(<<"ends", "height">>) = "ends" /\ Tail(<<"ends", "height">>) = <<"height">>
  /\ Head(<<"height">>) = "height" /\ Tail(<<"height">>) = <<>>
  /\ Head(<<"chaincode">>) = "chaincode" /\ Tail(<<"chaincode">>) = <<>>
  OBVIOUS

StatementsOf(k) == {Statements[k][i] : i \in DOMAIN Statements[k]}

LEMMA StatementsAre ==
  /\ StatementsOf("status") = {"chaincodes", "txs", "blocks", "peers"}
  /\ StatementsOf("orgs") = {"senders", "members"}
  /\ StatementsOf("txChart") = {"units"} /\ StatementsOf("blockChart") = {"units"}
  /\ StatementsOf("activity") = {"latest"}
  /\ StatementsOf("nodes") = {"orderers", "rows", "discovery"}
  /\ StatementsOf("channels") = {"channel", "ends", "height"}
  /\ StatementsOf("chaincodes") = {"chaincode"}
  <1> DEFINE All(t) == {t[i] : i \in DOMAIN t}
  <1>1. \A k : StatementsOf(k) = All(Statements[k])
    BY DEF StatementsOf
  <1>2. /\ All(<<"chaincodes", "txs", "blocks", "peers">>) = {"chaincodes", "txs", "blocks", "peers"}
        /\ All(<<"senders", "members">>) = {"senders", "members"}
        /\ All(<<"units">>) = {"units"}
        /\ All(<<"latest">>) = {"latest"}
        /\ All(<<"orderers", "rows", "discovery">>) = {"orderers", "rows", "discovery"}
        /\ All(<<"channel", "ends", "height">>) = {"channel", "ends", "height"}
        /\ All(<<"chaincode">>) = {"chaincode"}
    <2>1. All(<<"chaincodes", "txs", "blocks", "peers">>) = {"chaincodes", "txs", "blocks", "peers"}
      <3>1. DOMAIN <<"chaincodes", "txs", "blocks", "peers">> = {1, 2, 3, 4}
        OBVIOUS
      <3>2. QED BY <3>1
    <2>2. All(<<"senders", "members">>) = {"senders", "members"}
      <3>1. DOMAIN <<"senders", "members">> = {1, 2}
        OBVIOUS
      <3>2. QED BY <3>1
    <2>3. All(<<"units">>) = {"units"}
      <3>1. DOMAIN <<"units">> = {1}
        OBVIOUS
      <3>2. QED BY <3>1
    <2>4. All(<<"latest">>) = {"latest"}
      <3>1. DOMAIN <<"latest">> = {1}
        OBVIOUS
      <3>2. QED BY <3>1
    <2>5. All(<<"orderers", "rows", "discovery">>) = {"orderers", "rows", "discovery"}
      <3>1. DOMAIN <<"orderers", "rows", "discovery">> = {1, 2, 3}
        OBVIOUS
      <3>2. QED BY <3>1
    <2>6. All(<<"channel", "ends", "height">>) = {"channel", "ends", "height"}
      <3>1. DOMAIN <<"channel", "ends", "height">> = {1, 2, 3}
        OBVIOUS
      <3>2. QED BY <3>1
    <2>7. All(<<"chaincode">>) = {"chaincode"}
      <3>1. DOMAIN <<"chaincode">> = {1}
        OBVIOUS
      <3>2. QED BY <3>1
    <2> HIDE DEF All
    <2>8. QED BY <2>1, <2>2, <2>3, <2>4, <2>5, <2>6, <2>7
  <1>3. /\ Statements["status"] = <<"chaincodes", "txs", "blocks", "peers">>
        /\ Statements["orgs"] = <<"senders", "members">>
        /\ Statements["txChart"] = <<"units">> /\ Statements["blockChart"] = <<"units">>
        /\ Statements["activity"] = <<"latest">>
        /\ Statements["nodes"] = <<"orderers", "rows", "discovery">>
        /\ Statements["channels"] = <<"channel", "ends", "height">>
        /\ Statements["chaincodes"] = <<"chaincode">>
    BY DEF Statements
  <1> HIDE DEF All
  <1>4. QED BY <1>1, <1>2, <1>3

LEMMA ReportsAre ==
  Reports = {"status", "orgs", "txChart", "blockChart", "activity", "nodes", "channels", "chaincodes"}
  BY DEF Reports, Statements

(* The statement a request has come to, and what is left after it. *)
LEMMA TodoGoesOn ==
  ASSUME NEW k \in Reports, NEW todo, NEW got, TodoOf(k, todo, got)
  PROVE  LET s == Head(todo) IN
         /\ s \in StatementsOf(k)
         /\ s = "channel" => DOMAIN got = {}
         /\ s = "members" => Has(got, "senders")
         /\ s = "peers" => Has(got, "txs") /\ Has(got, "blocks")
         /\ s = "rows" => Has(got, "orderers")
         /\ \A new : DOMAIN got \cup {s} \subseteq DOMAIN new => Tail(todo) = <<>> \/ TodoOf(k, Tail(todo), new)
         /\ s \in {"discovery", "ends", "height"} => Tail(todo) = <<>> \/ TodoOf(k, Tail(todo), got)
  <1> DEFINE s == Head(todo)
  <1>1. CASE k = "status"
    <2>1. \/ s = "chaincodes" /\ Tail(todo) = <<"txs", "blocks", "peers">>
          \/ s = "txs" /\ Tail(todo) = <<"blocks", "peers">>
          \/ s = "blocks" /\ Tail(todo) = <<"peers">> /\ Has(got, "txs")
          \/ s = "peers" /\ Tail(todo) = <<>> /\ Has(got, "txs") /\ Has(got, "blocks")
      BY <1>1, Tuples DEF TodoOf
    <2> HIDE DEF s
    <2>2. QED BY <1>1, <2>1, StatementsAre DEF TodoOf, Has, s
  <1>2. CASE k = "orgs"
    <2>1. \/ s = "senders" /\ Tail(todo) = <<"members">>
          \/ s = "members" /\ Tail(todo) = <<>> /\ Has(got, "senders")
      BY <1>2, Tuples DEF TodoOf
    <2> HIDE DEF s
    <2>2. QED BY <1>2, <2>1, StatementsAre DEF TodoOf, Has, s
  <1>3. CASE k \in {"txChart", "blockChart"}
    <2>1. s = "units" /\ Tail(todo) = <<>>
      BY <1>3, Tuples DEF TodoOf
    <2> HIDE DEF s
    <2>2. QED BY <1>3, <2>1, StatementsAre DEF s
  <1>4. CASE k = "activity"
    <2>1. s = "latest" /\ Tail(todo) = <<>>
      BY <1>4, Tuples DEF TodoOf
    <2> HIDE DEF s
    <2>2. QED BY <1>4, <2>1, StatementsAre DEF s
  <1>5. CASE k = "nodes"
    <2>1. \/ s = "orderers" /\ Tail(todo) = <<"rows", "discovery">>
          \/ s = "rows" /\ Tail(todo) = <<"discovery">> /\ Has(got, "orderers")
          \/ s = "discovery" /\ Tail(todo) = <<>> /\ Has(got, "orderers")
      BY <1>5, Tuples DEF TodoOf
    <2> HIDE DEF s
    <2>2. QED BY <1>5, <2>1, StatementsAre DEF TodoOf, Has, s
  <1>6. CASE k = "channels"
    <2>1. \/ s = "channel" /\ Tail(todo) = <<"ends", "height">> /\ DOMAIN got = {}
          \/ s = "ends" /\ Tail(todo) = <<"height">>
          \/ s = "height" /\ Tail(todo) = <<>>
      BY <1>6, Tuples DEF TodoOf
    <2> HIDE DEF s
    <2>2. QED BY <1>6, <2>1, StatementsAre DEF TodoOf, Has, s
  <1>7. CASE k = "chaincodes"
    <2>1. s = "chaincode" /\ Tail(todo) = <<>>
      BY <1>7, Tuples DEF TodoOf
    <2> HIDE DEF s
    <2>2. QED BY <1>7, <2>1, StatementsAre DEF s
  <1>8. QED BY <1>1, <1>2, <1>3, <1>4, <1>5, <1>6, <1>7, ReportsAre

LEMMA AfterIs ==
  ASSUME NEW r, DOMAIN r = Fields, NEW got
  PROVE  LET a == After(r, got) IN
         /\ DOMAIN a = Fields /\ a.got = got /\ a.asked = r.asked /\ a.sent = r.sent
         /\ a.pc = IF Tail(r.todo) = <<>> THEN "sent" ELSE r.pc
         /\ a.todo = Tail(r.todo)
  BY DEF After, Ended, Fields

LEMMA EndedIs ==
  ASSUME NEW r, DOMAIN r = Fields
  PROVE  LET a == Ended(r) IN
         /\ DOMAIN a = Fields /\ a.got = r.got /\ a.asked = r.asked /\ a.sent = r.sent /\ a.pc = "sent"
  BY DEF Ended, Fields

LEMMA FiguresInitially == CopyOK /\ FiguresInit => FiguresInv
  <1> SUFFICES ASSUME CopyOK, FiguresInit PROVE FiguresInv
    OBVIOUS
  <1>1. Moment \in Moments /\ Precedes(Moment, Moment)
    BY MomentWhole, PrecedesItself DEF Whole
  <1>2. AnswerOf(kind, Moment, <<>>, Moment)
    BY <1>1, EmptyAnswer
  <1>3. MaxReports \in Nat
    BY FiguresAssumption
  <1>4. QED BY <1>2, <1>3 DEF FiguresInit, FiguresInv, Fields

(* The copy grows while a request is under way and while its answer is shown. *)
LEMMA FiguresOfGrowingCopy ==
  ASSUME CopyOK, CopyOK', kind' = kind, Precedes(Moment, Moment'), FiguresInv, UNCHANGED figures
  PROVE  FiguresInv'
  <1>1. Whole(Moment) /\ Whole(Moment)'
    BY MomentWhole, PTL
  <1>2. QED BY <1>1, AnswerStays DEF FiguresInv, figures

LEMMA FiguresStep ==
  ASSUME CopyOK, FiguresInv, Figures, UNCHANGED <<world, kind>>, kind \in Reports
  PROVE  FiguresInv' /\ Served
  <1> DEFINE s == Head(report.todo)
  <1>1. Moment' = Moment /\ kind' = kind
    BY DEF Moment, world
  <1>2. Whole(Moment) /\ Moment \in Moments /\ Precedes(Moment, Moment)
    BY MomentWhole, PrecedesItself DEF Whole
  <1>3. /\ DOMAIN report = Fields /\ MaxReports \in Nat /\ report.sent \in 0..MaxReports
        /\ AnswerOf(kind, report.asked, report.got, Moment) /\ AnswerOf(kind, figure.asked, figure.got, Moment)
        /\ report.pc = "db" => TodoOf(kind, report.todo, report.got)
    BY FiguresAssumption DEF FiguresInv
  <1>4. CASE AskReport
    <2>1. /\ DOMAIN report' = Fields /\ report'.pc = "db" /\ report'.todo = Statements[kind]
          /\ report'.got = <<>> /\ report'.asked = Moment /\ report'.sent = report.sent + 1
          /\ report.sent < MaxReports /\ figure' = figure /\ Served
      BY <1>4 DEF AskReport, Fields, Served
    <2>2. AnswerOf(kind, Moment, <<>>, Moment)
      BY <1>2, EmptyAnswer
    <2>3. TodoOf(kind, Statements[kind], <<>>)
      BY ReportsAre DEF TodoOf, Statements
    <2>4. report'.sent \in 0..MaxReports
      BY <1>3, <2>1
    <2>5. QED BY <1>1, <1>3, <2>1, <2>2, <2>3, <2>4 DEF FiguresInv
  <1>5. CASE QueryFigures
    <2>1. report.pc = "db" /\ figure' = figure /\ Served
      BY <1>5 DEF QueryFigures, Served
    <2>2. TodoOf(kind, report.todo, report.got)
      BY <1>3, <2>1
    <2>3. /\ s \in StatementsOf(kind)
          /\ s = "channel" => DOMAIN report.got = {}
          /\ s = "members" => Has(report.got, "senders")
          /\ s = "peers" => Has(report.got, "txs") /\ Has(report.got, "blocks")
          /\ s = "rows" => Has(report.got, "orderers")
          /\ \A new : DOMAIN report.got \cup {s} \subseteq DOMAIN new =>
               Tail(report.todo) = <<>> \/ TodoOf(kind, Tail(report.todo), new)
      BY <2>2, TodoGoesOn
    <2> HIDE DEF s
    <2>4. CASE s = "channel" /\ ~Listed
      <3>1. report' = Ended(report)
        BY <1>5, <2>4 DEF QueryFigures, s
      <3>2. /\ DOMAIN report' = Fields /\ report'.pc = "sent" /\ report'.got = report.got
            /\ report'.asked = report.asked /\ report'.sent = report.sent
        BY <1>3, <3>1, EndedIs
      <3>3. QED BY <1>1, <1>3, <2>1, <3>2 DEF FiguresInv
    <2>5. CASE ~(s = "channel" /\ ~Listed)
      <3> DEFINE x == Result(s, report.got)
                 new == With(report.got, s, x)
      <3>1. report' = After(report, new)
        BY <1>5, <2>5 DEF QueryFigures, s
      <3> HIDE DEF new
      <3>2. /\ DOMAIN report' = Fields /\ report'.got = new /\ report'.asked = report.asked
            /\ report'.sent = report.sent /\ report'.todo = Tail(report.todo)
            /\ report'.pc = IF Tail(report.todo) = <<>> THEN "sent" ELSE "db"
        BY <1>3, <2>1, <3>1, AfterIs
      <3>3. report.asked \in Moments /\ Precedes(report.asked, Moment)
        BY <1>3 DEF AnswerOf
      <3>4. s = "members" => RowsOf(report.asked, report.got["senders"], Moment)
        BY <1>3, <2>3 DEF AnswerOf, Has, Tells
      <3>5. s = "channel" => blocks # {}
        BY <2>5 DEF Listed
      <3>6. Tells(kind, s, report.asked, x, Moment)
        BY <3>3, <3>4, <3>5, ResultTells
      <3>7. s = "height" /\ Has(report.got, "channel") => report.got["channel"].blocks <= x
        <4>1. Has(report.got, "channel") => report.got["channel"].blocks <= height
          BY <1>3 DEF AnswerOf, Has, Tells, ChannelOf, Moment
        <4>2. s = "height" => x = height
          BY DEF Result, ChainInfo
        <4>3. QED BY <4>1, <4>2
      <3> HIDE DEF x
      <3>8. AnswerOf(kind, report.asked, new, Moment)
        BY <1>3, <2>3, <3>6, <3>7, AnswerGrows DEF new, StatementsOf
      <3>9. DOMAIN new = DOMAIN report.got \cup {s}
        BY DEF new, With
      <3>10. Tail(report.todo) # <<>> => TodoOf(kind, Tail(report.todo), new)
        BY <2>3, <3>9
      <3>11. QED BY <1>1, <1>3, <2>1, <3>2, <3>8, <3>10 DEF FiguresInv
    <2>6. QED BY <2>4, <2>5
  <1>6. CASE FiguresFail
    <2>1. /\ report.pc = "db" /\ figure' = figure /\ Served
          /\ s \notin DOMAIN Caught => report' = [report EXCEPT !.pc = "lost"]
          /\ s \in DOMAIN Caught /\ Caught[s] = "left out" => report' = After(report, report.got)
          /\ s \in DOMAIN Caught /\ Caught[s] = "none" => report' = [Ended(report) EXCEPT !.got = <<>>]
          /\ s \in DOMAIN Caught /\ Caught[s] = "error" => report' = [Ended(report) EXCEPT !.pc = "refused"]
      BY <1>6 DEF FiguresFail, Served
    <2>2. TodoOf(kind, report.todo, report.got)
      BY <1>3, <2>1
    <2>3. s \in {"discovery", "ends", "height"} =>
            Tail(report.todo) = <<>> \/ TodoOf(kind, Tail(report.todo), report.got)
      BY <2>2, TodoGoesOn
    <2> HIDE DEF s
    <2>4. s \in DOMAIN Caught => /\ Caught[s] \in {"none", "error", "left out"}
                                 /\ Caught[s] = "left out" => s \in {"discovery", "ends", "height"}
      <3>1. DOMAIN Caught = {"chaincodes", "txs", "blocks", "peers", "chaincode", "channel",
                             "discovery", "ends", "height"}
        BY DEF Caught
      <3>2. /\ Caught["chaincodes"] = "none" /\ Caught["txs"] = "none" /\ Caught["blocks"] = "none"
            /\ Caught["peers"] = "none" /\ Caught["chaincode"] = "none" /\ Caught["channel"] = "error"
            /\ Caught["discovery"] = "left out" /\ Caught["ends"] = "left out"
            /\ Caught["height"] = "left out"
        BY DEF Caught
      <3>3. QED BY <3>1, <3>2
    <2>5. CASE s \notin DOMAIN Caught
      <3>1. /\ DOMAIN report' = Fields /\ report'.pc = "lost" /\ report'.got = report.got
            /\ report'.asked = report.asked /\ report'.sent = report.sent
        BY <1>3, <2>1, <2>5 DEF Fields
      <3>2. QED BY <1>1, <1>3, <2>1, <3>1 DEF FiguresInv
    <2>6. CASE s \in DOMAIN Caught /\ Caught[s] = "left out"
      <3> DEFINE old == report.got
      <3>1. report' = After(report, old)
        BY <2>1, <2>6
      <3> HIDE DEF old
      <3>2. /\ DOMAIN report' = Fields /\ report'.got = old /\ report'.asked = report.asked
            /\ report'.sent = report.sent /\ report'.todo = Tail(report.todo)
            /\ report'.pc = IF Tail(report.todo) = <<>> THEN "sent" ELSE "db"
        <4>1. report.pc = "db" /\ DOMAIN report = Fields
          BY <1>3, <2>1
        <4>2. QED BY <3>1, <4>1, AfterIs
      <3> USE DEF old
      <3>3. QED BY <1>1, <1>3, <2>1, <2>3, <2>4, <2>6, <3>2 DEF FiguresInv
    <2>7. CASE s \in DOMAIN Caught /\ Caught[s] = "none"
      <3>1. /\ DOMAIN report' = Fields /\ report'.pc = "sent" /\ report'.got = <<>>
            /\ report'.asked = report.asked /\ report'.sent = report.sent
        BY <1>3, <2>1, <2>7, EndedIs DEF Fields
      <3>2. report.asked \in Moments /\ Precedes(report.asked, Moment)
        BY <1>3 DEF AnswerOf
      <3>3. AnswerOf(kind, report.asked, <<>>, Moment)
        BY <3>2, EmptyAnswer
      <3>4. QED BY <1>1, <1>3, <2>1, <3>1, <3>3 DEF FiguresInv
    <2>8. CASE s \in DOMAIN Caught /\ Caught[s] = "error"
      <3>1. /\ DOMAIN report' = Fields /\ report'.pc = "refused" /\ report'.got = report.got
            /\ report'.asked = report.asked /\ report'.sent = report.sent
        BY <1>3, <2>1, <2>8, EndedIs DEF Fields
      <3>2. QED BY <1>1, <1>3, <2>1, <3>1 DEF FiguresInv
    <2>9. QED BY <2>4, <2>5, <2>6, <2>7, <2>8
  <1>7. CASE DeliverFigures
    <2>1. /\ DOMAIN report' = Fields /\ report'.pc = "idle" /\ report'.got = report.got
          /\ report'.asked = report.asked /\ report'.sent = report.sent /\ Served
          /\ \/ figure' = figure
             \/ figure' = [got |-> report.got, asked |-> report.asked]
      BY <1>3, <1>7 DEF DeliverFigures, Served, Fields
    <2>2. AnswerOf(kind, figure'.asked, figure'.got, Moment)
      BY <1>3, <2>1
    <2>3. QED BY <1>1, <1>3, <2>1, <2>2 DEF FiguresInv
  <1>8. CASE LoseFigures
    <2>1. /\ DOMAIN report' = Fields /\ report'.pc = "idle" /\ report'.got = report.got
          /\ report'.asked = report.asked /\ report'.sent = report.sent /\ figure' = figure /\ Served
      BY <1>3, <1>8 DEF LoseFigures, Served, Fields
    <2>2. QED BY <1>1, <1>3, <2>1 DEF FiguresInv
  <1>9. QED BY <1>4, <1>5, <1>6, <1>7, <1>8 DEF Figures

-----------------------------------------------------------------------------
(* What the invariant says of the figures shown. *)

LEMMA FiguresTypes == FiguresInv => FiguresOK
  <1> SUFFICES ASSUME FiguresInv PROVE FiguresOK
    OBVIOUS
  <1>1. report.pc = "db" => report.todo # <<>>
    <2>1. SUFFICES ASSUME report.pc = "db" PROVE report.todo # <<>>
      OBVIOUS
    <2>2. kind \in Reports /\ TodoOf(kind, report.todo, report.got)
      BY <2>1 DEF FiguresInv
    <2>3. QED BY <2>2, ReportsAre DEF TodoOf
  <1>2. kind \in Reports => DOMAIN figure.got \subseteq {Statements[kind][i] : i \in DOMAIN Statements[kind]}
    BY DEF FiguresInv, AnswerOf
  <1>3. QED BY <1>1, <1>2 DEF FiguresInv, FiguresOK

LEMMA FiguresAreTrue ==
  ASSUME CopyOK, FiguresInv
  PROVE  FiguresAreCurrent
  <1> DEFINE m == figure.asked
             got == figure.got
  <1>1. m \in Moments /\ Precedes(m, Moment) /\ \A s \in DOMAIN got : Tells(kind, s, m, got[s], Moment)
    BY DEF FiguresInv, AnswerOf
  <1>2. /\ Moment.txs = txs /\ Moment.blocks = blocks /\ Moment.nodes = nodes /\ Moment.counter = counter
        /\ Moment.height = height /\ Moment.lives = lives /\ Moment.now = now
    BY DEF Moment
  <1>3. /\ Has(got, "channel") /\ Has(got, "height") => got["channel"].blocks <= got["height"]
        /\ Has(got, "peers") => Has(got, "txs") /\ Has(got, "blocks")
        /\ Has(got, "rows") => Has(got, "orderers")
    BY DEF FiguresInv, AnswerOf
  <1>4. StatusIsCurrent
    BY <1>1, <1>2, <1>3 DEF StatusIsCurrent, Shows, Shown, Has, Tells, Counts
  <1>5. ChaincodeIsCurrent
    <2>1. counter.txs \in Nat /\ counter.txs <= Cardinality(txs \cap Invocations)
      BY DEF CopyOK, WorldOK
    <2>2. Cardinality(txs \cap Invocations) \in Nat
      BY TxsFinite, FS_Subset, FS_CardinalityType DEF CopyOK
    <2>3. QED BY <1>1, <1>2, <2>1, <2>2 DEF ChaincodeIsCurrent, Shows, Shown, Tells
  <1>6. OrgsAreCurrent
    <2>1. SUFFICES ASSUME kind = "orgs", Has(got, "members")
                   PROVE  LET rows == got["members"] IN
                          /\ \A g, h \in rows : g[1] = h[1] => g = h
                          /\ \A o \in {OrgOf[n] : n \in m.nodes} \cup {Creator[t] : t \in m.txs} :
                               o # NoOrg => \E g \in rows :
                                 g[1] = o /\ Between({t \in m.txs : Creator[t] = o}, g[2], CreatedBy(o))
      BY DEF OrgsAreCurrent, Shows, Shown, Has
    <2>2. /\ RowsOf(m, got["members"], Moment)
          /\ \A n \in m.nodes : \E g \in got["members"] : g[1] = OrgOf[n]
      BY <1>1, <2>1 DEF Tells, Has
    <2>3. ASSUME NEW g \in got["members"]
          PROVE  Between({t \in m.txs : Creator[t] = g[1]}, g[2], CreatedBy(g[1]))
      BY <1>2, <2>2 DEF RowsOf, Counts, Sent, CreatedBy
    <2>4. ASSUME NEW o \in {OrgOf[n] : n \in m.nodes} \cup {Creator[t] : t \in m.txs}, o # NoOrg
          PROVE  \E g \in got["members"] : g[1] = o
      BY <2>2, <2>4 DEF RowsOf
    <2>5. QED BY <2>2, <2>3, <2>4 DEF RowsOf
  <1>7. ChartIsCurrent
    <2>1. SUFFICES ASSUME NEW k \in {"txChart", "blockChart"}, Shows(k, "units")
                   PROVE  LET at == got["units"].at
                              asked == IF k = "txChart" THEN m.txs ELSE m.blocks
                          IN Between({r \in asked : Within(ChartTime(r), [from |-> at - Period, to |-> at])},
                                     Total(got["units"].counts),
                                     {r \in Charted : Within(ChartTime(r), [from |-> Trunc(at) - Period, to |-> at + Unit])})
      BY DEF ChartIsCurrent, Shown
    <2>2. kind = k /\ ChartOf(kind, m, got["units"], Moment)
      BY <1>1, <2>1 DEF Shows, Tells
    <2>3. \A r : RowTime(kind, r) = ChartTime(r)
      BY DEF RowTime, ChartTime
    <2>4. ChartedIn(kind, Moment) = Charted /\ ChartedIn(kind, m) = IF k = "txChart" THEN m.txs ELSE m.blocks
      BY <1>2, <2>2 DEF ChartedIn, Charted
    <2>5. QED BY <2>2, <2>3, <2>4 DEF ChartOf, RowsIn
  <1>8. ActivityIsCurrent
    BY <1>1 DEF ActivityIsCurrent, Shows, Shown, Tells, ActivityOf
  <1>9. NodesAreCurrent
    <2>1. SUFFICES ASSUME kind = "nodes", Has(got, "rows")
                   PROVE  /\ m.nodes \subseteq got["rows"]
                          /\ \A n \in InPeerList(got) :
                               Moved(n) \/ Status(got, n) \in {"", IF Up(n) THEN "UP" ELSE "DOWN"}
                          /\ \A n \in got["rows"] \ InPeerList(got) :
                               \A p \in Peers : OrgOf[p] = OrgOf[n] => Moved(p) \/ ~Up(p)
      BY DEF NodesAreCurrent, Shows, Has
    <2>2. /\ m.nodes \subseteq got["rows"] /\ got["rows"] \subseteq Nodes
          /\ StatusOf(Orderers, m, got["orderers"], Moment)
          /\ Discovered(got) => StatusOf(Peers, m, got["discovery"], Moment)
      BY <1>1, <1>3, <2>1 DEF Tells, Has, Discovered
    <2>3. \A n \in Orderers : Moved(n) \/ (n \in got["orderers"] <=> Up(n))
      BY <1>2, <2>2 DEF StatusOf, Moved, Up
    <2>4. Discovered(got) => \A n \in Peers : Moved(n) \/ (n \in got["discovery"] <=> Up(n))
      BY <1>2, <2>2 DEF StatusOf, Moved, Up
    <2>5. ASSUME NEW n \in InPeerList(got)
          PROVE  Moved(n) \/ Status(got, n) \in {"", IF Up(n) THEN "UP" ELSE "DOWN"}
      <3>1. n \in Orderers \/ n \in Peers
        BY <2>2 DEF InPeerList, Peers
      <3>2. QED BY <2>3, <2>4, <3>1 DEF Status, Peers
    <2>6. ASSUME NEW n \in got["rows"] \ InPeerList(got), NEW p \in Peers, OrgOf[p] = OrgOf[n]
          PROVE  Moved(p) \/ ~Up(p)
      BY <2>4, <2>6 DEF InPeerList
    <2>7. QED BY <2>2, <2>5, <2>6
  <1>10. ChannelsAreCurrent
    BY <1>1, <1>2, <1>3 DEF ChannelsAreCurrent, Shows, Shown, Has, Tells, ChannelOf
  <1>11. QED
    BY <1>4, <1>5, <1>6, <1>7, <1>8, <1>9, <1>10 DEF FiguresAreCurrent
===============================================================================

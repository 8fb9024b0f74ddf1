---------------------------- MODULE TxPoolProofs ----------------------------
(***************************************************************************)
(* The transaction pool, the propagation over it and the proposing node    *)
(* that uses it, for any capacity and any number of threads, transactions, *)
(* peers and blocks: how far concurrent inserts push the pool over its     *)
(* capacity, that no entry of the map is orphaned, that what can be packed *)
(* is announced and sent to every peer, that the pool has a second copy    *)
(* only of what is committed, and that nothing is committed twice.         *)
(*                                                                         *)
(* The first invariant counts, besides the entries of the map, the         *)
(* inserters that have passed check_capacity and not yet written the map.  *)
(* Those of the pool and the propagation are inductive once they say where *)
(* an entry is between two steps of its inserter.  Those of the node say   *)
(* what each stage of remove and of prepare_block has established.         *)
(***************************************************************************)
EXTENDS Propagation, PoaNode, FiniteLemmas

CountInv == Cardinality(map) + Cardinality(Admitted) < Capacity + Cardinality(Inserters)

(* The part of the pool's state that the count depends on. *)
Inv ==
  /\ map \in SUBSET Txs
  /\ at \in [Threads -> InsertLabels \cup RemoveLabels]
  /\ arg \in [Inserters -> Txs]
  /\ CountInv

countVars == <<map, at, arg>>

(* The map and every set of inserters are finite. *)
LEMMA Finite ==
  ASSUME map \in SUBSET Txs
  PROVE  /\ IsFiniteSet(map) /\ Cardinality(map) \in Nat
         /\ IsFiniteSet(Inserters) /\ Cardinality(Inserters) \in Nat
         /\ \A S \in SUBSET Inserters :
              /\ IsFiniteSet(S) /\ Cardinality(S) \in Nat
              /\ Cardinality(S) <= Cardinality(Inserters)
         /\ Capacity \in Nat
BY TxPoolAssumption, FS_Subset, FS_CardinalityType

(* A thread that is not at "exist", "validate" or "insert" is not counted. *)
LEMMA InitInv == Init => Inv
<1> SUFFICES ASSUME Init PROVE Inv
  OBVIOUS
<1>1. map = {} /\ Admitted = {}
  BY DEF Init, Admitted, Threads
<1>2. Cardinality(Inserters) > 0
  BY TxPoolAssumption, FS_EmptySet, FS_CardinalityType
<1>3. CountInv
  BY <1>1, <1>2, FS_EmptySet, TxPoolAssumption, FS_CardinalityType DEF CountInv
<1> QED
  BY <1>3 DEF Init, Inv, InsertLabels, RemoveLabels

(* Every step keeps the count: check_capacity admits an inserter only to a *)
(* pool below its capacity, and map.insert turns an admitted inserter into *)
(* at most one entry.                                                      *)
LEMMA StepInv == Inv /\ [Next]_poolVars => Inv'
<1> SUFFICES ASSUME Inv, [Next]_poolVars PROVE Inv'
  OBVIOUS
<1> USE DEF InsertLabels, RemoveLabels, Goto
<1>0. /\ map \in SUBSET Txs
      /\ at \in [Threads -> InsertLabels \cup RemoveLabels]
      /\ arg \in [Inserters -> Txs]
      /\ CountInv
      /\ Inserters \subseteq Threads /\ Removers \subseteq Threads
      /\ \A r \in Removers : r \notin Inserters
      /\ Admitted \in SUBSET Inserters
  BY TxPoolAssumption DEF Inv, Threads, Admitted
<1>f. /\ IsFiniteSet(map) /\ Cardinality(map) \in Nat /\ Cardinality(Inserters) \in Nat
      /\ IsFiniteSet(Admitted) /\ Cardinality(Admitted) \in Nat /\ Capacity \in Nat
  BY <1>0, Finite
(* Steps that admit nobody and add nothing to the map. *)
<1>1. ASSUME map' \subseteq map, Admitted' \subseteq Admitted,
             at' \in [Threads -> InsertLabels \cup RemoveLabels], arg' \in [Inserters -> Txs]
      PROVE  Inv'
  <2>1. /\ Cardinality(map') <= Cardinality(map) /\ Cardinality(map') \in Nat
        /\ Cardinality(Admitted') <= Cardinality(Admitted) /\ Cardinality(Admitted') \in Nat
    BY <1>f, <1>1, FS_Subset, FS_CardinalityType
  <2> QED
    BY <1>0, <1>f, <1>1, <2>1 DEF Inv, CountInv
<1>2. ASSUME NEW i \in Inserters, NEW tx \in Txs, CheckCapacity(i, tx) PROVE Inv'
  <2>1. /\ map' = map /\ Cardinality(map) < Capacity
        /\ at' \in [Threads -> InsertLabels \cup RemoveLabels] /\ arg' \in [Inserters -> Txs]
    BY <1>0, <1>2 DEF CheckCapacity, HasRoom
  <2>2. /\ Cardinality(Admitted') <= Cardinality(Inserters)
        /\ Cardinality(Admitted') \in Nat
    <3>1. Admitted' \in SUBSET Inserters
      BY DEF Admitted
    <3> QED
      BY <1>0, <3>1, Finite
  <2> QED
    BY <1>0, <1>f, <2>1, <2>2 DEF Inv, CountInv
<1>3. ASSUME NEW i \in Inserters, MapInsert(i) PROVE Inv'
  <2>1. /\ i \in Admitted /\ Admitted' = Admitted \ {i}
        /\ map' = map \cup {arg[i]} /\ arg[i] \in Txs
        /\ at' \in [Threads -> InsertLabels \cup RemoveLabels] /\ arg' \in [Inserters -> Txs]
    <3>1. PICK l \in {"send", "idle"} : at' = [at EXCEPT ![i] = l]
      BY <1>3 DEF MapInsert
    <3>2. at[i] = "insert" /\ map' = map \cup {arg[i]} /\ arg' = arg
      BY <1>3 DEF MapInsert
    <3>3. Admitted' = Admitted \ {i}
      BY <1>0, <3>1 DEF Admitted
    <3> QED
      BY <1>0, <3>1, <3>2, <3>3 DEF Admitted
  <2>2. Cardinality(map') <= Cardinality(map) + 1 /\ Cardinality(map') \in Nat
    <3>1. Cardinality(map \cup {arg[i]})
            = IF arg[i] \in map THEN Cardinality(map) ELSE Cardinality(map) + 1
      BY <1>f, FS_AddElement
    <3> QED
      BY <1>f, <2>1, <3>1
  <2>3. Cardinality(Admitted') = Cardinality(Admitted) - 1
    BY <1>f, <2>1, FS_RemoveElement
  <2> QED
    BY <1>0, <1>f, <2>1, <2>2, <2>3 DEF Inv, CountInv
<1>4. ASSUME NEW i \in Inserters,
             CheckPoolExist(i) \/ (\E valid \in BOOLEAN : ValidateTransaction(i, valid))
             \/ SendToBuffer(i) \/ OnTxInserted(i)
      PROVE  Inv'
  BY <1>0, <1>1, <1>4
  DEF CheckPoolExist, ValidateTransaction, SendToBuffer, AnnounceAfterSend, OnTxInserted, Admitted
<1>5. CASE MoveToQueue \/ UNCHANGED poolVars
  BY <1>0, <1>1, <1>5 DEF MoveToQueue, poolVars, Admitted
<1>6. ASSUME NEW r \in Removers, RemoveStep(r) \/ (\E txs \in SUBSET Txs : CallRemove(r, txs))
      PROVE  Inv'
  BY <1>0, <1>1, <1>6 DEF RemoveStep, RetainQueue, RetainMap, CallRemove, Admitted
<1> QED
  BY <1>2, <1>3, <1>4, <1>5, <1>6 DEF Next, InsertStep

(* n threads that insert at once overshoot pool_capacity by at most n - 1: *)
(* check_capacity and map.insert are not atomic, but the excess is bounded *)
(* by the threads between them.                                            *)
THEOREM OvershootBounded == Spec => []CapacityOvershoot
<1>1. Inv => CapacityOvershoot
  <2> SUFFICES ASSUME Inv PROVE CapacityOvershoot
    OBVIOUS
  <2>1. Admitted \in SUBSET Inserters
    BY DEF Admitted
  <2> QED
    BY <2>1, Finite DEF Inv, CountInv, CapacityOvershoot
<1> QED
  BY <1>1, InitInv, StepInv, PTL DEF Spec

-----------------------------------------------------------------------------
(* kept is the function that Retained computes. *)
IsKept(kept, n, q, txs) ==
  kept = [k \in 0 .. n |-> IF k = 0 THEN << >>
                           ELSE IF q[k] \in txs THEN kept[k - 1]
                           ELSE Append(kept[k - 1], q[k])]

(* It exists for every queue. *)
LEMMA KeptExists ==
  ASSUME NEW A, NEW q \in Seq(A), NEW txs
  PROVE  \E kept : IsKept(kept, Len(q), q, txs)
<1> DEFINE T == {n \in 0 .. Len(q) : ~ \E kept : IsKept(kept, n, q, txs)}
<1> SUFFICES ASSUME T # {} PROVE FALSE
  <2>1. Len(q) \in 0 .. Len(q)
    OBVIOUS
  <2> QED
    BY <2>1
<1>1. T \in SUBSET Nat
  OBVIOUS
<1>2. PICK n \in T : \A m \in T : n <= m
  <2> HIDE DEF T
  <2> QED
    BY <1>1, LeastNatural
<1>3. n # 0
  <2>1. ASSUME n = 0 PROVE IsKept([k \in 0 .. 0 |-> << >>], n, q, txs)
    BY <2>1 DEF IsKept
  <2> QED
    BY <1>2, <2>1
<1>4. n \in Nat /\ n - 1 \in 0 .. Len(q) /\ n - 1 \notin T
  BY <1>2, <1>3
<1>5. PICK f : IsKept(f, n - 1, q, txs)
  BY <1>4
<1> DEFINE g == [k \in 0 .. n |-> IF k = n
                                  THEN IF q[n] \in txs THEN f[n - 1] ELSE Append(f[n - 1], q[n])
                                  ELSE f[k]]
<1>6. ASSUME NEW k \in 0 .. n
      PROVE  g[k] = IF k = 0 THEN << >>
                    ELSE IF q[k] \in txs THEN g[k - 1] ELSE Append(g[k - 1], q[k])
  <2>1. CASE k = n
    BY <1>3, <1>4, <2>1
  <2>2. CASE k # n
    <3>1. k \in 0 .. n - 1 /\ (k # 0 => k - 1 \in 0 .. n /\ k - 1 # n)
      BY <1>4, <2>2
    <3>2. f[k] = IF k = 0 THEN << >>
                 ELSE IF q[k] \in txs THEN f[k - 1] ELSE Append(f[k - 1], q[k])
      BY <1>5, <3>1 DEF IsKept
    <3> QED
      BY <2>2, <3>1, <3>2
  <2> QED
    BY <2>1, <2>2
<1>7. g = [k \in 0 .. n |-> g[k]]
  OBVIOUS
<1>8. IsKept(g, n, q, txs)
  <2> HIDE DEF g
  <2> QED
    BY <1>6, <1>7 DEF IsKept
<1> QED
  <2> HIDE DEF g
  <2> QED
    BY <1>2, <1>8

LEMMA ElementsAppend ==
  ASSUME NEW A, NEW s \in Seq(A), NEW x \in A
  PROVE  Append(s, x) \in Seq(A) /\ Elements(Append(s, x)) = Elements(s) \cup {x}
<1>1. /\ Append(s, x) \in Seq(A) /\ Len(Append(s, x)) = Len(s) + 1 /\ Len(s) \in Nat
      /\ Append(s, x)[Len(s) + 1] = x
      /\ \A i \in 1 .. Len(s) : Append(s, x)[i] = s[i]
  OBVIOUS
<1>2. 1 .. (Len(s) + 1) = (1 .. Len(s)) \cup {Len(s) + 1}
  BY <1>1
<1> QED
  BY <1>1, <1>2 DEF Elements

LEMMA ElementsTail ==
  ASSUME NEW A, NEW s \in Seq(A), s # << >>
  PROVE  /\ Head(s) \in A /\ Tail(s) \in Seq(A)
         /\ Elements(s) = Elements(Tail(s)) \cup {Head(s)}
<1>1. /\ Head(s) \in A /\ Tail(s) \in Seq(A) /\ Head(s) = s[1]
      /\ Len(s) \in Nat /\ Len(s) > 0 /\ Len(Tail(s)) = Len(s) - 1
      /\ \A i \in 1 .. (Len(s) - 1) : Tail(s)[i] = s[i + 1]
  OBVIOUS
<1>2. \A i \in 1 .. Len(s) : i = 1 \/ i - 1 \in 1 .. (Len(s) - 1)
  BY <1>1
<1> QED
  BY <1>1, <1>2 DEF Elements

(* queue.retain leaves the elements that are not to go, and no other.      *)
LEMMA RetainedElements ==
  ASSUME NEW A, NEW q \in Seq(A), NEW txs
  PROVE  /\ Retained(q, txs) \in Seq(A)
         /\ Elements(Retained(q, txs)) = Elements(q) \ txs
<1> DEFINE kept == CHOOSE kept : IsKept(kept, Len(q), q, txs)
<1>1. IsKept(kept, Len(q), q, txs)
  BY KeptExists
<1>2. Retained(q, txs) = kept[Len(q)]
  BY DEF Retained, IsKept
<1> HIDE DEF kept
<1> DEFINE Good(n) == /\ kept[n] \in Seq(A)
                      /\ Elements(kept[n]) = {q[k] : k \in 1 .. n} \ txs
           T == {n \in 0 .. Len(q) : ~ Good(n)}
<1> SUFFICES ASSUME T # {} PROVE FALSE
  <2>1. Len(q) \in 0 .. Len(q)
    OBVIOUS
  <2> QED
    BY <1>2, <2>1 DEF Elements
<1>3. T \in SUBSET Nat
  OBVIOUS
<1>4. PICK n \in T : \A m \in T : n <= m
  <2> HIDE DEF T
  <2> QED
    BY <1>3, LeastNatural
<1>5. kept[n] = IF n = 0 THEN << >>
                ELSE IF q[n] \in txs THEN kept[n - 1] ELSE Append(kept[n - 1], q[n])
  BY <1>1, <1>4 DEF IsKept
<1>6. n # 0
  <2>1. ASSUME n = 0 PROVE Good(0)
    <3>1. kept[0] = << >> /\ 1 .. 0 = {} /\ << >> \in Seq(A) /\ Len(<< >>) = 0
      BY <1>5, <2>1
    <3>2. Elements(<< >>) = {}
      BY <3>1 DEF Elements
    <3> QED
      BY <3>1, <3>2
  <2> HIDE DEF Good
  <2> QED
    BY <1>4, <2>1
<1>7. n \in 1 .. Len(q) /\ n - 1 \in 0 .. Len(q) /\ n - 1 \notin T
  <2> HIDE DEF Good
  <2>1. n \in 1 .. Len(q) /\ n - 1 \in 0 .. Len(q)
    BY <1>4, <1>6
  <2> HIDE DEF T
  <2> QED
    BY <1>4, <2>1
<1>8. Good(n - 1) /\ q[n] \in A
  BY <1>7
<1>9. {q[k] : k \in 1 .. n} = {q[k] : k \in 1 .. (n - 1)} \cup {q[n]}
  BY <1>7
<1>10. Good(n)
  <2>1. CASE q[n] \in txs
    BY <1>5, <1>6, <1>8, <1>9, <2>1
  <2>2. CASE q[n] \notin txs
    <3>1. Elements(Append(kept[n - 1], q[n])) = Elements(kept[n - 1]) \cup {q[n]}
      BY <1>8, ElementsAppend
    <3> QED
      BY <1>5, <1>6, <1>8, <1>9, <2>2, <3>1
  <2> QED
    BY <2>1, <2>2
<1> QED
  BY <1>4, <1>10

-----------------------------------------------------------------------------
(* The types that the next invariants need. *)
PoolTypes ==
  /\ map \in SUBSET Txs
  /\ queue \in Seq(Txs)
  /\ buffer \in Seq(Txs)
  /\ at \in [Threads -> InsertLabels \cup RemoveLabels]
  /\ arg \in [Inserters -> Txs]
  /\ removing \in [Removers -> SUBSET Txs]

PoolInv ==
  /\ PoolTypes
  /\ NoOrphanInMap
  /\ EveryTxAnnounced

LEMMA InitPool == Init => PoolInv
<1> SUFFICES ASSUME Init PROVE PoolInv
  OBVIOUS
<1>1. Elements(<< >>) = {}
  BY DEF Elements
<1> QED
  BY <1>1 DEF Init, PoolInv, PoolTypes, NoOrphanInMap, EveryTxAnnounced, InsertLabels, RemoveLabels

(* What a step leaves of a thread that it is not a step of. *)
LEMMA OthersStay ==
  ASSUME PoolTypes, NEW t \in Threads, NEW l, Goto(t, l)
  PROVE  at'[t] = l /\ \A u \in Threads : u # t => at'[u] = at[u]
BY DEF PoolTypes, Goto

LEMMA StepTypes == PoolTypes /\ [Next]_poolVars => PoolTypes'
<1> SUFFICES ASSUME PoolTypes, [Next]_poolVars PROVE PoolTypes'
  OBVIOUS
<1> USE DEF InsertLabels, RemoveLabels, Goto
<1>0. Inserters \subseteq Threads /\ Removers \subseteq Threads
  BY DEF Threads
<1>1. ASSUME NEW i \in Inserters, NEW tx \in Txs, CheckCapacity(i, tx) PROVE PoolTypes'
  BY <1>0, <1>1 DEF CheckCapacity, PoolTypes
<1>2. ASSUME NEW i \in Inserters,
             CheckPoolExist(i) \/ (\E valid \in BOOLEAN : ValidateTransaction(i, valid))
             \/ OnTxInserted(i)
      PROVE  PoolTypes'
  BY <1>0, <1>2 DEF CheckPoolExist, ValidateTransaction, OnTxInserted, PoolTypes
<1>3. ASSUME NEW i \in Inserters, MapInsert(i) PROVE PoolTypes'
  BY <1>0, <1>3 DEF MapInsert, PoolTypes
<1>4. ASSUME NEW i \in Inserters, SendToBuffer(i) PROVE PoolTypes'
  BY <1>0, <1>4, ElementsAppend DEF SendToBuffer, AnnounceAfterSend, PoolTypes
<1>5. CASE MoveToQueue
  <2>1. Head(buffer) \in Txs /\ Tail(buffer) \in Seq(Txs)
    BY <1>5, ElementsTail DEF MoveToQueue, PoolTypes
  <2>2. queue' \in Seq(Txs) /\ buffer' \in Seq(Txs)
    BY <1>5, <2>1, ElementsAppend DEF MoveToQueue, PoolTypes
  <2> QED
    BY <1>5, <2>2 DEF MoveToQueue, PoolTypes
<1>6. ASSUME NEW r \in Removers, NEW txs \in SUBSET Txs, CallRemove(r, txs) PROVE PoolTypes'
  BY <1>0, <1>6 DEF CallRemove, PoolTypes
<1>7. ASSUME NEW r \in Removers, RetainQueue(r) PROVE PoolTypes'
  <2>1. queue' \in Seq(Txs)
    BY <1>7, RetainedElements DEF RetainQueue, PoolTypes
  <2> QED
    BY <1>0, <1>7, <2>1 DEF RetainQueue, PoolTypes
<1>8. ASSUME NEW r \in Removers, RetainMap(r) PROVE PoolTypes'
  BY <1>0, <1>8 DEF RetainMap, PoolTypes
<1>9. CASE UNCHANGED poolVars
  BY <1>9 DEF poolVars, PoolTypes
<1> QED
  BY <1>1, <1>2, <1>3, <1>4, <1>5, <1>6, <1>7, <1>8, <1>9 DEF Next, InsertStep, RemoveStep

(* Every entry of the map stays accounted for: map.insert hands it to its  *)
(* inserter, which sends it to the buffer, BufferStream moves it, and a    *)
(* remover takes it off the queue before it takes it off the map.          *)
LEMMA StepOrphan == PoolTypes /\ NoOrphanInMap /\ [Next]_poolVars => NoOrphanInMap'
<1> SUFFICES ASSUME PoolTypes, NoOrphanInMap, [Next]_poolVars, NEW tx \in map'
             PROVE  \/ tx \in Elements(queue') \/ tx \in Elements(buffer')
                    \/ IsSending(tx)' \/ IsBeingRemoved(tx)'
  BY DEF NoOrphanInMap
<1> DEFINE Accounted == \/ tx \in Elements(queue') \/ tx \in Elements(buffer')
                        \/ IsSending(tx)' \/ IsBeingRemoved(tx)'
<1> SUFFICES Accounted
  OBVIOUS
<1>0. /\ Inserters \subseteq Threads /\ Removers \subseteq Threads
      /\ \A i \in Inserters : i \notin Removers
  BY TxPoolAssumption DEF Threads
<1>h. tx \in map => \/ tx \in Elements(queue) \/ tx \in Elements(buffer)
                    \/ IsSending(tx) \/ IsBeingRemoved(tx)
  BY DEF NoOrphanInMap
<1>1. ASSUME NEW i \in Inserters, NEW t \in Txs, CheckCapacity(i, t) PROVE Accounted
  <2>1. at[i] = "idle" /\ Goto(i, "exist") /\ UNCHANGED <<map, queue, buffer, removing>>
        /\ \A j \in Inserters : j # i => arg'[j] = arg[j]
    BY <1>1 DEF CheckCapacity, PoolTypes
  <2> QED
    BY <1>0, <1>h, <2>1, OthersStay DEF IsSending, IsBeingRemoved
<1>2. ASSUME NEW i \in Inserters,
             CheckPoolExist(i) \/ (\E valid \in BOOLEAN : ValidateTransaction(i, valid))
             \/ OnTxInserted(i)
      PROVE  Accounted
  <2>1. /\ at[i] \in {"exist", "validate", "announce"}
        /\ UNCHANGED <<map, queue, buffer, arg, removing>>
        /\ \E l : Goto(i, l)
    BY <1>2 DEF CheckPoolExist, ValidateTransaction, OnTxInserted
  <2> QED
    BY <1>0, <1>h, <2>1, OthersStay DEF IsSending, IsBeingRemoved
<1>3. ASSUME NEW i \in Inserters, MapInsert(i) PROVE Accounted
  <2>1. /\ at[i] = "insert" /\ map' = map \cup {arg[i]}
        /\ Goto(i, IF arg[i] \notin map THEN "send" ELSE "idle")
        /\ UNCHANGED <<queue, buffer, arg, removing>>
    BY <1>3 DEF MapInsert, InsertsNew
  <2>2. CASE tx \in map
    BY <1>0, <1>h, <2>1, <2>2, OthersStay DEF IsSending, IsBeingRemoved
  <2>3. CASE tx \notin map
    <3>1. arg[i] = tx /\ Goto(i, "send")
      BY <2>1, <2>3
    <3> QED
      BY <1>0, <2>1, <3>1, OthersStay DEF IsSending
  <2> QED
    BY <2>2, <2>3
<1>4. ASSUME NEW i \in Inserters, SendToBuffer(i) PROVE Accounted
  <2>1. /\ at[i] = "send" /\ Goto(i, "announce") /\ buffer' = Append(buffer, arg[i])
        /\ UNCHANGED <<map, queue, arg, removing>>
    BY <1>4 DEF SendToBuffer, AnnounceAfterSend
  <2>2. Elements(buffer') = Elements(buffer) \cup {arg[i]}
    BY <2>1, ElementsAppend DEF PoolTypes
  <2> QED
    BY <1>0, <1>h, <2>1, <2>2, OthersStay DEF IsSending, IsBeingRemoved
<1>5. CASE MoveToQueue
  <2>1. /\ buffer # << >> /\ queue' = Append(queue, Head(buffer)) /\ buffer' = Tail(buffer)
        /\ UNCHANGED <<map, at, arg, removing>>
    BY <1>5 DEF MoveToQueue
  <2>2. Head(buffer) \in Txs /\ Elements(buffer) = Elements(buffer') \cup {Head(buffer)}
    BY <2>1, ElementsTail DEF PoolTypes
  <2>3. Elements(queue') = Elements(queue) \cup {Head(buffer)}
    BY <2>1, <2>2, ElementsAppend DEF PoolTypes
  <2> QED
    BY <1>h, <2>1, <2>2, <2>3 DEF IsSending, IsBeingRemoved
<1>6. ASSUME NEW r \in Removers, NEW txs \in SUBSET Txs, CallRemove(r, txs) PROVE Accounted
  <2>1. /\ at[r] = "idle" /\ Goto(r, "retainQueue") /\ UNCHANGED <<map, queue, buffer, arg>>
        /\ \A s \in Removers : s # r => removing'[s] = removing[s]
    BY <1>6 DEF CallRemove, PoolTypes
  <2> QED
    BY <1>0, <1>h, <2>1, OthersStay DEF IsSending, IsBeingRemoved
<1>7. ASSUME NEW r \in Removers, RetainQueue(r) PROVE Accounted
  <2>1. /\ at[r] = "retainQueue" /\ Goto(r, "retainMap")
        /\ queue' = Retained(queue, removing[r]) /\ UNCHANGED <<map, buffer, arg, removing>>
    BY <1>7 DEF RetainQueue
  <2>2. Elements(queue') = Elements(queue) \ removing[r]
    BY <2>1, RetainedElements DEF PoolTypes
  <2> QED
    BY <1>0, <1>h, <2>1, <2>2, OthersStay DEF IsSending, IsBeingRemoved
<1>8. ASSUME NEW r \in Removers, RetainMap(r) PROVE Accounted
  <2>1. /\ at[r] = "retainMap" /\ Goto(r, "idle") /\ map' = map \ removing[r]
        /\ UNCHANGED <<queue, buffer, arg>>
        /\ \A s \in Removers : s # r => removing'[s] = removing[s]
    BY <1>8 DEF RetainMap, Dropped, PoolTypes
  <2> QED
    BY <1>0, <1>h, <2>1, OthersStay DEF IsSending, IsBeingRemoved
<1>9. CASE UNCHANGED poolVars
  BY <1>h, <1>9 DEF poolVars, IsSending, IsBeingRemoved
<1> QED
  BY <1>1, <1>2, <1>3, <1>4, <1>5, <1>6, <1>7, <1>8, <1>9 DEF Next, InsertStep, RemoveStep

(* A transaction in the queue or the buffer stays announced, or its        *)
(* inserter stays about to announce it: only its own last step ends that.  *)
LEMMA StepAnnounced == PoolTypes /\ EveryTxAnnounced /\ [Next]_poolVars => EveryTxAnnounced'
<1> SUFFICES ASSUME PoolTypes, EveryTxAnnounced, [Next]_poolVars,
                    NEW tx \in Elements(queue') \cup Elements(buffer')
             PROVE  tx \in announced' \/ \E i \in Inserters : at'[i] = "announce" /\ arg'[i] = tx
  BY DEF EveryTxAnnounced
<1> DEFINE Known == tx \in announced \/ \E i \in Inserters : at[i] = "announce" /\ arg[i] = tx
           Goal == tx \in announced' \/ \E i \in Inserters : at'[i] = "announce" /\ arg'[i] = tx
<1> SUFFICES Goal
  OBVIOUS
<1>0. /\ Inserters \subseteq Threads /\ Removers \subseteq Threads
      /\ \A i \in Inserters : i \notin Removers
  BY TxPoolAssumption DEF Threads
<1>h. tx \in Elements(queue) \cup Elements(buffer) => Known
  BY DEF EveryTxAnnounced
<1>1. ASSUME NEW i \in Inserters, NEW t \in Txs, CheckCapacity(i, t) PROVE Goal
  <2>1. at[i] = "idle" /\ Goto(i, "exist") /\ UNCHANGED <<queue, buffer, announced>>
        /\ \A j \in Inserters : j # i => arg'[j] = arg[j]
    BY <1>1 DEF CheckCapacity, PoolTypes
  <2> QED
    BY <1>0, <1>h, <2>1, OthersStay
<1>2. ASSUME NEW i \in Inserters,
             CheckPoolExist(i) \/ (\E valid \in BOOLEAN : ValidateTransaction(i, valid))
             \/ MapInsert(i)
      PROVE  Goal
  <2>1. /\ at[i] \in {"exist", "validate", "insert"}
        /\ UNCHANGED <<queue, buffer, announced, arg>>
        /\ \E l : Goto(i, l)
    BY <1>2 DEF CheckPoolExist, ValidateTransaction, MapInsert
  <2> QED
    BY <1>0, <1>h, <2>1, OthersStay
<1>3. ASSUME NEW i \in Inserters, SendToBuffer(i) PROVE Goal
  <2>1. /\ at[i] = "send" /\ Goto(i, "announce") /\ buffer' = Append(buffer, arg[i])
        /\ UNCHANGED <<queue, announced, arg>>
    BY <1>3 DEF SendToBuffer, AnnounceAfterSend
  <2>2. Elements(buffer') = Elements(buffer) \cup {arg[i]}
    BY <2>1, ElementsAppend DEF PoolTypes
  <2> QED
    BY <1>0, <1>h, <2>1, <2>2, OthersStay
<1>4. ASSUME NEW i \in Inserters, OnTxInserted(i) PROVE Goal
  <2>1. /\ announced' = announced \cup {arg[i]} /\ Goto(i, "idle")
        /\ UNCHANGED <<queue, buffer, arg>>
    BY <1>4 DEF OnTxInserted
  <2> QED
    BY <1>0, <1>h, <2>1, OthersStay
<1>5. CASE MoveToQueue
  <2>1. /\ buffer # << >> /\ queue' = Append(queue, Head(buffer)) /\ buffer' = Tail(buffer)
        /\ UNCHANGED <<announced, at, arg>>
    BY <1>5 DEF MoveToQueue
  <2>2. Head(buffer) \in Txs /\ Elements(buffer) = Elements(buffer') \cup {Head(buffer)}
    BY <2>1, ElementsTail DEF PoolTypes
  <2>3. Elements(queue') = Elements(queue) \cup {Head(buffer)}
    BY <2>1, <2>2, ElementsAppend DEF PoolTypes
  <2> QED
    BY <1>h, <2>1, <2>2, <2>3
<1>6. ASSUME NEW r \in Removers, RemoveStep(r) \/ (\E txs \in SUBSET Txs : CallRemove(r, txs))
      PROVE  Goal
  <2>1. /\ UNCHANGED <<buffer, announced, arg>>
        /\ \E l : Goto(r, l)
        /\ queue' = queue \/ queue' = Retained(queue, removing[r])
    BY <1>6 DEF RemoveStep, RetainQueue, RetainMap, CallRemove
  <2>2. Elements(queue') \subseteq Elements(queue)
    BY <2>1, RetainedElements DEF PoolTypes
  <2> QED
    BY <1>0, <1>h, <2>1, <2>2, OthersStay
<1>7. CASE UNCHANGED poolVars
  BY <1>h, <1>7 DEF poolVars
<1> QED
  BY <1>1, <1>2, <1>3, <1>4, <1>5, <1>6, <1>7 DEF Next, InsertStep

LEMMA StepPool == PoolInv /\ [Next]_poolVars => PoolInv'
BY StepTypes, StepOrphan, StepAnnounced DEF PoolInv

(* No entry of the map is lost to the queue: whatever the threads of       *)
(* insert and remove interleave, it is in the queue, on its way there, or  *)
(* a remover is about to take it off the map.                              *)
THEOREM NoOrphans == Spec => []NoOrphanInMap
<1>1. PoolInv => NoOrphanInMap
  BY DEF PoolInv
<1> QED
  BY <1>1, InitPool, StepPool, PTL DEF Spec

(* What can be packed has been announced to the coordinator, or its        *)
(* inserter is about to do so.                                             *)
THEOREM Announced == Spec => []EveryTxAnnounced
<1>1. PoolInv => EveryTxAnnounced
  BY DEF PoolInv
<1> QED
  BY <1>1, InitPool, StepPool, PTL DEF Spec

-----------------------------------------------------------------------------
(* The coordinator's stream is one of the pool's threads: what it does to  *)
(* the pool is a step of insert, or nothing.                               *)
LEMMA StreamStep == [PropagationNext]_propagationVars => [Next]_poolVars
<1> SUFFICES ASSUME [PropagationNext]_propagationVars PROVE [Next]_poolVars
  OBVIOUS
<1>1. ASSUME NEW p \in Peer, NEW near \in BOOLEAN, OnProtocolOpen(p, near) PROVE UNCHANGED poolVars
  BY <1>1 DEF OnProtocolOpen
<1>2. ASSUME NEW p \in Peer, OnProtocolClose(p) PROVE UNCHANGED poolVars
  BY <1>2 DEF OnProtocolClose
<1>3. CASE OnTxpoolMessage
  BY <1>3 DEF OnTxpoolMessage
<1>4. ASSUME NEW p \in Peer, NEW tx \in Txs, OnTxPropagate(p, tx) PROVE [Next]_poolVars
  BY <1>4, PropagationAssumption DEF OnTxPropagate, Next
<1>5. ASSUME NEW i \in Inserters, Announce(i) PROVE Next
  BY <1>5 DEF Announce, Next, InsertStep
<1>6. CASE PoolGoesOn
  BY <1>6 DEF PoolGoesOn, Next
<1>7. CASE UNCHANGED propagationVars
  BY <1>7 DEF propagationVars
<1> QED
  BY <1>1, <1>2, <1>3, <1>4, <1>5, <1>6, <1>7 DEF PropagationNext

(* The propagation keeps to the interface of the pool, so that what holds  *)
(* of the pool under any threads holds of it under the coordinator.        *)
THEOREM StreamIsInserter == PropagationSpec => Spec
BY StreamStep, PTL DEF PropagationSpec, Spec, PropagationInit

(* What is proved of the propagation is more than QueuedIsPropagated says: *)
(* it is kept for the whole map, since a transaction of the buffer moves   *)
(* to the queue later.                                                     *)
InMapIsPropagated ==
  \A p \in DOMAIN known : \A tx \in map :
    tx \in known[p] \/ tx \in skipped[p] \/ Unannounced(tx)

PropagationTypes ==
  /\ txRx \in Seq(Txs)
  /\ DOMAIN skipped = DOMAIN known

PropagationInv ==
  /\ PoolTypes
  /\ PropagationTypes
  /\ InMapIsPropagated

LEMMA InitPropagation == PropagationInit => PropagationInv
BY InitPool DEF PropagationInit, PropagationInv, PropagationTypes, InMapIsPropagated, PoolInv

LEMMA StepPropagationTypes ==
  PoolTypes /\ PropagationTypes /\ [PropagationNext]_propagationVars => PropagationTypes'
<1> SUFFICES ASSUME PoolTypes, PropagationTypes, [PropagationNext]_propagationVars PROVE PropagationTypes'
  OBVIOUS
<1>1. ASSUME NEW p \in Peer, NEW near \in BOOLEAN, OnProtocolOpen(p, near) PROVE PropagationTypes'
  <2>1. txRx' = txRx /\ DOMAIN known' = DOMAIN known \cup {p} /\ DOMAIN skipped' = DOMAIN skipped \cup {p}
    BY <1>1 DEF OnProtocolOpen, PropagateTxs, With
  <2> QED
    BY <2>1 DEF PropagationTypes
<1>2. ASSUME NEW p \in Peer, OnProtocolClose(p) PROVE PropagationTypes'
  BY <1>2 DEF OnProtocolClose, Restrict, PropagationTypes
<1>3. CASE OnTxpoolMessage
  <2>1. txRx' = Tail(txRx) /\ skipped' = skipped /\ DOMAIN known' = DOMAIN known /\ txRx # << >>
    BY <1>3 DEF OnTxpoolMessage, PropagateTxs
  <2> QED
    BY <2>1, ElementsTail DEF PropagationTypes
<1>4. ASSUME NEW p \in Peer, NEW tx \in Txs, OnTxPropagate(p, tx) PROVE PropagationTypes'
  BY <1>4 DEF OnTxPropagate, PropagationTypes
<1>5. ASSUME NEW i \in Inserters, Announce(i) PROVE PropagationTypes'
  BY <1>5, ElementsAppend DEF Announce, PropagationTypes, PoolTypes
<1>6. CASE PoolGoesOn
  BY <1>6 DEF PoolGoesOn, PropagationTypes
<1>7. CASE UNCHANGED propagationVars
  BY <1>7 DEF propagationVars, PropagationTypes
<1> QED
  BY <1>1, <1>2, <1>3, <1>4, <1>5, <1>6, <1>7 DEF PropagationNext

(* A step of the pool, other than the announcement, takes no transaction   *)
(* from those still to be announced, and what it adds to the map is one.   *)
KeepsUnannounced ==
  /\ \A tx \in Txs : Unannounced(tx) => Unannounced(tx)'
  /\ \A tx \in map' : tx \in map \/ Unannounced(tx)'

LEMMA PoolKeepsUnannounced ==
  ASSUME PoolTypes, txRx' = txRx,
         \/ \E i \in Inserters, tx \in Txs : CheckCapacity(i, tx)
         \/ \E i \in Inserters : at[i] # "announce" /\ InsertStep(i)
         \/ MoveToQueue
         \/ \E r \in Removers, txs \in SUBSET Txs : CallRemove(r, txs)
         \/ \E r \in Removers : RemoveStep(r)
  PROVE  KeepsUnannounced
<1>0. /\ Inserters \subseteq Threads /\ Removers \subseteq Threads
      /\ \A i \in Inserters : i \notin Removers
  BY TxPoolAssumption DEF Threads
<1>1. ASSUME NEW i \in Inserters, NEW t \in Txs, CheckCapacity(i, t) PROVE KeepsUnannounced
  <2>1. at[i] = "idle" /\ Goto(i, "exist") /\ map' = map
        /\ \A j \in Inserters : j # i => arg'[j] = arg[j]
    BY <1>1 DEF CheckCapacity, PoolTypes
  <2> QED
    BY <1>0, <2>1, OthersStay DEF Unannounced, KeepsUnannounced
<1>2. ASSUME NEW i \in Inserters,
             CheckPoolExist(i) \/ (\E valid \in BOOLEAN : ValidateTransaction(i, valid))
      PROVE  KeepsUnannounced
  <2>1. /\ at[i] \in {"exist", "validate"}
        /\ UNCHANGED <<map, arg>>
        /\ \E l : Goto(i, l)
    BY <1>2 DEF CheckPoolExist, ValidateTransaction
  <2> QED
    BY <1>0, <2>1, OthersStay DEF Unannounced, KeepsUnannounced
<1>3. ASSUME NEW i \in Inserters, MapInsert(i) PROVE KeepsUnannounced
  <2>1. /\ at[i] = "insert" /\ map' = map \cup {arg[i]} /\ arg' = arg
        /\ Goto(i, IF arg[i] \notin map THEN "send" ELSE "idle")
    BY <1>3 DEF MapInsert, InsertsNew
  <2>2. \A tx \in Txs : Unannounced(tx) => Unannounced(tx)'
    BY <1>0, <2>1, OthersStay DEF Unannounced
  <2>3. ASSUME NEW tx \in map', tx \notin map PROVE Unannounced(tx)'
    <3>1. arg[i] = tx /\ Goto(i, "send")
      BY <2>1, <2>3
    <3> QED
      BY <1>0, <2>1, <3>1, OthersStay DEF Unannounced
  <2> QED
    BY <2>2, <2>3 DEF KeepsUnannounced
<1>4. ASSUME NEW i \in Inserters, SendToBuffer(i) PROVE KeepsUnannounced
  <2>1. at[i] = "send" /\ Goto(i, "announce") /\ UNCHANGED <<map, arg>>
    BY <1>4 DEF SendToBuffer, AnnounceAfterSend
  <2> QED
    BY <1>0, <2>1, OthersStay DEF Unannounced, KeepsUnannounced
<1>5. ASSUME NEW i \in Inserters, at[i] # "announce", InsertStep(i) PROVE KeepsUnannounced
  <2>1. ~ OnTxInserted(i)
    BY <1>5 DEF OnTxInserted
  <2> QED
    BY <1>2, <1>3, <1>4, <1>5, <2>1 DEF InsertStep
<1>6. CASE MoveToQueue
  BY <1>6 DEF MoveToQueue, Unannounced, KeepsUnannounced
<1>7. ASSUME NEW r \in Removers, RemoveStep(r) \/ (\E txs \in SUBSET Txs : CallRemove(r, txs))
      PROVE  KeepsUnannounced
  <2>1. /\ arg' = arg /\ map' \subseteq map
        /\ \E l : Goto(r, l)
    BY <1>7 DEF RemoveStep, RetainQueue, RetainMap, CallRemove
  <2> QED
    BY <1>0, <2>1, OthersStay DEF Unannounced, KeepsUnannounced
<1> QED
  BY <1>1, <1>5, <1>6, <1>7

(* Every step keeps each entry of the map sent, skipped or announced: a    *)
(* peer that connects is sent or skips what is not, and a message is taken *)
(* off txRx by sending its transaction.                                    *)
LEMMA StepPropagated ==
  PropagationInv /\ PoolTypes' /\ [PropagationNext]_propagationVars => InMapIsPropagated'
<1> SUFFICES ASSUME PropagationInv, PoolTypes', [PropagationNext]_propagationVars
             PROVE  InMapIsPropagated'
  OBVIOUS
<1>0. PoolTypes /\ PropagationTypes /\ InMapIsPropagated /\ map \subseteq Txs /\ map' \subseteq Txs
  BY DEF PropagationInv, PoolTypes
(* Steps that leave the peers alone. *)
<1>1. ASSUME KeepsUnannounced, DOMAIN known' = DOMAIN known, skipped' = skipped,
             \A p \in DOMAIN known : known[p] \subseteq known'[p]
      PROVE  InMapIsPropagated'
  BY <1>0, <1>1 DEF InMapIsPropagated, KeepsUnannounced
<1>2. ASSUME NEW p \in Peer, NEW near \in BOOLEAN, OnProtocolOpen(p, near)
      PROVE  InMapIsPropagated'
  <2>1. /\ UNCHANGED <<poolVars, txRx>>
        /\ DOMAIN known' = DOMAIN known \cup {p}
        /\ \A q \in DOMAIN known : q # p /\ known'[q] = known[q] /\ skipped'[q] = skipped[q]
        /\ skipped'[p] = {tx \in map \cup Elements(buffer) : ~Unannounced(tx) /\ tx \notin known'[p]}
    BY <1>0, <1>2 DEF OnProtocolOpen, PropagateTxs, With, PropagationTypes
  <2>2. map' = map /\ \A tx : Unannounced(tx)' = Unannounced(tx)
    BY <2>1 DEF Unannounced, poolVars
  <2>3. ASSUME NEW tx \in map PROVE tx \in known'[p] \/ tx \in skipped'[p] \/ Unannounced(tx)
    BY <2>1
  <2> QED
    BY <1>0, <2>1, <2>2, <2>3 DEF InMapIsPropagated
<1>3. ASSUME NEW p \in Peer, OnProtocolClose(p) PROVE InMapIsPropagated'
  <2>1. /\ UNCHANGED <<poolVars, txRx>>
        /\ \A q \in DOMAIN known' : q \in DOMAIN known /\ known'[q] = known[q] /\ skipped'[q] = skipped[q]
    BY <1>0, <1>3 DEF OnProtocolClose, Restrict, PropagationTypes
  <2>2. map' = map /\ \A tx : Unannounced(tx)' = Unannounced(tx)
    BY <2>1 DEF Unannounced, poolVars
  <2> QED
    BY <1>0, <2>1, <2>2 DEF InMapIsPropagated
<1>4. CASE OnTxpoolMessage
  <2>1. /\ UNCHANGED <<poolVars, skipped>> /\ DOMAIN known' = DOMAIN known
        /\ txRx # << >> /\ txRx' = Tail(txRx)
        /\ \A q \in DOMAIN known : known[q] \subseteq known'[q]
        /\ Head(txRx) \in map => \A q \in DOMAIN known : Head(txRx) \in known'[q]
    BY <1>4 DEF OnTxpoolMessage, PropagateTxs, PoolHas
  <2>2. Elements(txRx) = Elements(txRx') \cup {Head(txRx)}
    BY <1>0, <2>1, ElementsTail DEF PropagationTypes
  <2>3. map' = map /\ \A tx : Unannounced(tx) => tx = Head(txRx) \/ Unannounced(tx)'
    BY <2>1, <2>2 DEF Unannounced, poolVars
  <2> QED
    BY <1>0, <2>1, <2>3 DEF InMapIsPropagated
<1>5. ASSUME NEW p \in Peer, NEW t \in Txs, OnTxPropagate(p, t) PROVE InMapIsPropagated'
  <2>1. /\ DOMAIN known' = DOMAIN known /\ skipped' = skipped /\ txRx' = txRx
        /\ \A q \in DOMAIN known : known[q] \subseteq known'[q]
        /\ CheckCapacity(Coordinator, t) \/ UNCHANGED poolVars
    BY <1>5 DEF OnTxPropagate
  <2>2. KeepsUnannounced
    <3>1. CASE UNCHANGED poolVars
      BY <2>1, <3>1 DEF poolVars, Unannounced, KeepsUnannounced
    <3>2. CASE CheckCapacity(Coordinator, t)
      BY <1>0, <2>1, <3>2, PropagationAssumption, PoolKeepsUnannounced
    <3> QED
      BY <2>1, <3>1, <3>2
  <2> QED
    BY <1>1, <2>1, <2>2
<1>6. ASSUME NEW i \in Inserters, Announce(i) PROVE InMapIsPropagated'
  <2>1. /\ txRx' = Append(txRx, arg[i]) /\ UNCHANGED <<known, skipped, map, arg>> /\ Goto(i, "idle")
    BY <1>6 DEF Announce, OnTxInserted
  <2>2. Elements(txRx') = Elements(txRx) \cup {arg[i]}
    BY <1>0, <2>1, ElementsAppend DEF PropagationTypes, PoolTypes
  <2>3. KeepsUnannounced
    BY <1>0, <2>1, <2>2, OthersStay DEF Threads, Unannounced, KeepsUnannounced
  <2> QED
    BY <1>1, <2>1, <2>3
<1>7. CASE PoolGoesOn
  <2>1. UNCHANGED <<txRx, known, skipped>>
    BY <1>7 DEF PoolGoesOn
  <2>2. KeepsUnannounced
    BY <1>0, <1>7, <2>1, PoolKeepsUnannounced DEF PoolGoesOn
  <2> QED
    BY <1>1, <2>1, <2>2
<1>8. CASE UNCHANGED propagationVars
  <2>1. UNCHANGED <<known, skipped>> /\ KeepsUnannounced
    BY <1>8 DEF propagationVars, poolVars, Unannounced, KeepsUnannounced
  <2> QED
    BY <1>1, <2>1
<1> QED
  BY <1>2, <1>3, <1>4, <1>5, <1>6, <1>7, <1>8 DEF PropagationNext

(* A transaction that can be packed is sent to every connected peer, or    *)
(* its announcement is on the way, or the peer connected in the window     *)
(* that skipped records.                                                   *)
THEOREM Propagated == PropagationSpec => []QueuedIsPropagated
<1>1. PropagationInv /\ [PropagationNext]_propagationVars => PropagationInv'
  BY StreamStep, StepTypes, StepPropagationTypes, StepPropagated DEF PropagationInv
<1>2. PropagationInv => QueuedIsPropagated
  BY DEF PropagationInv, InMapIsPropagated, QueuedIsPropagated
<1> QED
  BY <1>1, <1>2, InitPropagation, PTL DEF PropagationSpec

-----------------------------------------------------------------------------
(* tx has at most one place in s. *)
Unique(s, tx) == \A i, j \in 1 .. Len(s) : s[i] = tx /\ s[j] = tx => i = j

LEMMA UniqueAppend ==
  ASSUME NEW A, NEW s \in Seq(A), NEW x \in A, NEW tx,
         Unique(s, tx), x = tx => tx \notin Elements(s)
  PROVE  Unique(Append(s, x), tx)
<1>1. /\ Len(Append(s, x)) = Len(s) + 1 /\ Len(s) \in Nat
      /\ Append(s, x)[Len(s) + 1] = x
      /\ \A i \in 1 .. Len(s) : Append(s, x)[i] = s[i]
  OBVIOUS
<1>2. \A i \in 1 .. (Len(s) + 1) : i \in 1 .. Len(s) \/ i = Len(s) + 1
  BY <1>1
<1> QED
  BY <1>1, <1>2 DEF Unique, Elements

LEMMA UniqueTail ==
  ASSUME NEW A, NEW s \in Seq(A), s # << >>, NEW tx, Unique(s, tx)
  PROVE  Unique(Tail(s), tx) /\ (Head(s) = tx => tx \notin Elements(Tail(s)))
<1>1. /\ Head(s) = s[1] /\ Len(s) \in Nat /\ Len(s) > 0 /\ Len(Tail(s)) = Len(s) - 1
      /\ \A i \in 1 .. (Len(s) - 1) : Tail(s)[i] = s[i + 1]
  OBVIOUS
<1>2. \A i \in 1 .. (Len(s) - 1) : i + 1 \in 1 .. Len(s) /\ i + 1 # 1
  BY <1>1
<1>3. ASSUME NEW i \in 1 .. (Len(s) - 1), NEW j \in 1 .. (Len(s) - 1),
             Tail(s)[i] = tx, Tail(s)[j] = tx
      PROVE  i = j
  <2>1. i + 1 = j + 1
    BY <1>1, <1>2, <1>3 DEF Unique
  <2> QED
    BY <2>1
<1>4. ASSUME Head(s) = tx, NEW i \in 1 .. (Len(s) - 1), Tail(s)[i] = tx
      PROVE  FALSE
  <2>1. 1 \in 1 .. Len(s)
    BY <1>1
  <2> QED
    BY <1>1, <1>2, <1>4, <2>1 DEF Unique
<1> QED
  BY <1>1, <1>3, <1>4 DEF Unique, Elements

(* queue.retain makes no second copy of a transaction. *)
LEMMA RetainedUnique ==
  ASSUME NEW A, NEW q \in Seq(A), NEW txs, NEW tx, Unique(q, tx)
  PROVE  Unique(Retained(q, txs), tx)
<1> DEFINE kept == CHOOSE kept : IsKept(kept, Len(q), q, txs)
<1>1. IsKept(kept, Len(q), q, txs)
  BY KeptExists
<1>2. Retained(q, txs) = kept[Len(q)]
  BY DEF Retained, IsKept
<1> HIDE DEF kept
<1> DEFINE Good(n) == /\ kept[n] \in Seq(A)
                      /\ Elements(kept[n]) \subseteq {q[k] : k \in 1 .. n}
                      /\ Unique(kept[n], tx)
           T == {n \in 0 .. Len(q) : ~ Good(n)}
<1> SUFFICES ASSUME T # {} PROVE FALSE
  <2>1. Len(q) \in 0 .. Len(q)
    OBVIOUS
  <2> QED
    BY <1>2, <2>1
<1>3. T \in SUBSET Nat
  OBVIOUS
<1>4. PICK n \in T : \A m \in T : n <= m
  <2> HIDE DEF T
  <2> QED
    BY <1>3, LeastNatural
<1>5. kept[n] = IF n = 0 THEN << >>
                ELSE IF q[n] \in txs THEN kept[n - 1] ELSE Append(kept[n - 1], q[n])
  BY <1>1, <1>4 DEF IsKept
<1>6. n # 0
  <2>1. ASSUME n = 0 PROVE Good(0)
    <3>1. kept[0] = << >> /\ 1 .. 0 = {} /\ << >> \in Seq(A) /\ Len(<< >>) = 0
      BY <1>5, <2>1
    <3>2. Elements(<< >>) = {} /\ Unique(<< >>, tx)
      BY <3>1 DEF Elements, Unique
    <3> QED
      BY <3>1, <3>2
  <2> HIDE DEF Good
  <2> QED
    BY <1>4, <2>1
<1>7. n \in 1 .. Len(q) /\ n - 1 \in 0 .. Len(q) /\ n - 1 \notin T
  <2> HIDE DEF Good
  <2>1. n \in 1 .. Len(q) /\ n - 1 \in 0 .. Len(q)
    BY <1>4, <1>6
  <2> HIDE DEF T
  <2> QED
    BY <1>4, <2>1
<1>8. Good(n - 1) /\ q[n] \in A
  BY <1>7
<1>9. {q[k] : k \in 1 .. n} = {q[k] : k \in 1 .. (n - 1)} \cup {q[n]}
  BY <1>7
<1>10. Good(n)
  <2>1. CASE q[n] \in txs
    BY <1>5, <1>6, <1>8, <1>9, <2>1
  <2>2. CASE q[n] \notin txs
    <3>1. Append(kept[n - 1], q[n]) \in Seq(A)
          /\ Elements(Append(kept[n - 1], q[n])) = Elements(kept[n - 1]) \cup {q[n]}
      BY <1>8, ElementsAppend
    <3>2. ASSUME q[n] = tx, tx \in {q[k] : k \in 1 .. (n - 1)} PROVE FALSE
      <4>1. PICK k \in 1 .. (n - 1) : q[k] = tx
        BY <3>2
      <4>2. k \in 1 .. Len(q) /\ k # n
        BY <1>7
      <4> QED
        BY <1>7, <3>2, <4>1, <4>2 DEF Unique
    <3>3. Unique(Append(kept[n - 1], q[n]), tx)
      <4>1. q[n] = tx => tx \notin Elements(kept[n - 1])
        BY <1>8, <3>2
      <4> QED
        BY <1>8, <4>1, UniqueAppend
    <3> QED
      BY <1>5, <1>6, <1>8, <1>9, <2>2, <3>1, <3>3
  <2> QED
    BY <2>1, <2>2
<1> QED
  BY <1>4, <1>10

(* The places a transaction of the pool can be at: it has at most one, and *)
(* the map protects it from a second.                                      *)
SendsTx(i, tx) == at[i] = "send" /\ arg[i] = tx
Pending(tx) ==
  tx \in Elements(queue) \/ tx \in Elements(buffer) \/ \E i \in Inserters : SendsTx(i, tx)
Single(tx) ==
  /\ Unique(queue, tx)
  /\ Unique(buffer, tx)
  /\ \A i, j \in Inserters : SendsTx(i, tx) /\ SendsTx(j, tx) => i = j
  /\ ~ (tx \in Elements(queue) /\ tx \in Elements(buffer))
  /\ \A i \in Inserters : SendsTx(i, tx) => tx \notin Elements(queue) /\ tx \notin Elements(buffer)
Protected(tx) == Single(tx) /\ (Pending(tx) => tx \in map)

(* The steps of the pool, by what they do to the places of a transaction.  *)
SamePlaces == UNCHANGED <<queue, buffer>> /\ \A i \in Inserters, tx \in Txs : SendsTx(i, tx)' <=> SendsTx(i, tx)
InsertsTx(i) ==
  /\ arg[i] \notin map /\ map' = map \cup {arg[i]} /\ UNCHANGED <<queue, buffer>>
  /\ \A j \in Inserters, tx \in Txs : SendsTx(j, tx)' <=> (SendsTx(j, tx) \/ (j = i /\ tx = arg[i]))
SendsOff(i) ==
  /\ SendsTx(i, arg[i]) /\ buffer' = Append(buffer, arg[i]) /\ UNCHANGED <<map, queue>>
  /\ \A j \in Inserters, tx \in Txs : SendsTx(j, tx)' <=> (SendsTx(j, tx) /\ j # i)
SameSenders == \A i \in Inserters, tx \in Txs : SendsTx(i, tx)' <=> SendsTx(i, tx)
Moves ==
  /\ buffer # << >> /\ queue' = Append(queue, Head(buffer)) /\ buffer' = Tail(buffer)
  /\ map' = map /\ SameSenders
Retains(r) ==
  /\ RetainQueue(r) /\ queue' = Retained(queue, removing[r])
  /\ UNCHANGED <<map, buffer>> /\ SameSenders
Drops(r) == RetainMap(r) /\ map' = map \ removing[r] /\ SamePlaces

LEMMA PlacesCases ==
  ASSUME PoolTypes, [Next]_poolVars
  PROVE  \/ SamePlaces /\ map' = map
         \/ \E i \in Inserters : InsertsTx(i) \/ SendsOff(i)
         \/ Moves
         \/ \E r \in Removers : Retains(r) \/ Drops(r)
<1>0. /\ Inserters \subseteq Threads /\ Removers \subseteq Threads
      /\ \A i \in Inserters : i \notin Removers
  BY TxPoolAssumption DEF Threads
<1>1. ASSUME NEW i \in Inserters, NEW t \in Txs, CheckCapacity(i, t) PROVE SamePlaces /\ map' = map
  <2>1. at[i] = "idle" /\ Goto(i, "exist") /\ UNCHANGED <<map, queue, buffer>>
        /\ \A j \in Inserters : j # i => arg'[j] = arg[j]
    BY <1>1 DEF CheckCapacity, PoolTypes
  <2> QED
    BY <1>0, <2>1, OthersStay DEF SendsTx, SamePlaces
<1>2. ASSUME NEW i \in Inserters,
             CheckPoolExist(i) \/ (\E valid \in BOOLEAN : ValidateTransaction(i, valid))
             \/ OnTxInserted(i)
      PROVE  SamePlaces /\ map' = map
  <2>1. /\ at[i] \in {"exist", "validate", "announce"}
        /\ UNCHANGED <<map, queue, buffer, arg>>
        /\ \E l \in {"idle", "validate", "insert"} : Goto(i, l)
    BY <1>2 DEF CheckPoolExist, ValidateTransaction, OnTxInserted
  <2> QED
    BY <1>0, <2>1, OthersStay DEF SendsTx, SamePlaces
<1>3. ASSUME NEW i \in Inserters, MapInsert(i) PROVE InsertsTx(i) \/ (SamePlaces /\ map' = map)
  <2>1. /\ at[i] = "insert" /\ map' = map \cup {arg[i]} /\ UNCHANGED <<queue, buffer, arg>>
        /\ Goto(i, IF arg[i] \notin map THEN "send" ELSE "idle")
    BY <1>3 DEF MapInsert, InsertsNew
  <2>2. CASE arg[i] \in map
    <3>1. Goto(i, "idle") /\ map' = map
      BY <2>1, <2>2
    <3> QED
      BY <1>0, <2>1, <3>1, OthersStay DEF SendsTx, SamePlaces
  <2>3. CASE arg[i] \notin map
    <3>1. Goto(i, "send")
      BY <2>1, <2>3
    <3> QED
      BY <1>0, <2>1, <2>3, <3>1, OthersStay DEF SendsTx, InsertsTx
  <2> QED
    BY <2>2, <2>3
<1>4. ASSUME NEW i \in Inserters, SendToBuffer(i) PROVE SendsOff(i)
  <2>1. /\ at[i] = "send" /\ Goto(i, "announce") /\ buffer' = Append(buffer, arg[i])
        /\ UNCHANGED <<map, queue, arg>>
    BY <1>4 DEF SendToBuffer, AnnounceAfterSend
  <2> QED
    BY <1>0, <2>1, OthersStay DEF SendsTx, SendsOff
<1>5. ASSUME MoveToQueue PROVE Moves
  BY <1>5 DEF MoveToQueue, Moves, SameSenders, SendsTx
<1>6. ASSUME NEW r \in Removers, NEW txs \in SUBSET Txs, CallRemove(r, txs)
      PROVE  SamePlaces /\ map' = map
  <2>1. Goto(r, "retainQueue") /\ UNCHANGED <<map, queue, buffer, arg>>
    BY <1>6 DEF CallRemove
  <2> QED
    BY <1>0, <2>1, OthersStay DEF SendsTx, SamePlaces
<1>7. ASSUME NEW r \in Removers, RetainQueue(r) PROVE Retains(r)
  <2>1. /\ at[r] = "retainQueue" /\ Goto(r, "retainMap")
        /\ queue' = Retained(queue, removing[r]) /\ UNCHANGED <<map, buffer, arg>>
    BY <1>7 DEF RetainQueue
  <2> QED
    BY <1>0, <1>7, <2>1, OthersStay DEF SendsTx, SameSenders, Retains
<1>8. ASSUME NEW r \in Removers, RetainMap(r) PROVE Drops(r)
  <2>1. /\ at[r] = "retainMap" /\ Goto(r, "idle") /\ map' = map \ removing[r]
        /\ UNCHANGED <<queue, buffer, arg>>
    BY <1>8 DEF RetainMap, Dropped
  <2> QED
    BY <1>0, <1>8, <2>1, OthersStay DEF SendsTx, SamePlaces, Drops
<1>9. ASSUME UNCHANGED poolVars PROVE SamePlaces /\ map' = map
  BY <1>9 DEF poolVars, SendsTx, SamePlaces
<1> QED
  BY <1>1, <1>2, <1>3, <1>4, <1>5, <1>6, <1>7, <1>8, <1>9 DEF Next, InsertStep, RemoveStep

(* A protected transaction stays so, unless it is taken off the map while  *)
(* it has a place.                                                         *)
LEMMA ProtectedStep ==
  ASSUME PoolTypes, [Next]_poolVars, NEW tx \in Txs, Protected(tx),
         \A r \in Removers : at[r] = "retainMap" /\ tx \in removing[r] => ~ Pending(tx)
  PROVE  Protected(tx)'
<1> USE DEF Protected
<1>0. queue \in Seq(Txs) /\ buffer \in Seq(Txs) /\ arg \in [Inserters -> Txs]
  BY DEF PoolTypes
<1>1. CASE SamePlaces /\ map' = map
  BY <1>1 DEF SamePlaces, Pending, Single
<1>2. ASSUME NEW i \in Inserters, InsertsTx(i) PROVE Protected(tx)'
  <2>1. CASE tx = arg[i]
    BY <1>2, <2>1 DEF InsertsTx, Pending, Single
  <2>2. CASE tx # arg[i]
    BY <1>2, <2>2 DEF InsertsTx, Pending, Single
  <2> QED
    BY <2>1, <2>2
<1>3. ASSUME NEW i \in Inserters, SendsOff(i) PROVE Protected(tx)'
  <2>1. Elements(buffer') = Elements(buffer) \cup {arg[i]} /\ queue' = queue /\ map' = map
    BY <1>0, <1>3, ElementsAppend DEF SendsOff
  <2>2. Unique(buffer', tx)
    <3>1. arg[i] = tx => tx \notin Elements(buffer)
      BY <1>3 DEF SendsOff, Single
    <3>2. Unique(Append(buffer, arg[i]), tx)
      BY <1>0, <3>1, UniqueAppend DEF Single
    <3> QED
      BY <1>3, <3>2 DEF SendsOff
  <2>3. CASE tx = arg[i]
    BY <1>3, <2>1, <2>2, <2>3 DEF SendsOff, Pending, Single
  <2>4. CASE tx # arg[i]
    BY <1>3, <2>1, <2>2, <2>4 DEF SendsOff, Pending, Single
  <2> QED
    BY <2>3, <2>4
<1>4. CASE Moves
  <2>1. /\ Head(buffer) \in Txs /\ Elements(buffer) = Elements(buffer') \cup {Head(buffer)}
        /\ Unique(buffer', tx) /\ (Head(buffer) = tx => tx \notin Elements(buffer'))
        /\ map' = map /\ SameSenders
    BY <1>0, <1>4, ElementsTail, UniqueTail DEF Moves, Single
  <2>2. Elements(queue') = Elements(queue) \cup {Head(buffer)}
    BY <1>0, <1>4, <2>1, ElementsAppend DEF Moves
  <2>3. Unique(queue', tx)
    <3>1. Head(buffer) = tx => tx \notin Elements(queue)
      BY <2>1 DEF Single
    <3>2. Unique(Append(queue, Head(buffer)), tx)
      BY <1>0, <2>1, <3>1, UniqueAppend DEF Single
    <3> QED
      BY <1>4, <3>2 DEF Moves
  <2> QED
    BY <2>1, <2>2, <2>3 DEF SameSenders, Pending, Single
<1>5. ASSUME NEW r \in Removers, Retains(r) PROVE Protected(tx)'
  <2>1. Elements(queue') = Elements(queue) \ removing[r] /\ buffer' = buffer /\ map' = map /\ SameSenders
    BY <1>0, <1>5, RetainedElements DEF Retains
  <2>2. Unique(queue', tx)
    BY <1>0, <1>5, RetainedUnique DEF Retains, Single
  <2> QED
    BY <2>1, <2>2 DEF SameSenders, Pending, Single
<1>6. ASSUME NEW r \in Removers, Drops(r) PROVE Protected(tx)'
  BY <1>6 DEF Drops, RetainMap, SamePlaces, Pending, Single
<1> QED
  BY <1>1, <1>2, <1>3, <1>4, <1>5, <1>6, PlacesCases

(* A transaction that the map has and that has no place gets none. *)
LEMMA AbsentStep ==
  ASSUME PoolTypes, [Next]_poolVars, NEW tx \in Txs, tx \in map, ~ Pending(tx)
  PROVE  ~ Pending(tx)'
<1>0. queue \in Seq(Txs) /\ buffer \in Seq(Txs) /\ arg \in [Inserters -> Txs]
  BY DEF PoolTypes
<1>1. CASE SamePlaces
  BY <1>1 DEF SamePlaces, Pending
<1>2. ASSUME NEW i \in Inserters, InsertsTx(i) PROVE ~ Pending(tx)'
  BY <1>2 DEF InsertsTx, Pending
<1>3. ASSUME NEW i \in Inserters, SendsOff(i) PROVE ~ Pending(tx)'
  <2>1. Elements(buffer') = Elements(buffer) \cup {arg[i]}
    BY <1>0, <1>3, ElementsAppend DEF SendsOff
  <2> QED
    BY <1>3, <2>1 DEF SendsOff, Pending
<1>4. CASE Moves
  <2>1. Head(buffer) \in Txs /\ Elements(buffer) = Elements(buffer') \cup {Head(buffer)}
    BY <1>0, <1>4, ElementsTail DEF Moves
  <2>2. Elements(queue') = Elements(queue) \cup {Head(buffer)}
    BY <1>0, <1>4, <2>1, ElementsAppend DEF Moves
  <2> QED
    BY <1>4, <2>1, <2>2 DEF Moves, SameSenders, Pending
<1>5. ASSUME NEW r \in Removers, Retains(r) PROVE ~ Pending(tx)'
  <2>1. Elements(queue') = Elements(queue) \ removing[r]
    BY <1>0, <1>5, RetainedElements DEF Retains
  <2> QED
    BY <1>5, <2>1 DEF Retains, SameSenders, Pending
<1> QED
  BY <1>1, <1>2, <1>3, <1>4, <1>5, PlacesCases DEF Drops

(* The queue loses only what a remover takes off it. *)
LEMMA QueuedStep ==
  ASSUME PoolTypes, [Next]_poolVars, NEW tx \in Elements(queue),
         \A r \in Removers : RetainQueue(r) => tx \notin removing[r]
  PROVE  tx \in Elements(queue')
<1>0. queue \in Seq(Txs) /\ buffer \in Seq(Txs) /\ arg \in [Inserters -> Txs]
  BY DEF PoolTypes
<1>1. CASE queue' = queue
  BY <1>1
<1>2. CASE Moves
  <2>1. Head(buffer) \in Txs
    BY <1>0, <1>2, ElementsTail DEF Moves
  <2> QED
    BY <1>0, <1>2, <2>1, ElementsAppend DEF Moves
<1>3. ASSUME NEW r \in Removers, Retains(r) PROVE tx \in Elements(queue')
  BY <1>0, <1>3, RetainedElements DEF Retains
<1> QED
  BY <1>1, <1>2, <1>3, PlacesCases DEF SamePlaces, InsertsTx, SendsOff, Drops

(* And the map what a remover takes off it. *)
LEMMA MappedStep ==
  ASSUME PoolTypes, [Next]_poolVars, NEW tx \in map,
         \A r \in Removers : RetainMap(r) => tx \notin removing[r]
  PROVE  tx \in map'
BY PlacesCases DEF InsertsTx, SendsOff, Moves, Retains, Drops

-----------------------------------------------------------------------------
(* The node's own state. *)
NodeLabels == {"idle", "clone", "validate", "verify", "commit", "update", "remove"}
NodeTypes ==
  /\ chain \in Seq(Seq(Txs))
  /\ current \in Nat
  /\ reading \in SUBSET Nat
  /\ pc \in [Committers -> NodeLabels]
  /\ number \in [Committers -> Nat]
  /\ rest \in [Committers -> Seq(Txs)]
  /\ chosen \in [Committers -> Seq(Txs)]
  /\ invalid \in SUBSET Txs

LEMMA LenIsNat ==
  ASSUME NEW A, NEW s \in Seq(A)
  PROVE  Len(s) \in Nat
OBVIOUS

LEMMA ElementsIn ==
  ASSUME NEW A, NEW s \in Seq(A)
  PROVE  Elements(s) \subseteq A
BY DEF Elements

(* The node uses the pool through its interface. *)
LEMMA NodePoolStep ==
  ASSUME NodeTypes, [NodeNext]_vars
  PROVE  [Next]_poolVars
<1> USE DEF Committers
<1>0. Worker \in Removers /\ Syncer \in Removers
  BY PoaNodeAssumption
<1>1. CASE PoolStep
  <2>1. ASSUME NEW i \in Inserters, InsertGoesOn(i) PROVE InsertStep(i)
    <3>1. \A tx : Answers(tx) \subseteq BOOLEAN
      BY DEF Answers
    <3> QED
      BY <2>1, <3>1 DEF InsertGoesOn, InsertStep
  <2> QED
    BY <1>1, <2>1 DEF PoolStep, Next
<1>2. CASE RemoveInvalid
  BY <1>0, <1>2 DEF RemoveInvalid, InvalidRemoved, Next, NodeTypes
<1>3. ASSUME NEW c \in Committers, RemoveCommitted(c) PROVE [Next]_poolVars
  <2>1. Elements(chosen[c]) \in SUBSET Txs
    BY ElementsIn DEF NodeTypes
  <2> QED
    BY <1>0, <1>3, <2>1 DEF RemoveCommitted, Next
<1>4. ASSUME NEW c \in Committers, CommitBlock(c) \/ CommitRefused(c) \/ UpdateCurrent(c)
      PROVE  UNCHANGED poolVars
  BY <1>4 DEF CommitBlock, CommitRefused, UpdateCurrent
<1>5. CASE \/ Work \/ CloneQueue \/ ValidateQueued \/ GapExceeded
           \/ Downloaded \/ VerifyTransaction \/ VerifiedBody
           \/ ExecutorRead \/ ExecutorWrite \/ UNCHANGED vars
  BY <1>5 DEF Work, CloneQueue, ValidateQueued, GapExceeded, Downloaded, VerifyTransaction,
              VerifiedBody, ExecutorRead, ExecutorWrite, vars
<1> QED
  BY <1>1, <1>2, <1>3, <1>4, <1>5 DEF NodeNext

LEMMA StepNodeTypes == PoolTypes /\ NodeTypes /\ [NodeNext]_vars => NodeTypes'
<1> SUFFICES ASSUME PoolTypes, NodeTypes, [NodeNext]_vars PROVE NodeTypes'
  OBVIOUS
<1> USE DEF Goes, NodeTypes, NodeLabels
<1>0. Worker \in Committers /\ Syncer \in Committers /\ Len(chain) \in Nat
  BY LenIsNat DEF Committers
<1>1. ASSUME NEW c \in Committers, Returns(c), UNCHANGED <<chain, current, reading, invalid>>
      PROVE  NodeTypes'
  <2>1. << >> \in Seq(Txs)
    OBVIOUS
  <2> QED
    BY <1>1, <2>1 DEF Returns
<1>2. CASE Work
  BY <1>0, <1>2 DEF Work
<1>3. CASE CloneQueue
  BY <1>0, <1>3 DEF CloneQueue, PoolTypes
<1>4. ASSUME NEW c \in Committers, rest[c] # << >>
      PROVE  /\ [rest EXCEPT ![c] = Tail(@)] \in [Committers -> Seq(Txs)]
             /\ [chosen EXCEPT ![c] = Append(@, Head(rest[c]))] \in [Committers -> Seq(Txs)]
             /\ Head(rest[c]) \in Txs
  <2>1. Head(rest[c]) \in Txs /\ Tail(rest[c]) \in Seq(Txs)
    BY <1>4, ElementsTail
  <2>2. Append(chosen[c], Head(rest[c])) \in Seq(Txs)
    BY <2>1, ElementsAppend
  <2> QED
    BY <2>1, <2>2
<1>5. CASE ValidateQueued
  <2>1. /\ rest[Worker] # << >> /\ rest' = [rest EXCEPT ![Worker] = Tail(@)]
        /\ UNCHANGED <<chain, current, reading, pc, number>>
        /\ \/ chosen' = [chosen EXCEPT ![Worker] = Append(@, Head(rest[Worker]))] /\ invalid' = invalid
           \/ invalid' = invalid \cup {Head(rest[Worker])} /\ chosen' = chosen
    BY <1>5 DEF ValidateQueued
  <2> QED
    BY <1>0, <1>4, <2>1
<1>6. CASE RemoveInvalid
  BY <1>0, <1>6 DEF RemoveInvalid
<1>7. CASE GapExceeded
  BY <1>0, <1>1, <1>7 DEF GapExceeded
<1>8. CASE Downloaded
  <2>1. PICK txs \in SeqsUpTo(MaxBlockTxs) : rest' = [rest EXCEPT ![Syncer] = txs]
    BY <1>8 DEF Downloaded
  <2>2. txs \in Seq(Txs)
    <3>1. PICK m \in 0 .. MaxBlockTxs : txs \in [1 .. m -> Txs]
      BY <2>1 DEF SeqsUpTo
    <3>2. m \in Nat
      BY <3>1, PoaNodeAssumption
    <3> QED
      BY <3>1, <3>2
  <2>3. rest' \in [Committers -> Seq(Txs)]
    BY <1>0, <2>1, <2>2
  <2> QED
    BY <1>0, <1>8, <2>3 DEF Downloaded
<1>9. CASE VerifyTransaction
  <2>1. CASE Returns(Syncer)
    BY <1>0, <1>1, <1>9, <2>1 DEF VerifyTransaction
  <2>2. CASE /\ chosen' = [chosen EXCEPT ![Syncer] = Append(@, Head(rest[Syncer]))]
             /\ rest' = [rest EXCEPT ![Syncer] = Tail(@)]
             /\ UNCHANGED <<pc, number>>
    BY <1>0, <1>4, <1>9, <2>2 DEF VerifyTransaction
  <2> QED
    BY <1>9, <2>1, <2>2 DEF VerifyTransaction
<1>10. CASE VerifiedBody
  BY <1>0, <1>10 DEF VerifiedBody
<1>11. ASSUME NEW c \in Committers, CommitBlock(c) PROVE NodeTypes'
  BY <1>11, ElementsAppend DEF CommitBlock
<1>12. ASSUME NEW c \in Committers, CommitRefused(c) PROVE NodeTypes'
  <2>1. UNCHANGED <<chain, current, reading, invalid>>
        /\ (Returns(c) \/ (Goes(c, "remove") /\ UNCHANGED <<number, rest, chosen>>))
    BY <1>12 DEF CommitRefused
  <2> QED
    BY <1>1, <2>1
<1>13. ASSUME NEW c \in Committers, UpdateCurrent(c) PROVE NodeTypes'
  BY <1>0, <1>13 DEF UpdateCurrent
<1>14. ASSUME NEW c \in Committers, RemoveCommitted(c) PROVE NodeTypes'
  BY <1>1, <1>14 DEF RemoveCommitted
<1>15. CASE ExecutorRead \/ ExecutorWrite
  BY <1>0, <1>15 DEF ExecutorRead, ExecutorWrite
<1>16. CASE PoolStep \/ UNCHANGED vars
  BY <1>16 DEF PoolStep, vars, nodeVars
<1> QED
  BY <1>2, <1>3, <1>5, <1>6, <1>7, <1>8, <1>9, <1>10, <1>11, <1>12, <1>13, <1>14, <1>15, <1>16
  DEF NodeNext

(* commit_block adds the block's transactions to those on the chain. *)
LEMMA ChainGrows ==
  ASSUME NodeTypes, NEW txs \in Seq(Txs), chain' = Append(chain, txs)
  PROVE  OnChain' = OnChain \cup Elements(txs) /\ Len(chain') = Len(chain) + 1
<1>1. /\ Len(chain') = Len(chain) + 1 /\ Len(chain) \in Nat
      /\ chain'[Len(chain) + 1] = txs
      /\ \A n \in 1 .. Len(chain) : chain'[n] = chain[n]
  BY DEF NodeTypes
<1>2. 1 .. (Len(chain) + 1) = (1 .. Len(chain)) \cup {Len(chain) + 1}
  BY <1>1
<1>3. OnChain' = UNION {Elements(chain'[n]) : n \in 1 .. (Len(chain) + 1)}
  BY <1>1 DEF OnChain
<1>4. {Elements(chain'[n]) : n \in 1 .. (Len(chain) + 1)}
        = {Elements(chain[n]) : n \in 1 .. Len(chain)} \cup {Elements(txs)}
  BY <1>1, <1>2
<1> QED
  BY <1>1, <1>3, <1>4 DEF OnChain

-----------------------------------------------------------------------------
(* A transaction that the chain does not have is in the pool once, and the *)
(* map protects it.                                                        *)
CopyInv == \A tx \in Txs \ OnChain : Protected(tx)

(* The coordinator removes only what is on the chain.  The worker removes  *)
(* besides what it has found invalid: that was in the queue when it cloned *)
(* the queue, and nobody else takes it off, so that its only copy goes     *)
(* with its entry of the map.                                              *)
RemoveInv ==
  /\ at[Syncer] # "idle" => removing[Syncer] \subseteq OnChain
  /\ \A c \in Committers : pc[c] \in {"update", "remove"} => Elements(chosen[c]) \subseteq OnChain
  /\ pc[Worker] \in {"clone", "validate"} => at[Worker] = "idle"
  /\ IF pc[Worker] = "validate"
       THEN (Elements(rest[Worker]) \cup invalid) \ OnChain \subseteq Elements(queue)
       ELSE invalid = {}
  /\ at[Worker] = "retainQueue" => removing[Worker] \ OnChain \subseteq Elements(queue)
  /\ at[Worker] = "retainMap" => \A tx \in removing[Worker] \ OnChain : tx \in map /\ ~ Pending(tx)

(* A block that is still the next one has been validated against the whole *)
(* chain: the chain has not grown since its number was read.               *)
Validated(c) ==
  /\ Elements(chosen[c]) \cap OnChain = {}
  /\ \A tx \in Txs \ OnChain :
       /\ Unique(chosen[c], tx) /\ Unique(rest[c], tx)
       /\ ~ (tx \in Elements(chosen[c]) /\ tx \in Elements(rest[c]))
NumberInv ==
  /\ current <= Len(chain)
  /\ \A n \in reading : n <= Len(chain)
  /\ \A c \in Committers :
       /\ number[c] <= Len(chain) + 1
       /\ number[c] = 0 <=> pc[c] = "idle"
       /\ pc[c] = "idle" => rest[c] = << >>
       /\ pc[c] \in {"idle", "clone"} => chosen[c] = << >>
BlockInv == \A c \in Committers : number[c] = Len(chain) + 1 => Validated(c)

NodeInv ==
  /\ PoolTypes
  /\ NodeTypes
  /\ CopyInv
  /\ RemoveInv
  /\ NumberInv
  /\ BlockInv
  /\ NoTxTwice

LEMMA InitNode == NodeInit => NodeInv
<1> SUFFICES ASSUME NodeInit PROVE NodeInv
  OBVIOUS
<1>0. /\ Elements(<< >>) = {} /\ << >> \in Seq(Txs) /\ << >> \in Seq(Seq(Txs)) /\ Len(<< >>) = 0
      /\ \A tx : Unique(<< >>, tx)
      /\ Worker \in Committers /\ Syncer \in Committers
      /\ Inserters \subseteq Threads /\ Committers \subseteq Threads
  BY PoaNodeAssumption DEF Elements, Unique, Committers, Threads
<1>1. PoolTypes
  BY InitPool DEF NodeInit, PoolInv
<1>2. NodeTypes
  BY <1>0 DEF NodeInit, NodeTypes, NodeLabels
<1>3. CopyInv
  BY <1>0 DEF NodeInit, Init, CopyInv, Protected, Single, Pending, SendsTx
<1>4. RemoveInv
  BY <1>0 DEF NodeInit, Init, RemoveInv
<1>5. NumberInv
  BY <1>0 DEF NodeInit, NumberInv
<1>6. BlockInv
  BY <1>0 DEF NodeInit, BlockInv
<1>7. NoTxTwice
  BY <1>0 DEF NodeInit, NoTxTwice
<1> QED
  BY <1>1, <1>2, <1>3, <1>4, <1>5, <1>6, <1>7 DEF NodeInv

(* The chain changes by commit_block alone. *)
LEMMA ChainSteps ==
  ASSUME NodeTypes, [NodeNext]_vars
  PROVE  /\ chain' = chain \/ \E c \in Committers : CommitBlock(c)
         /\ OnChain \subseteq OnChain'
<1>1. chain' = chain \/ \E c \in Committers : CommitBlock(c)
  BY DEF NodeNext, PoolStep, Work, CloneQueue, ValidateQueued, RemoveInvalid, GapExceeded,
         Downloaded, VerifyTransaction, VerifiedBody, CommitRefused, UpdateCurrent,
         RemoveCommitted, ExecutorRead, ExecutorWrite, vars, nodeVars
<1>2. chain' = chain => OnChain' = OnChain
  BY DEF OnChain
<1>3. ASSUME NEW c \in Committers, CommitBlock(c) PROVE OnChain \subseteq OnChain'
  <2>1. chosen[c] \in Seq(Txs) /\ chain' = Append(chain, chosen[c])
    BY <1>3 DEF CommitBlock, NodeTypes
  <2> QED
    BY <2>1, ChainGrows
<1> QED
  BY <1>1, <1>2, <1>3

LEMMA StepCopy == NodeInv /\ [NodeNext]_vars => CopyInv'
<1> SUFFICES ASSUME NodeInv, [NodeNext]_vars, NEW tx \in Txs, tx \notin OnChain'
             PROVE  Protected(tx)'
  BY DEF CopyInv
<1>1. PoolTypes /\ [Next]_poolVars /\ tx \notin OnChain /\ Protected(tx)
  BY NodePoolStep, ChainSteps DEF NodeInv, CopyInv
<1>2. ASSUME NEW r \in Removers, at[r] = "retainMap", tx \in removing[r] PROVE ~ Pending(tx)
  BY <1>1, <1>2, PoaNodeAssumption DEF NodeInv, RemoveInv
<1> QED
  BY <1>1, <1>2, ProtectedStep

(* How a remover of the node goes on in remove. *)
LEMMA RemoverCases ==
  ASSUME PoolTypes, NodeTypes, [NodeNext]_vars, NEW c \in Committers
  PROVE  \/ at'[c] = at[c] /\ removing'[c] = removing[c]
         \/ /\ at[c] = "idle" /\ at'[c] = "retainQueue"
            /\ \/ c = Worker /\ RemoveInvalid /\ removing'[c] = invalid
               \/ RemoveCommitted(c) /\ removing'[c] = Elements(chosen[c])
         \/ /\ at[c] = "retainQueue" /\ at'[c] = "retainMap" /\ removing'[c] = removing[c]
            /\ RetainQueue(c) /\ UNCHANGED nodeVars
         \/ at[c] = "retainMap" /\ at'[c] = "idle" /\ UNCHANGED nodeVars
<1> DEFINE Goal ==
         \/ at'[c] = at[c] /\ removing'[c] = removing[c]
         \/ /\ at[c] = "idle" /\ at'[c] = "retainQueue"
            /\ \/ c = Worker /\ RemoveInvalid /\ removing'[c] = invalid
               \/ RemoveCommitted(c) /\ removing'[c] = Elements(chosen[c])
         \/ /\ at[c] = "retainQueue" /\ at'[c] = "retainMap" /\ removing'[c] = removing[c]
            /\ RetainQueue(c) /\ UNCHANGED nodeVars
         \/ at[c] = "retainMap" /\ at'[c] = "idle" /\ UNCHANGED nodeVars
<1> SUFFICES Goal
  OBVIOUS
<1>0. /\ Removers = Committers /\ Removers \subseteq Threads /\ Inserters \subseteq Threads
      /\ \A i \in Inserters : i \notin Committers
      /\ removing \in [Committers -> SUBSET Txs]
  BY TxPoolAssumption, PoaNodeAssumption DEF Threads, Committers, PoolTypes
<1>1. ASSUME NEW d \in Committers, NEW txs, CallRemove(d, txs)
      PROVE  IF c = d
               THEN at[c] = "idle" /\ at'[c] = "retainQueue" /\ removing'[c] = txs
               ELSE at'[c] = at[c] /\ removing'[c] = removing[c]
  <2>1. Goto(d, "retainQueue") /\ at[d] = "idle" /\ removing' = [removing EXCEPT ![d] = txs]
    BY <1>1 DEF CallRemove
  <2> QED
    BY <1>0, <2>1, OthersStay
<1>2. CASE RemoveInvalid
  <2>1. Worker \in Committers /\ CallRemove(Worker, invalid)
    BY <1>2 DEF RemoveInvalid, InvalidRemoved, Committers
  <2> QED
    BY <1>1, <1>2, <2>1
<1>3. ASSUME NEW d \in Committers, RemoveCommitted(d) PROVE Goal
  <2>1. CallRemove(d, Elements(chosen[d]))
    BY <1>3 DEF RemoveCommitted
  <2> QED
    BY <1>1, <1>3, <2>1
<1>4. CASE UNCHANGED poolVars
  BY <1>4 DEF poolVars
<1>5. CASE PoolStep
  <2>0. UNCHANGED nodeVars
    BY <1>5 DEF PoolStep
  <2>1. ASSUME NEW i \in Inserters, (\E tx \in Txs : CheckCapacity(i, tx)) \/ InsertGoesOn(i)
        PROVE  at'[c] = at[c] /\ removing'[c] = removing[c]
    <3>1. removing' = removing /\ \E l : Goto(i, l)
      BY <2>1 DEF CheckCapacity, InsertGoesOn, CheckPoolExist, ValidateTransaction, MapInsert,
                  SendToBuffer, OnTxInserted
    <3> QED
      BY <1>0, <3>1, OthersStay
  <2>2. CASE MoveToQueue
    BY <2>2 DEF MoveToQueue
  <2>3. ASSUME NEW r \in Removers, RetainQueue(r) PROVE Goal
    <3>1. at[r] = "retainQueue" /\ removing' = removing /\ Goto(r, "retainMap")
      BY <2>3 DEF RetainQueue
    <3> QED
      BY <1>0, <2>0, <2>3, <3>1, OthersStay
  <2>4. ASSUME NEW r \in Removers, RetainMap(r) PROVE Goal
    <3>1. at[r] = "retainMap" /\ removing' = [removing EXCEPT ![r] = {}] /\ Goto(r, "idle")
      BY <2>4 DEF RetainMap
    <3> QED
      BY <1>0, <2>0, <3>1, OthersStay
  <2> QED
    BY <1>5, <2>1, <2>2, <2>3, <2>4 DEF PoolStep, RemoveStep
<1>6. CASE \/ Work \/ CloneQueue \/ ValidateQueued \/ GapExceeded
           \/ Downloaded \/ VerifyTransaction \/ VerifiedBody
           \/ ExecutorRead \/ ExecutorWrite \/ UNCHANGED vars
  BY <1>4, <1>6 DEF Work, CloneQueue, ValidateQueued, GapExceeded, Downloaded, VerifyTransaction,
                    VerifiedBody, ExecutorRead, ExecutorWrite, vars
<1>7. ASSUME NEW d \in Committers, CommitBlock(d) \/ CommitRefused(d) \/ UpdateCurrent(d)
      PROVE  Goal
  BY <1>4, <1>7 DEF CommitBlock, CommitRefused, UpdateCurrent
<1> QED
  BY <1>2, <1>3, <1>5, <1>6, <1>7 DEF NodeNext

(* How a handler of the node goes on: the cases of its local variables.    *)
Stays(c) == pc'[c] = pc[c] /\ number'[c] = number[c] /\ rest'[c] = rest[c] /\ chosen'[c] = chosen[c]
Begins(c) ==
  /\ pc[c] = "idle" /\ number'[c] = current + 1 /\ chosen'[c] = chosen[c]
  /\ \/ c = Worker /\ pc'[c] = "clone" /\ rest'[c] = rest[c] /\ at[c] = "idle"
     \/ c # Worker /\ pc'[c] = "verify" /\ \A tx : Unique(rest'[c], tx)
Clones(c) ==
  /\ c = Worker /\ pc[c] = "clone" /\ pc'[c] = "validate" /\ number'[c] = number[c]
  /\ rest'[c] = queue /\ chosen'[c] = chosen[c] /\ invalid' = invalid /\ queue' = queue
Checks(c) ==
  /\ pc[c] = IF c = Worker THEN "validate" ELSE "verify"
  /\ pc'[c] = pc[c] /\ number'[c] = number[c]
  /\ rest[c] # << >> /\ rest'[c] = Tail(rest[c])
  /\ \/ MayBeValid(Head(rest[c])) /\ chosen'[c] = Append(chosen[c], Head(rest[c])) /\ invalid' = invalid
     \/ c = Worker /\ chosen'[c] = chosen[c] /\ invalid' = invalid \cup {Head(rest[c])}
Advances(c) ==
  /\ number'[c] = number[c] /\ rest'[c] = rest[c] /\ chosen'[c] = chosen[c]
  /\ \/ pc[c] \in {"validate", "verify"} /\ pc'[c] = "commit"
     \/ CommitBlock(c) /\ pc'[c] = "update"
     \/ pc[c] = "commit" /\ RemovesRefused(c) /\ pc'[c] = "remove"
     \/ pc[c] = "update" /\ pc'[c] = "remove"
Ends(c) == pc'[c] = "idle" /\ number'[c] = 0 /\ rest'[c] = << >> /\ chosen'[c] = << >>
HandlerStep(c) == Stays(c) \/ Begins(c) \/ Clones(c) \/ Checks(c) \/ Advances(c) \/ Ends(c)

LEMMA HandlerCases ==
  ASSUME NodeTypes, [NodeNext]_vars, NEW c \in Committers
  PROVE  HandlerStep(c)
<1>0. /\ pc \in [Committers -> NodeLabels] /\ number \in [Committers -> Nat]
      /\ rest \in [Committers -> Seq(Txs)] /\ chosen \in [Committers -> Seq(Txs)]
      /\ Worker \in Committers /\ Syncer \in Committers /\ Worker # Syncer
      /\ Committers = {Worker, Syncer}
  BY PoaNodeAssumption DEF NodeTypes, Committers
<1> USE DEF Goes
<1>r. ASSUME NEW d \in Committers, Returns(d) PROVE IF c = d THEN Ends(c) ELSE Stays(c)
  BY <1>0, <1>r DEF Returns, Ends, Stays
<1>1. CASE Work
  BY <1>0, <1>1 DEF Work, Begins, Stays, HandlerStep
<1>2. CASE CloneQueue
  BY <1>0, <1>2 DEF CloneQueue, poolVars, Clones, Stays, HandlerStep
<1>3. CASE ValidateQueued
  <2>1. /\ pc[Worker] = "validate" /\ rest[Worker] # << >> /\ rest' = [rest EXCEPT ![Worker] = Tail(@)]
        /\ UNCHANGED <<pc, number>>
        /\ \/ /\ MayBeValid(Head(rest[Worker])) /\ invalid' = invalid
              /\ chosen' = [chosen EXCEPT ![Worker] = Append(@, Head(rest[Worker]))]
           \/ invalid' = invalid \cup {Head(rest[Worker])} /\ chosen' = chosen
    BY <1>3 DEF ValidateQueued, Answers
  <2>2. CASE c = Worker
    BY <1>0, <2>1, <2>2 DEF Checks, HandlerStep
  <2>3. CASE c # Worker
    BY <1>0, <2>1, <2>3 DEF Stays, HandlerStep
  <2> QED
    BY <2>2, <2>3
<1>4. CASE RemoveInvalid
  BY <1>0, <1>4 DEF RemoveInvalid, Advances, Stays, HandlerStep
<1>5. CASE GapExceeded
  BY <1>0, <1>5, <1>r DEF GapExceeded, HandlerStep
<1>6. CASE Downloaded
  <2>1. PICK txs : rest' = [rest EXCEPT ![Syncer] = txs]
                   /\ \A i, j \in 1 .. Len(txs) : txs[i] = txs[j] => i = j
    BY <1>6 DEF Downloaded
  <2>2. \A tx : Unique(txs, tx)
    BY <2>1 DEF Unique
  <2>3. CASE c = Syncer
    BY <1>0, <1>6, <2>1, <2>2, <2>3 DEF Downloaded, Begins, HandlerStep
  <2>4. CASE c # Syncer
    BY <1>0, <1>6, <2>1, <2>4 DEF Downloaded, Stays, HandlerStep
  <2> QED
    BY <2>3, <2>4
<1>7. CASE VerifyTransaction
  <2>1. /\ pc[Syncer] = "verify" /\ rest[Syncer] # << >> /\ invalid' = invalid
        /\ \/ /\ MayBeValid(Head(rest[Syncer])) /\ UNCHANGED <<pc, number>>
              /\ chosen' = [chosen EXCEPT ![Syncer] = Append(@, Head(rest[Syncer]))]
              /\ rest' = [rest EXCEPT ![Syncer] = Tail(@)]
           \/ Returns(Syncer)
    BY <1>7 DEF VerifyTransaction, Answers
  <2>2. CASE Returns(Syncer)
    BY <1>0, <1>r, <2>2 DEF HandlerStep
  <2>3. CASE c = Syncer /\ ~ Returns(Syncer)
    BY <1>0, <2>1, <2>3 DEF Checks, HandlerStep
  <2>4. CASE c # Syncer /\ ~ Returns(Syncer)
    BY <1>0, <2>1, <2>4 DEF Stays, HandlerStep
  <2> QED
    BY <2>2, <2>3, <2>4
<1>8. CASE VerifiedBody
  BY <1>0, <1>8 DEF VerifiedBody, Advances, Stays, HandlerStep
<1>9. ASSUME NEW d \in Committers, CommitBlock(d) PROVE HandlerStep(c)
  <2>1. pc' = [pc EXCEPT ![d] = "update"] /\ UNCHANGED <<number, rest, chosen>>
    BY <1>9 DEF CommitBlock
  <2> QED
    BY <1>0, <1>9, <2>1 DEF Advances, Stays, HandlerStep
<1>10. ASSUME NEW d \in Committers, CommitRefused(d) PROVE HandlerStep(c)
  <2>1. CASE Returns(d)
    BY <1>0, <1>r, <2>1 DEF HandlerStep
  <2>2. CASE ~ Returns(d)
    <3>1. /\ pc[d] = "commit" /\ RemovesRefused(d) /\ pc' = [pc EXCEPT ![d] = "remove"]
          /\ UNCHANGED <<number, rest, chosen>>
      BY <1>10, <2>2 DEF CommitRefused
    <3> QED
      BY <1>0, <3>1 DEF Advances, Stays, HandlerStep
  <2> QED
    BY <2>1, <2>2
<1>11. ASSUME NEW d \in Committers, UpdateCurrent(d) PROVE HandlerStep(c)
  BY <1>0, <1>11 DEF UpdateCurrent, Advances, Stays, HandlerStep
<1>12. ASSUME NEW d \in Committers, RemoveCommitted(d) PROVE HandlerStep(c)
  BY <1>0, <1>12, <1>r DEF RemoveCommitted, HandlerStep
<1>13. CASE PoolStep \/ ExecutorRead \/ ExecutorWrite \/ UNCHANGED vars
  BY <1>13 DEF PoolStep, ExecutorRead, ExecutorWrite, vars, nodeVars, Stays, HandlerStep
<1> QED
  BY <1>1, <1>2, <1>3, <1>4, <1>5, <1>6, <1>7, <1>8, <1>9, <1>10, <1>11, <1>12, <1>13 DEF NodeNext

(* The confirmed number that the node reads is never ahead of the chain,   *)
(* so neither is the number of a block in the making.                      *)
LEMMA StepNumber == NodeInv /\ [NodeNext]_vars => NumberInv'
<1> SUFFICES ASSUME NodeInv, [NodeNext]_vars PROVE NumberInv'
  OBVIOUS
<1>0. /\ NodeTypes /\ current \in Nat /\ reading \subseteq Nat /\ Len(chain) \in Nat
      /\ number \in [Committers -> Nat] /\ NumberInv
      /\ current <= Len(chain) /\ \A n \in reading : n <= Len(chain)
  BY LenIsNat DEF NodeInv, NodeTypes, NumberInv
<1>1. Len(chain') \in Nat /\ Len(chain) <= Len(chain')
  <2>1. ASSUME NEW c \in Committers, CommitBlock(c) PROVE Len(chain') = Len(chain) + 1
    <3>1. chosen[c] \in Seq(Txs) /\ chain' = Append(chain, chosen[c])
      BY <1>0, <2>1 DEF CommitBlock, NodeTypes
    <3> QED
      BY <1>0, <3>1, ChainGrows
  <2> QED
    BY <1>0, <2>1, ChainSteps
<1>2. current' = current \/ current' = Len(chain) \/ current' \in reading
  BY DEF NodeNext, PoolStep, Work, CloneQueue, ValidateQueued, RemoveInvalid, GapExceeded,
         Downloaded, VerifyTransaction, VerifiedBody, CommitBlock, CommitRefused, UpdateCurrent,
         RemoveCommitted, ExecutorRead, ExecutorWrite, vars, nodeVars
<1>3. reading' = reading \/ reading' = {Len(chain)} \/ reading' = {}
  BY DEF NodeNext, PoolStep, Work, CloneQueue, ValidateQueued, RemoveInvalid, GapExceeded,
         Downloaded, VerifyTransaction, VerifiedBody, CommitBlock, CommitRefused, UpdateCurrent,
         RemoveCommitted, ExecutorRead, ExecutorWrite, vars, nodeVars
<1>4. current' <= Len(chain') /\ \A n \in reading' : n <= Len(chain')
  <2>1. current' \in Nat /\ current' <= Len(chain)
    <3>1. CASE current' \in reading
      BY <1>0, <3>1
    <3>2. CASE current' = current \/ current' = Len(chain)
      BY <1>0, <3>2
    <3> QED
      BY <1>2, <3>1, <3>2
  <2>2. \A n \in reading' : n \in Nat /\ n <= Len(chain)
    <3>1. CASE reading' = reading
      BY <1>0, <3>1
    <3>2. CASE reading' = {Len(chain)}
      BY <1>0, <3>2
    <3>3. CASE reading' = {}
      BY <3>3
    <3> QED
      BY <1>3, <3>1, <3>2, <3>3
  <2> QED
    BY <1>0, <1>1, <2>1, <2>2
<1>5. ASSUME NEW c \in Committers
      PROVE  /\ number'[c] <= Len(chain') + 1
             /\ number'[c] = 0 <=> pc'[c] = "idle"
             /\ pc'[c] = "idle" => rest'[c] = << >>
             /\ pc'[c] \in {"idle", "clone"} => chosen'[c] = << >>
  <2>0. /\ number[c] \in Nat /\ number[c] <= Len(chain) + 1 /\ current <= Len(chain)
        /\ number[c] = 0 <=> pc[c] = "idle"
        /\ pc[c] = "idle" => rest[c] = << >>
        /\ pc[c] \in {"idle", "clone"} => chosen[c] = << >>
    BY <1>0 DEF NumberInv
  <2>1. CASE Stays(c)
    BY <1>0, <1>1, <2>0, <2>1 DEF Stays
  <2>2. CASE Begins(c)
    BY <1>0, <1>1, <2>0, <2>2 DEF Begins
  <2>3. CASE Clones(c)
    BY <1>0, <1>1, <2>0, <2>3 DEF Clones
  <2>4. CASE Checks(c)
    <3>1. pc[c] \in {"validate", "verify"}
      BY <2>4 DEF Checks
    <3> QED
      BY <1>0, <1>1, <2>0, <2>4, <3>1 DEF Checks
  <2>5. CASE Advances(c)
    <3>1. pc[c] # "idle" /\ pc'[c] \in {"commit", "update", "remove"}
      BY <2>5 DEF Advances, CommitBlock
    <3> QED
      BY <1>0, <1>1, <2>0, <2>5, <3>1 DEF Advances
  <2>6. CASE Ends(c)
    BY <1>0, <1>1, <2>0, <2>6 DEF Ends
  <2> QED
    BY <1>0, <2>1, <2>2, <2>3, <2>4, <2>5, <2>6, HandlerCases DEF HandlerStep
<1> QED
  BY <1>4, <1>5 DEF NumberInv

(* A block whose number is still the next one stays validated.  When the   *)
(* chain grows no block in the making has the next number any more.        *)
LEMMA StepBlock == NodeInv /\ [NodeNext]_vars => BlockInv'
<1> SUFFICES ASSUME NodeInv, [NodeNext]_vars, NEW c \in Committers, number'[c] = Len(chain') + 1
             PROVE  Validated(c)'
  BY DEF BlockInv
<1>0. /\ NodeTypes /\ Len(chain) \in Nat /\ number \in [Committers -> Nat]
      /\ current \in Nat /\ number[c] \in Nat
      /\ number[c] <= Len(chain) + 1 /\ current <= Len(chain)
      /\ pc[c] = "idle" => rest[c] = << >>
      /\ pc[c] \in {"idle", "clone"} => chosen[c] = << >>
      /\ rest[c] \in Seq(Txs) /\ chosen[c] \in Seq(Txs)
      /\ HandlerStep(c)
  BY LenIsNat, HandlerCases DEF NodeInv, NodeTypes, NumberInv
<1>e. Elements(<< >>) = {} /\ \A tx : Unique(<< >>, tx)
  BY DEF Elements, Unique
<1>1. chain' = chain
  <2>1. ASSUME NEW d \in Committers, CommitBlock(d) PROVE FALSE
    <3>1. chosen[d] \in Seq(Txs) /\ chain' = Append(chain, chosen[d]) /\ number' = number
      BY <1>0, <2>1 DEF CommitBlock, NodeTypes
    <3>2. Len(chain') = Len(chain) + 1
      BY <1>0, <3>1, ChainGrows
    <3> QED
      BY <1>0, <3>1, <3>2
  <2> QED
    BY <1>0, <2>1, ChainSteps
<1>2. OnChain' = OnChain /\ number'[c] = Len(chain) + 1
  BY <1>1 DEF OnChain
<1>3. number'[c] = number[c] => Validated(c)
  BY <1>2 DEF NodeInv, BlockInv
<1>4. CASE Stays(c) \/ Advances(c)
  BY <1>2, <1>3, <1>4 DEF Stays, Advances, Validated
<1>5. CASE Begins(c)
  <2>1. chosen'[c] = << >> /\ \A tx : Unique(rest'[c], tx)
    BY <1>0, <1>5, <1>e DEF Begins
  <2> QED
    BY <2>1, <1>e DEF Validated
<1>6. CASE Clones(c)
  <2>1. chosen'[c] = << >> /\ rest'[c] = queue
    BY <1>0, <1>6 DEF Clones
  <2>2. \A tx \in Txs \ OnChain : Unique(queue, tx)
    BY DEF NodeInv, CopyInv, Protected, Single
  <2> QED
    BY <1>2, <2>1, <2>2, <1>e DEF Validated
<1>7. CASE Checks(c)
  <2>0. Validated(c)
    BY <1>3, <1>7 DEF Checks
  <2> DEFINE tx == Head(rest[c])
  <2>1. /\ rest'[c] = Tail(rest[c]) /\ tx \in Txs /\ Elements(rest[c]) = Elements(rest'[c]) \cup {tx}
        /\ \A t : Unique(rest[c], t) => Unique(rest'[c], t) /\ (tx = t => t \notin Elements(rest'[c]))
    BY <1>0, <1>7, ElementsTail, UniqueTail DEF Checks
  <2>2. CASE chosen'[c] = chosen[c]
    BY <1>2, <2>0, <2>1, <2>2 DEF Validated
  <2>3. CASE tx \notin OnChain /\ chosen'[c] = Append(chosen[c], tx)
    <3>1. Elements(chosen'[c]) = Elements(chosen[c]) \cup {tx}
      BY <1>0, <2>1, <2>3, ElementsAppend
    <3>2. ASSUME NEW t \in Txs \ OnChain PROVE Unique(chosen'[c], t)
      <4>1. tx = t => t \notin Elements(chosen[c])
        BY <2>0, <2>1 DEF Validated
      <4>2. Unique(chosen[c], t)
        BY <2>0 DEF Validated
      <4> HIDE DEF tx
      <4>3. Unique(Append(chosen[c], tx), t)
        BY <1>0, <2>1, <4>1, <4>2, UniqueAppend
      <4> QED
        BY <2>3, <4>3
    <3> HIDE DEF tx
    <3> QED
      BY <1>2, <2>0, <2>1, <2>3, <3>1, <3>2 DEF Validated
  <2> QED
    BY <1>7, <2>2, <2>3 DEF Checks, MayBeValid
<1>8. CASE Ends(c)
  BY <1>0, <1>2, <1>8 DEF Ends
<1> QED
  BY <1>0, <1>4, <1>5, <1>6, <1>7, <1>8 DEF HandlerStep

(* commit_block adds a block without a transaction that the chain has, and *)
(* without one twice.                                                      *)
LEMMA StepTwice == NodeInv /\ [NodeNext]_vars => NoTxTwice'
<1> SUFFICES ASSUME NodeInv, [NodeNext]_vars PROVE NoTxTwice'
  OBVIOUS
<1>0. NodeTypes /\ NoTxTwice /\ chain \in Seq(Seq(Txs)) /\ Len(chain) \in Nat
  BY LenIsNat DEF NodeInv, NodeTypes
<1>3. ASSUME NEW n \in 1 .. Len(chain), NEW m \in 1 .. Len(chain),
             NEW i \in 1 .. Len(chain[n]), NEW j \in 1 .. Len(chain[m]), chain[n][i] = chain[m][j]
      PROVE  n = m /\ i = j
  BY <1>0, <1>3 DEF NoTxTwice
<1>1. CASE chain' = chain
  BY <1>0, <1>1 DEF NoTxTwice
<1>2. ASSUME NEW c \in Committers, CommitBlock(c) PROVE NoTxTwice'
  <2>1. chosen[c] \in Seq(Txs) /\ chain' = Append(chain, chosen[c]) /\ number[c] = Len(chain) + 1
    BY <1>0, <1>2 DEF CommitBlock, IsNext, NodeTypes
  <2>2. Validated(c)
    BY <2>1 DEF NodeInv, BlockInv
  <2>3. /\ Len(chain') = Len(chain) + 1
        /\ chain'[Len(chain) + 1] = chosen[c]
        /\ \A n \in 1 .. Len(chain) : chain'[n] = chain[n]
    BY <1>0, <2>1
  <2>4. ASSUME NEW n \in 1 .. Len(chain), NEW i \in 1 .. Len(chain[n]), NEW j \in 1 .. Len(chosen[c]),
               chain[n][i] = chosen[c][j]
        PROVE  FALSE
    <3>1. chain[n][i] \in OnChain
      BY DEF OnChain, Elements
    <3>2. chosen[c][j] \in Elements(chosen[c])
      BY DEF Elements
    <3> QED
      BY <2>2, <2>4, <3>1, <3>2 DEF Validated
  <2>5. ASSUME NEW i \in 1 .. Len(chosen[c]), NEW j \in 1 .. Len(chosen[c]),
               chosen[c][i] = chosen[c][j]
        PROVE  i = j
    <3>1. chosen[c][i] \in Txs /\ chosen[c][i] \in Elements(chosen[c])
      BY <2>1 DEF Elements
    <3>2. Unique(chosen[c], chosen[c][i])
      BY <2>2, <3>1 DEF Validated
    <3> QED
      BY <2>5, <3>2 DEF Unique
  <2>6. \A n \in 1 .. (Len(chain) + 1) : n \in 1 .. Len(chain) \/ n = Len(chain) + 1
    BY <1>0
  <2>7. ASSUME NEW n \in 1 .. (Len(chain) + 1), NEW m \in 1 .. (Len(chain) + 1),
               NEW i \in 1 .. Len(chain'[n]), NEW j \in 1 .. Len(chain'[m]),
               chain'[n][i] = chain'[m][j]
        PROVE  n = m /\ i = j
    <3>1. CASE n \in 1 .. Len(chain) /\ m \in 1 .. Len(chain)
      <4>1. /\ i \in 1 .. Len(chain[n]) /\ j \in 1 .. Len(chain[m])
            /\ chain[n][i] = chain[m][j]
        BY <2>3, <2>7, <3>1
      <4> QED
        BY <1>3, <3>1, <4>1
    <3>2. CASE n \in 1 .. Len(chain) /\ m = Len(chain) + 1
      BY <2>3, <2>4, <2>7, <3>2
    <3>3. CASE n = Len(chain) + 1 /\ m \in 1 .. Len(chain)
      BY <2>3, <2>4, <2>7, <3>3
    <3>4. CASE n = Len(chain) + 1 /\ m = Len(chain) + 1
      BY <2>3, <2>5, <2>7, <3>4
    <3> QED
      BY <2>6, <3>1, <3>2, <3>3, <3>4
  <2> QED
    BY <2>3, <2>7 DEF NoTxTwice
<1> QED
  BY <1>0, <1>1, <1>2, ChainSteps

(* Removals stay safe: each case of remove hands on what the step before   *)
(* it has established.                                                     *)
LEMMA StepRemove == NodeInv /\ [NodeNext]_vars => RemoveInv'
<1> SUFFICES ASSUME NodeInv, [NodeNext]_vars PROVE RemoveInv'
  OBVIOUS
<1>0. /\ PoolTypes /\ NodeTypes /\ CopyInv /\ RemoveInv /\ NumberInv /\ [Next]_poolVars
      /\ OnChain \subseteq OnChain'
      /\ Worker \in Committers /\ Syncer \in Committers /\ Worker # Syncer
      /\ Removers = {Worker, Syncer}
  BY PoaNodeAssumption, NodePoolStep, ChainSteps DEF NodeInv, Committers
<1>1. at'[Syncer] # "idle" => removing'[Syncer] \subseteq OnChain'
  <2>1. CASE RemoveCommitted(Syncer) /\ removing'[Syncer] = Elements(chosen[Syncer])
    <3>1. pc[Syncer] = "remove"
      BY <2>1 DEF RemoveCommitted
    <3> QED
      BY <1>0, <2>1, <3>1 DEF RemoveInv
  <2>2. CASE /\ removing'[Syncer] = removing[Syncer]
             /\ at'[Syncer] = at[Syncer] \/ at[Syncer] = "retainQueue"
    BY <1>0, <2>2 DEF RemoveInv
  <2> QED
    BY <1>0, <2>1, <2>2, RemoverCases
<1>2. ASSUME NEW c \in Committers, pc'[c] \in {"update", "remove"}
      PROVE  Elements(chosen'[c]) \subseteq OnChain'
  <2>1. CASE Stays(c)
    BY <1>0, <1>2, <2>1 DEF Stays, RemoveInv
  <2>2. CASE CommitBlock(c)
    <3>1. chosen[c] \in Seq(Txs) /\ chain' = Append(chain, chosen[c]) /\ chosen' = chosen
      BY <1>0, <2>2 DEF CommitBlock, NodeTypes
    <3> QED
      BY <1>0, <3>1, ChainGrows
  <2>3. CASE pc[c] = "commit" /\ RemovesRefused(c) /\ chosen'[c] = chosen[c]
    <3>1. number[c] \in Nat /\ number[c] # 0 /\ Len(chain) \in Nat
      BY <1>0, <2>3, LenIsNat DEF NumberInv, NodeTypes
    <3>2. number[c] \in 1 .. Len(chain) /\ chain[number[c]] = chosen[c]
      BY <2>3, <3>1 DEF RemovesRefused
    <3>3. Elements(chosen[c]) \subseteq OnChain
      BY <3>2 DEF OnChain
    <3> QED
      BY <1>0, <2>3, <3>3
  <2>4. CASE pc[c] = "update" /\ chosen'[c] = chosen[c]
    BY <1>0, <2>4 DEF RemoveInv
  <2> QED
    BY <1>0, <1>2, <2>1, <2>2, <2>3, <2>4, HandlerCases
    DEF HandlerStep, Begins, Clones, Checks, Advances, Ends
<1>3. ASSUME pc'[Worker] \in {"clone", "validate"} PROVE at'[Worker] = "idle"
  <2>1. \/ pc[Worker] \in {"clone", "validate"} /\ pc'[Worker] \in {"clone", "validate"}
        \/ Begins(Worker) /\ at[Worker] = "idle"
    BY <1>0, <1>3, HandlerCases DEF HandlerStep, Stays, Begins, Clones, Checks, Advances, Ends
  <2>2. at[Worker] = "idle"
    BY <1>0, <2>1 DEF RemoveInv
  <2>3. ~ RemoveInvalid
    BY <1>0, <1>3 DEF RemoveInvalid, Goes, NodeTypes
  <2>4. ~ RemoveCommitted(Worker)
    BY <1>0, <1>3 DEF RemoveCommitted, Returns, Goes, NodeTypes
  <2> QED
    BY <1>0, <2>2, <2>3, <2>4, RemoverCases
(* What the coordinator takes off the queue is on the chain. *)
<1>4. ASSUME NEW tx, tx \notin OnChain PROVE RetainQueue(Syncer) => tx \notin removing[Syncer]
  BY <1>0, <1>4 DEF RetainQueue, RemoveInv
<1>5. IF pc'[Worker] = "validate"
        THEN (Elements(rest'[Worker]) \cup invalid') \ OnChain' \subseteq Elements(queue')
        ELSE invalid' = {}
  <2>1. CASE Clones(Worker)
    <3>1. invalid' = {} /\ rest'[Worker] = queue' /\ pc'[Worker] = "validate"
      BY <1>0, <2>1 DEF Clones, RemoveInv
    <3> QED
      BY <3>1
  <2>2. CASE pc[Worker] # "validate" /\ ~ Clones(Worker)
    <3>1. pc'[Worker] # "validate"
      BY <1>0, <2>2, HandlerCases DEF HandlerStep, Stays, Begins, Checks, Advances, Ends
    <3>2. invalid = {} /\ ~ ValidateQueued
      BY <1>0, <2>2 DEF RemoveInv, ValidateQueued
    <3>3. invalid' = {}
      BY <3>2 DEF NodeNext, PoolStep, Work, CloneQueue, RemoveInvalid, GapExceeded,
         Downloaded, VerifyTransaction, VerifiedBody, CommitBlock, CommitRefused, UpdateCurrent,
         RemoveCommitted, ExecutorRead, ExecutorWrite, vars, nodeVars
    <3> QED
      BY <3>1, <3>3
  <2>3. CASE pc[Worker] = "validate" /\ pc'[Worker] # "validate"
    <3>1. RemoveInvalid
      <4>1. ~ Stays(Worker) /\ ~ Checks(Worker)
        BY <2>3 DEF Stays, Checks
      <4> USE DEF Goes
      <4>2. ~ ValidateQueued /\ ~ VerifiedBody /\ ~ VerifyTransaction /\ ~ Downloaded
        BY <1>0, <2>3 DEF ValidateQueued, VerifiedBody, VerifyTransaction, Downloaded, Returns, NodeTypes
      <4>3. ~ Work /\ ~ CloneQueue /\ ~ GapExceeded
        BY <1>0, <2>3 DEF Work, CloneQueue, GapExceeded
      <4>4. \A c \in Committers : ~ (CommitBlock(c) \/ CommitRefused(c) \/ UpdateCurrent(c) \/ RemoveCommitted(c))
        BY <1>0, <2>3 DEF CommitBlock, CommitRefused, UpdateCurrent, RemoveCommitted, Returns, NodeTypes
      <4>5. ~ PoolStep /\ ~ ExecutorRead /\ ~ ExecutorWrite /\ ~ UNCHANGED vars
        BY <2>3 DEF PoolStep, ExecutorRead, ExecutorWrite, vars, nodeVars
      <4> QED
        BY <4>2, <4>3, <4>4, <4>5 DEF NodeNext
    <3> QED
      BY <2>3, <3>1 DEF RemoveInvalid
  <2>4. CASE pc[Worker] = "validate" /\ pc'[Worker] = "validate"
    <3>1. (Elements(rest[Worker]) \cup invalid) \ OnChain \subseteq Elements(queue)
      BY <1>0, <2>4 DEF RemoveInv
    <3>2. Elements(rest'[Worker]) \cup invalid' \subseteq Elements(rest[Worker]) \cup invalid
      <4>1. CASE ValidateQueued
        <5>1. rest[Worker] # << >> /\ rest'[Worker] = Tail(rest[Worker]) /\ rest[Worker] \in Seq(Txs)
              /\ (invalid' = invalid \/ invalid' = invalid \cup {Head(rest[Worker])})
          BY <1>0, <4>1 DEF ValidateQueued, NodeTypes
        <5>2. Elements(rest[Worker]) = Elements(rest'[Worker]) \cup {Head(rest[Worker])}
          BY <5>1, ElementsTail
        <5> QED
          BY <5>1, <5>2
      <4>2. CASE ~ ValidateQueued
        <5>1. invalid' = invalid \/ invalid' = {}
          BY <4>2 DEF NodeNext, PoolStep, Work, CloneQueue, RemoveInvalid, GapExceeded,
             Downloaded, VerifyTransaction, VerifiedBody, CommitBlock, CommitRefused, UpdateCurrent,
             RemoveCommitted, ExecutorRead, ExecutorWrite, vars, nodeVars
        <5>2. Stays(Worker) \/ Checks(Worker)
          BY <1>0, <2>4, HandlerCases DEF HandlerStep, Begins, Clones, Advances, CommitBlock, Ends
        <5>3. rest'[Worker] = rest[Worker] \/ (rest[Worker] # << >> /\ rest'[Worker] = Tail(rest[Worker]))
          BY <5>2 DEF Stays, Checks
        <5>4. Elements(rest'[Worker]) \subseteq Elements(rest[Worker])
          BY <1>0, <5>3, ElementsTail DEF NodeTypes
        <5> QED
          BY <5>1, <5>4
      <4> QED
        BY <4>1, <4>2
    <3>3. ASSUME NEW tx \in Elements(queue), tx \notin OnChain PROVE tx \in Elements(queue')
      <4>1. ~ RetainQueue(Worker)
        BY <1>0, <2>4 DEF RemoveInv, RetainQueue
      <4> QED
        BY <1>0, <1>4, <3>3, <4>1, QueuedStep
    <3> QED
      BY <1>0, <2>4, <3>1, <3>2, <3>3
  <2> QED
    BY <2>1, <2>2, <2>3, <2>4
<1>6. ASSUME at'[Worker] = "retainQueue", NEW tx \in removing'[Worker], tx \notin OnChain'
      PROVE  tx \in Elements(queue')
  <2>0. tx \notin OnChain
    BY <1>0, <1>6
  <2>1. CASE at[Worker] = "retainQueue" /\ removing'[Worker] = removing[Worker]
    <3>1. ~ RetainQueue(Worker)
      BY <1>0, <1>6, OthersStay DEF RetainQueue, Threads
    <3>2. tx \in Elements(queue)
      BY <1>0, <1>6, <2>0, <2>1 DEF RemoveInv
    <3> QED
      BY <1>0, <1>4, <2>0, <3>1, <3>2, QueuedStep
  <2>2. CASE RemoveInvalid /\ removing'[Worker] = invalid
    <3>1. pc[Worker] = "validate" /\ queue' = queue
      BY <2>2 DEF RemoveInvalid, CallRemove
    <3> QED
      BY <1>0, <1>6, <2>0, <2>2, <3>1 DEF RemoveInv
  <2>3. CASE RemoveCommitted(Worker) /\ removing'[Worker] = Elements(chosen[Worker])
    <3>1. pc[Worker] = "remove"
      BY <2>3 DEF RemoveCommitted
    <3> QED
      BY <1>0, <1>6, <2>0, <2>3, <3>1 DEF RemoveInv
  <2> QED
    BY <1>0, <1>6, <2>1, <2>2, <2>3, RemoverCases
<1>7. ASSUME at'[Worker] = "retainMap", NEW tx \in removing'[Worker], tx \notin OnChain'
      PROVE  tx \in map' /\ ~ Pending(tx)'
  <2>0. tx \notin OnChain
    BY <1>0, <1>7
  <2>1. CASE at[Worker] = "retainMap" /\ removing'[Worker] = removing[Worker]
    <3>1. ~ RetainMap(Worker)
      BY <1>0, <1>7, OthersStay DEF RetainMap, Threads
    <3>2. RetainMap(Syncer) => tx \notin removing[Syncer]
      BY <1>0, <2>0 DEF RetainMap, RemoveInv
    <3>3. tx \in map /\ ~ Pending(tx) /\ tx \in Txs
      BY <1>0, <1>7, <2>0, <2>1 DEF RemoveInv, PoolTypes
    <3> QED
      BY <1>0, <3>1, <3>2, <3>3, MappedStep, AbsentStep
  <2>2. CASE at[Worker] = "retainQueue" /\ removing'[Worker] = removing[Worker] /\ RetainQueue(Worker)
    <3>1. tx \in Elements(queue) /\ tx \in removing[Worker] /\ tx \in Txs
      BY <1>0, <1>7, <2>0, <2>2 DEF RemoveInv, PoolTypes
    <3>2. Protected(tx)
      BY <1>0, <2>0, <3>1 DEF CopyInv
    <3>3. /\ tx \in map /\ tx \notin Elements(buffer)
          /\ \A i \in Inserters : ~ SendsTx(i, tx)
      BY <3>1, <3>2 DEF Protected, Pending, Single
    <3>4. /\ queue' = Retained(queue, removing[Worker]) /\ UNCHANGED <<map, buffer, arg>>
          /\ Goto(Worker, "retainMap")
      BY <2>2 DEF RetainQueue
    <3>5. tx \notin Elements(queue')
      BY <1>0, <3>1, <3>4, RetainedElements DEF PoolTypes
    <3>6. \A i \in Inserters : ~ SendsTx(i, tx)'
      BY <1>0, <3>3, <3>4, OthersStay, TxPoolAssumption DEF SendsTx, Threads
    <3> QED
      BY <3>3, <3>4, <3>5, <3>6 DEF Pending
  <2> QED
    BY <1>0, <1>7, <2>1, <2>2, RemoverCases
<1> QED
  BY <1>1, <1>2, <1>3, <1>5, <1>6, <1>7 DEF RemoveInv

LEMMA StepNode == NodeInv /\ [NodeNext]_vars => NodeInv'
<1> SUFFICES ASSUME NodeInv, [NodeNext]_vars PROVE NodeInv'
  OBVIOUS
<1>1. PoolTypes' /\ NodeTypes'
  BY NodePoolStep, StepTypes, StepNodeTypes DEF NodeInv
<1> QED
  BY <1>1, StepCopy, StepRemove, StepNumber, StepBlock, StepTwice DEF NodeInv

(* No transaction is committed twice: neither a block in the making that   *)
(* the chain overtakes, nor a confirmed number that was set back, nor a    *)
(* second copy in the queue brings one in.                                 *)
THEOREM NeverTwice == NodeSpec => []NoTxTwice
<1>1. NodeInv => NoTxTwice
  BY DEF NodeInv
<1> QED
  BY <1>1, InitNode, StepNode, PTL DEF NodeSpec

(* The node keeps to the interface of the pool, so that what holds of the  *)
(* pool under any removals holds of it under the node's.                   *)
THEOREM NodeUsesPool == NodeSpec => Spec
<1>1. NodeInv /\ [NodeNext]_vars => [Next]_poolVars
  BY NodePoolStep DEF NodeInv
<1>2. NodeInit => Init
  BY DEF NodeInit
<1> QED
  BY <1>1, <1>2, InitNode, StepNode, PTL DEF NodeSpec, Spec

LEMMA AtMostOne ==
  ASSUME NEW S, \A x, y \in S : x = y
  PROVE  (S = {} /\ Cardinality(S) = 0) \/ (S # {} /\ Cardinality(S) = 1)
<1>1. CASE S = {}
  BY <1>1, FS_EmptySet
<1>2. CASE S # {}
  <2>1. PICK x \in S : TRUE
    BY <1>2
  <2>2. S = {x}
    BY <2>1
  <2>3. Cardinality({x}) = 1
    BY FS_Singleton
  <2> QED
    BY <1>2, <2>2, <2>3
<1> QED
  BY <1>1, <1>2

(* A second copy of a transaction, in the queue or on its way to it, is of *)
(* a transaction that the chain has: prepare_block refuses it.             *)
THEOREM CopiesCommitted == NodeSpec => []CopiesAreOnChain
<1>1. NodeInv => CopiesAreOnChain
  <2> SUFFICES ASSUME NodeInv, NEW tx \in Txs, tx \notin OnChain PROVE ~ (Copies(tx) > 1)
    BY DEF CopiesAreOnChain
  <2> DEFINE Q == {i \in 1 .. Len(queue) : queue[i] = tx}
             B == {i \in 1 .. Len(buffer) : buffer[i] = tx}
             I == {i \in Inserters : at[i] = "send" /\ arg[i] = tx}
  <2>1. Single(tx)
    BY DEF NodeInv, CopyInv, Protected
  <2>2. /\ \A x, y \in Q : x = y
        /\ \A x, y \in B : x = y
        /\ \A x, y \in I : x = y
    BY <2>1 DEF Single, Unique, SendsTx
  <2>3. (Q = {} \/ B = {}) /\ (Q = {} \/ I = {}) /\ (B = {} \/ I = {})
    BY <2>1 DEF Single, SendsTx, Elements
  <2>4. Copies(tx) = Cardinality(Q) + Cardinality(B) + Cardinality(I)
    BY DEF Copies
  <2> HIDE DEF Q, B, I
  <2>5. /\ (Q = {} /\ Cardinality(Q) = 0) \/ (Q # {} /\ Cardinality(Q) = 1)
        /\ (B = {} /\ Cardinality(B) = 0) \/ (B # {} /\ Cardinality(B) = 1)
        /\ (I = {} /\ Cardinality(I) = 0) \/ (I # {} /\ Cardinality(I) = 1)
    BY <2>2, AtMostOne
  <2> QED
    BY <2>3, <2>4, <2>5
<1> QED
  BY <1>1, InitNode, StepNode, PTL DEF NodeSpec
=============================================================================

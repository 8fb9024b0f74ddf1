--------------------------- MODULE ExecutorProofs ---------------------------
(***************************************************************************)
(* The safety of the executor, for any users, contracts, balances, nesting *)
(* depth, and any number of transactions and host calls.                   *)
(*                                                                         *)
(* What the properties say of a state between two transactions has to be   *)
(* said of every overlay that a running transaction stacks on it: the      *)
(* transaction's own, and one for each contract call that waits for a      *)
(* nested one. The inductive invariant Inv has three parts. Types: every   *)
(* overlay holds values in range. Accounts: without nested calls, the      *)
(* running transaction's balances differ from the block's by the events of *)
(* the running contract. Funds: no overlay takes from a user who did not   *)
(* send the transaction. A second invariant, Storage, is about what the    *)
(* contracts store: unless a failure has left storage in a deeper level,   *)
(* each running call, and the transaction, and the block, has below it the *)
(* storage that its failure is to restore.                                 *)
(***************************************************************************)
EXTENDS Executor, FiniteLemmas

(* What an overlay holds.  The cell of the meta modules is a bit. *)
Writes == {o \in UNION {[K -> 0..MaxBalance] : K \in SUBSET Key} :
             Meta \in DOMAIN o => o[Meta] \in 0..1}

(* What a member of Writes is, *)
LEMMA WritesElim ==
  ASSUME NEW o \in Writes
  PROVE  /\ DOMAIN o \subseteq Key
         /\ \A k \in DOMAIN o : o[k] \in 0..MaxBalance
         /\ Meta \in DOMAIN o => o[Meta] \in 0..1
         /\ o = [k \in DOMAIN o |-> o[k]]
BY DEF Writes

(* and how to show that an overlay is one. *)
LEMMA WritesIntro ==
  ASSUME NEW K \in SUBSET Key, NEW o, o = [k \in K |-> o[k]],
         \A k \in K : o[k] \in 0..MaxBalance,
         Meta \in K => o[Meta] \in 0..1
  PROVE  o \in Writes
<1>1. DOMAIN o = K
  OBVIOUS
<1>2. o \in [K -> 0..MaxBalance]
  OBVIOUS
<1> QED
  BY <1>1, <1>2 DEF Writes

(* A new ContextState holds nothing. *)
LEMMA EmptyWrites == Empty \in Writes /\ DOMAIN Empty = {}
<1>1. DOMAIN Empty = {}
  BY DEF Empty
<1> QED
  BY <1>1, WritesIntro DEF Empty

(* An overlay on top of another one: its own values hide those below. *)
LEMMA OverFacts ==
  ASSUME NEW f, NEW g
  PROVE  /\ DOMAIN Over(f, g) = DOMAIN f \cup DOMAIN g
         /\ \A k \in DOMAIN f : Over(f, g)[k] = f[k]
         /\ \A k \in DOMAIN g : k \notin DOMAIN f => Over(f, g)[k] = g[k]
BY DEF Over

(* The overlay of one write. *)
LEMMA AtFacts ==
  ASSUME NEW k, NEW v
  PROVE  DOMAIN At(k, v) = {k} /\ At(k, v)[k] = v
BY DEF At

(* Applying one overlay to another gives an overlay. *)
LEMMA OverWrites ==
  ASSUME NEW f \in Writes, NEW g \in Writes
  PROVE  Over(f, g) \in Writes
<1>1. DOMAIN f \cup DOMAIN g \in SUBSET Key
  BY WritesElim
<1>2. \A k \in DOMAIN f \cup DOMAIN g : Over(f, g)[k] \in 0..MaxBalance
  BY WritesElim DEF Over
<1>3. Meta \in DOMAIN f \cup DOMAIN g => Over(f, g)[Meta] \in 0..1
  BY WritesElim DEF Over
<1>4. Over(f, g) = [k \in DOMAIN f \cup DOMAIN g |-> Over(f, g)[k]]
  BY DEF Over
<1> QED
  BY <1>1, <1>2, <1>3, <1>4, WritesIntro

(* A write of a value in range is an overlay. *)
LEMMA AtWrites ==
  ASSUME NEW k \in Key, NEW v \in 0..MaxBalance, k = Meta => v \in 0..1
  PROVE  At(k, v) \in Writes
<1>1. At(k, v) = [j \in {k} |-> At(k, v)[j]] /\ At(k, v)[k] = v
  BY DEF At
<1> QED
  BY <1>1, WritesIntro

(* The keys are different. *)
LEMMA Keys ==
  /\ Meta \in Key
  /\ \A a \in Address : Balance(a) \in Key /\ Balance(a) # Meta
  /\ \A c \in Contract : Data(c) \in Key /\ Code(c) \in Key /\ Data(c) # Meta /\ Code(c) # Meta
  /\ \A a, b \in Address : Balance(a) = Balance(b) => a = b
  /\ \A a \in Address, c \in Contract : Balance(a) # Data(c) /\ Balance(a) # Code(c)
  /\ \A c, d \in Contract : Data(c) # Code(d)
BY DEF Key, Meta, Balance, Data, Code

(* A transfer that is not refused writes the two balances. *)
LEMMA ItemsFacts ==
  ASSUME NEW from \in Address, NEW to \in Address, NEW value \in Nat,
         NEW x \in 0..MaxBalance, NEW y \in 0..MaxBalance, Transferable(from, to, value, x, y)
  PROVE  /\ TransferItems(from, to, value, x, y) \in Writes
         /\ DOMAIN TransferItems(from, to, value, x, y) = {Balance(from), Balance(to)}
         /\ TransferItems(from, to, value, x, y)[Balance(from)] = x - value
         /\ TransferItems(from, to, value, x, y)[Balance(to)] = y + value
<1> DEFINE f == At(Balance(from), x - value)  g == At(Balance(to), y + value)
<1>1. from # to /\ x - value \in 0..MaxBalance /\ y + value \in 0..MaxBalance
  BY ExecutorAssumption DEF Transferable
<1>2. f \in Writes /\ g \in Writes
  BY <1>1, Keys, AtWrites
<1>3. DOMAIN f = {Balance(from)} /\ DOMAIN g = {Balance(to)}
      /\ f[Balance(from)] = x - value /\ g[Balance(to)] = y + value
  BY AtFacts
<1>4. Balance(from) # Balance(to)
  BY <1>1, Keys
<1> HIDE DEF f, g
<1>5. Over(f, g) \in Writes /\ DOMAIN Over(f, g) = {Balance(from), Balance(to)}
      /\ Over(f, g)[Balance(from)] = x - value /\ Over(f, g)[Balance(to)] = y + value
  <2>1. Over(f, g) \in Writes
    BY <1>2, OverWrites
  <2> QED
    BY <2>1, <1>3, <1>4 DEF Over
<1> QED
  BY <1>5 DEF TransferItems, f, g

-----------------------------------------------------------------------------
(* The types. *)

(* The context of a contract, and the call that runs in it. *)
LevelSet == [self : Contract, sender : Address, base : Writes, events : [Address -> Int]]
FrameSet == [code : Contract, pay : Nat, ea : BOOLEAN, before : [Contract -> Nat]]

(* What is meant to be stored, and whether something is left over. *)
Meant == meant \in [Contract -> Nat] /\ leftover \in BOOLEAN

(* The type invariant that is inductive. The overlays hold balances that a u64 can
   hold, the levels outlive the frames that run in them, only the sender of the
   first level is a user, and between transactions nothing is left of the last one. *)
Types ==
  /\ db \in [Key -> 0..MaxBalance] /\ db[Meta] \in 0..1
  /\ buffer \in Writes /\ txBuffer \in Writes
  /\ levels \in Seq(LevelSet) /\ frames \in Seq(FrameSet)
  /\ \A i \in 1..Len(levels) : levels[i].sender \in IF i = 1 THEN User ELSE Contract
  /\ Len(frames) <= Len(levels) /\ Len(levels) <= MaxNestDepth
  /\ frames = <<>> => levels = <<>> /\ txBuffer = Empty
  /\ frames # <<>> => batch = "payload"
  /\ batch \in {"none", "meta", "payload"} /\ payload \in BOOLEAN
  /\ logged \in [Address -> Int] /\ receipts \in [Address -> Int]
  /\ nested \in BOOLEAN
  /\ Meant

(* The levels one by one, *)
LEMMA LevelFacts ==
  ASSUME Types
  PROVE  /\ Len(levels) \in Nat /\ DOMAIN levels = 1..Len(levels)
         /\ \A i \in 1..Len(levels) :
              /\ levels[i] \in LevelSet
              /\ levels[i].self \in Contract /\ levels[i].sender \in Address
              /\ levels[i].base \in Writes /\ levels[i].events \in [Address -> Int]
<1>1. \A i \in 1..Len(levels) : levels[i] \in LevelSet
  BY DEF Types
<1>2. \A l \in LevelSet : /\ l.self \in Contract /\ l.sender \in Address
                          /\ l.base \in Writes /\ l.events \in [Address -> Int]
  BY DEF LevelSet
<1>3. Len(levels) \in Nat /\ DOMAIN levels = 1..Len(levels)
  BY DEF Types
<1> QED
  BY <1>1, <1>2, <1>3

(* and the frames. *)
LEMMA FrameFacts ==
  ASSUME Types
  PROVE  /\ Len(frames) \in Nat /\ DOMAIN frames = 1..Len(frames)
         /\ frames # <<>> <=> Len(frames) >= 1
         /\ \A i \in 1..Len(frames) :
              /\ frames[i] \in FrameSet
              /\ frames[i].pay \in Nat /\ frames[i].ea \in BOOLEAN
              /\ frames[i].before \in [Contract -> Nat]
<1>1. \A i \in 1..Len(frames) : frames[i] \in FrameSet
  BY DEF Types
<1>2. \A f \in FrameSet : /\ f.pay \in Nat /\ f.ea \in BOOLEAN /\ f.before \in [Contract -> Nat]
  BY DEF FrameSet
<1>3. Len(frames) \in Nat /\ DOMAIN frames = 1..Len(frames) /\ (frames # <<>> <=> Len(frames) >= 1)
  BY DEF Types
<1> QED
  BY <1>1, <1>2, <1>3

(* A read of the transaction's context is within range, *)
LEMMA GetType ==
  ASSUME Types
  PROVE  /\ \A k \in Key : Get(k) \in 0..MaxBalance
         /\ Get(Meta) \in 0..1
<1>1. Over(txBuffer, buffer) \in Writes
  BY OverWrites DEF Types
<1> QED
  BY <1>1, WritesElim DEF Types, Get, Stored

(* What level n reads is what the highest level that wrote it has. *)
LEMMA BaseGetFacts ==
  ASSUME Types, NEW n \in 0..Len(levels), NEW k
  PROVE  LET written == {i \in 1..n : k \in DOMAIN levels[i].base}
         IN  \/ written = {} /\ BaseGet(n, k) = Get(k)
             \/ \E i \in written : /\ \A j \in written : j <= i
                                   /\ BaseGet(n, k) = levels[i].base[k]
<1> DEFINE written == {i \in 1..n : k \in DOMAIN levels[i].base}
<1>1. CASE written = {}
  BY <1>1 DEF BaseGet
<1>2. CASE written # {}
  <2>1. n \in Nat
    BY DEF Types
  <2>2. IsFiniteSet(1..n) /\ written \subseteq 1..n /\ 1..n \subseteq Int
    BY <2>1, FS_Interval
  <2>3. Max(written) \in written /\ \A j \in written : j <= Max(written)
    <3> HIDE DEF written
    <3> QED
      BY <1>2, <2>2, FS_Subset, MaxProperty
  <2> QED
    BY <1>2, <2>3 DEF BaseGet
<1> QED
  BY <1>1, <1>2

(* and so is a read through the levels. *)
LEMMA BaseGetType ==
  ASSUME Types, NEW n \in 0..Len(levels)
  PROVE  \A k \in Key : BaseGet(n, k) \in 0..MaxBalance
<1> TAKE k \in Key
<1>1. Get(k) \in 0..MaxBalance
  BY GetType
<1>2. \A i \in 1..n : levels[i].base \in Writes
  BY LevelFacts
<1> QED
  BY <1>1, <1>2, BaseGetFacts, WritesElim

(* Events add up to a change for every address. *)
LEMMA EventsType ==
  /\ NoEvents \in [Address -> Int]
  /\ \A e, f \in [Address -> Int] : AddEvents(e, f) \in [Address -> Int]
  /\ \A from, to \in Address, v \in Nat : Transferred(from, to, v) \in [Address -> Int]
BY DEF NoEvents, AddEvents, Transferred

(* A level that is replaced by a level. *)
LEMMA LevelSetTo ==
  ASSUME NEW lv \in Seq(LevelSet), NEW n \in 1..Len(lv), NEW l \in LevelSet
  PROVE  LET r == [lv EXCEPT ![n] = l]
         IN  /\ r \in Seq(LevelSet) /\ Len(r) = Len(lv)
             /\ r[n] = l
             /\ \A i \in 1..Len(lv) : i # n => r[i] = lv[i]
OBVIOUS

(* The updates of a level keep its contract and its sender. *)
LEMMA LevelUpdates ==
  ASSUME NEW l \in LevelSet
  PROVE  /\ \A w \in Writes : LET r == [l EXCEPT !.base = w]
                              IN  /\ r \in LevelSet /\ r.base = w /\ r.events = l.events
                                  /\ r.self = l.self /\ r.sender = l.sender
         /\ \A e \in [Address -> Int] : LET r == [l EXCEPT !.events = e]
                              IN  /\ r \in LevelSet /\ r.base = l.base /\ r.events = e
                                  /\ r.self = l.self /\ r.sender = l.sender
         /\ Drained(l) \in LevelSet /\ Drained(l).base = Empty /\ Drained(l).events = NoEvents
         /\ Drained(l).self = l.self /\ Drained(l).sender = l.sender
         /\ \A inner \in LevelSet : LET r == Absorbed(l, inner)
                              IN  /\ r \in LevelSet /\ r.base = Over(inner.base, l.base)
                                  /\ r.events = AddEvents(l.events, inner.events)
                                  /\ r.self = l.self /\ r.sender = l.sender
<1>1. l.base \in Writes /\ l.events \in [Address -> Int]
  BY DEF LevelSet
<1>2. \A w \in Writes : LET r == [l EXCEPT !.base = w]
                        IN  /\ r \in LevelSet /\ r.base = w /\ r.events = l.events
                            /\ r.self = l.self /\ r.sender = l.sender
  BY DEF LevelSet
<1>3. \A e \in [Address -> Int] : LET r == [l EXCEPT !.events = e]
                        IN  /\ r \in LevelSet /\ r.base = l.base /\ r.events = e
                            /\ r.self = l.self /\ r.sender = l.sender
  BY DEF LevelSet
<1>4. /\ Drained(l) \in LevelSet /\ Drained(l).base = Empty /\ Drained(l).events = NoEvents
      /\ Drained(l).self = l.self /\ Drained(l).sender = l.sender
  BY EmptyWrites, EventsType DEF LevelSet, Drained
<1>5. ASSUME NEW inner \in LevelSet
      PROVE  LET r == Absorbed(l, inner)
             IN  /\ r \in LevelSet /\ r.base = Over(inner.base, l.base)
                 /\ r.events = AddEvents(l.events, inner.events)
                 /\ r.self = l.self /\ r.sender = l.sender
  <2>1. Over(inner.base, l.base) \in Writes /\ AddEvents(l.events, inner.events) \in [Address -> Int]
    BY <1>1, OverWrites, EventsType DEF LevelSet
  <2> QED
    BY <2>1 DEF LevelSet, Absorbed
<1> QED
  BY <1>2, <1>3, <1>4, <1>5

-----------------------------------------------------------------------------
(* What the host calls do to the levels. *)

(* The running contract has a level. *)
LEMMA RunningFacts ==
  ASSUME Types, frames # <<>>
  PROVE  /\ Depth \in 1..Len(levels) /\ Depth = Len(frames) /\ Depth \in 1..Len(frames)
         /\ Running = levels[Depth] /\ Running \in LevelSet
         /\ Running.self \in Contract /\ Running.self \in Address
         /\ Running.sender \in Address
         /\ batch = "payload"
<1>1. Depth \in 1..Len(levels) /\ Depth = Len(frames) /\ Depth \in 1..Len(frames)
  BY LevelFacts, FrameFacts DEF Depth, Types
<1> QED
  BY <1>1, LevelFacts DEF Running, Types, Address

(* A level that still belongs to the same call. *)
Unmoved(i) == /\ levels'[i].self = levels[i].self /\ levels'[i].sender = levels[i].sender

(* module_balance_transfer writes the two balances into the base of the running
   contract's level, which is the level below or the transaction's overlay, and
   adds its event to the running level. *)
LEMMA Moved ==
  ASSUME Types, frames # <<>>, NEW from \in Address, NEW to \in Address, NEW value \in Nat,
         MoveFunds(from, to, value)
  PROVE  \E x \in 0..MaxBalance, y \in 0..MaxBalance :
         LET items == TransferItems(from, to, value, x, y)
         IN  /\ x = BaseGet(Depth, Balance(from)) /\ y = BaseGet(Depth, Balance(to))
             /\ Transferable(from, to, value, x, y)
             /\ items \in Writes
             /\ levels' \in Seq(LevelSet) /\ Len(levels') = Len(levels)
             /\ \A i \in 1..Len(levels) : Unmoved(i)
             /\ \A i \in 1..Len(levels) : i # Depth => levels'[i].events = levels[i].events
             /\ levels'[Depth].events = AddEvents(levels[Depth].events, Transferred(from, to, value))
             /\ \A i \in 1..Len(levels) : i # Depth - 1 => levels'[i].base = levels[i].base
             /\ Depth > 1 => /\ levels'[Depth - 1].base = Over(items, levels[Depth - 1].base)
                             /\ txBuffer' = txBuffer
             /\ Depth = 1 => txBuffer' = Over(items, txBuffer)
<1> DEFINE x == BaseGet(Depth, Balance(from))
           y == BaseGet(Depth, Balance(to))
           items == TransferItems(from, to, value, x, y)
           e == AddEvents(levels[Depth].events, Transferred(from, to, value))
           lv == [levels EXCEPT ![Depth].events = e]
<1>1. Depth \in 1..Len(levels) /\ Len(levels) \in Nat /\ levels \in Seq(LevelSet)
  BY RunningFacts, LevelFacts DEF Types
<1>2. x \in 0..MaxBalance /\ y \in 0..MaxBalance
  BY <1>1, BaseGetType, Keys
<1>3. Transferable(from, to, value, x, y) /\ Apply(Depth, lv, items)
  BY DEF MoveFunds
<1>4. items \in Writes
  BY <1>2, <1>3, ItemsFacts
<1>5. e \in [Address -> Int]
  BY <1>1, EventsType, LevelFacts
<1>6. levels[Depth] \in LevelSet
  BY <1>1
<1> DEFINE l == [levels[Depth] EXCEPT !.events = e]
<1>7. /\ l \in LevelSet /\ l.base = levels[Depth].base /\ l.events = e
      /\ l.self = levels[Depth].self /\ l.sender = levels[Depth].sender
  BY <1>5, <1>6, LevelUpdates
<1>8. lv = [levels EXCEPT ![Depth] = l]
  BY <1>1
<1> HIDE DEF x, y, items, e, l
<1>9. /\ lv \in Seq(LevelSet) /\ Len(lv) = Len(levels) /\ lv[Depth] = l
      /\ \A i \in 1..Len(levels) : i # Depth => lv[i] = levels[i]
  BY <1>1, <1>7, <1>8, LevelSetTo
<1> HIDE DEF lv
<1>10. CASE Depth = 1
  <2>1. levels' = lv /\ txBuffer' = Over(items, txBuffer)
    BY <1>3, <1>10 DEF Apply
  <2> QED
    BY <1>1, <1>2, <1>3, <1>4, <1>7, <1>9, <1>10, <2>1 DEF Unmoved, x, y, items, e
<1>11. CASE Depth > 1
  <2>0. Depth - 1 \in 1..Len(levels) /\ lv[Depth - 1] = levels[Depth - 1]
    BY <1>1, <1>9, <1>11
  <2> DEFINE w == Over(items, levels[Depth - 1].base)
             k == [levels[Depth - 1] EXCEPT !.base = w]
  <2>1. txBuffer' = txBuffer /\ levels' = [lv EXCEPT ![Depth - 1] = k]
    BY <1>3, <1>9, <1>11, <2>0 DEF Apply
  <2>2. w \in Writes
    BY <2>0, <1>4, OverWrites, LevelFacts
  <2>3. /\ k \in LevelSet /\ k.base = w /\ k.events = levels[Depth - 1].events
        /\ k.self = levels[Depth - 1].self /\ k.sender = levels[Depth - 1].sender
    <3>1. levels[Depth - 1] \in LevelSet
      BY <2>0, LevelFacts
    <3> QED
      BY <3>1, <2>2, LevelUpdates
  <2> HIDE DEF k, w
  <2>4. /\ levels' \in Seq(LevelSet) /\ Len(levels') = Len(lv) /\ levels'[Depth - 1] = k
        /\ \A i \in 1..Len(lv) : i # Depth - 1 => levels'[i] = lv[i]
    BY <2>0, <2>1, <2>3, <1>9, LevelSetTo
  <2>5. levels'[Depth] = l
    BY <2>4, <1>1, <1>9
  <2>6. \A i \in 1..Len(levels) : Unmoved(i)
    BY <2>3, <2>4, <2>5, <1>7, <1>9 DEF Unmoved
  <2>7. \A i \in 1..Len(levels) : i # Depth => levels'[i].events = levels[i].events
    BY <2>3, <2>4, <2>5, <1>7, <1>9
  <2>8. \A i \in 1..Len(levels) : i # Depth - 1 => levels'[i].base = levels[i].base
    BY <2>3, <2>4, <2>5, <1>7, <1>9
  <2>9. levels'[Depth - 1].base = w /\ levels'[Depth].events = e
    BY <2>3, <2>4, <2>5, <1>7
  <2>10. Len(levels') = Len(levels)
    BY <2>4, <1>9
  <2> QED
    BY <1>2, <1>3, <1>4, <1>11, <2>1, <2>4, <2>6, <2>7, <2>8, <2>9, <2>10 DEF x, y, items, e, w
<1> QED
  BY <1>1, <1>10, <1>11

(* An error ends the transaction, or the nearest error-aware call. *)
LEMMA Unwound ==
  ASSUME Types, frames # <<>>, Unwind
  PROVE  \/ /\ \A n \in 2..Depth : ~ frames[n].ea
            /\ meant' = frames[1].before /\ leftover' = leftover
            /\ frames' = <<>> /\ levels' = <<>> /\ txBuffer' = Empty
            /\ UNCHANGED <<buffer, logged>>
         \/ \E n \in 2..Depth :
              /\ frames[n].ea /\ \A m \in n + 1..Depth : ~ frames[m].ea
              /\ frames' = SubSeq(frames, 1, n - 1) /\ frames' \in Seq(FrameSet) /\ Len(frames') = n - 1
              /\ \A i \in 1..n - 1 : frames'[i] = frames[i]
              /\ levels' \in Seq(LevelSet) /\ Len(levels') = Len(levels)
              /\ \A i \in 1..Len(levels) : i # n => levels'[i] = levels[i]
              /\ levels'[n] = Drained(levels[n])
              /\ UNCHANGED <<txBuffer, buffer, logged>>
              /\ meant' = frames[n].before
              /\ leftover' = (leftover \/ StoredAbove(n))
<1> DEFINE aware == {n \in 2..Depth : frames[n].ea}
           n == Max(aware)
<1>1. Depth \in 1..Len(levels) /\ Depth = Len(frames) /\ levels \in Seq(LevelSet) /\ Len(levels) \in Nat
      /\ frames \in Seq(FrameSet)
  BY RunningFacts, LevelFacts DEF Types
<1>2. CASE aware = {}
  <2>1. SubSeq(frames, 1, 0) = <<>>
    BY <1>1
  <2>2. Undo(1) /\ levels' = <<>> /\ Refuse /\ leftover' = leftover
    BY <1>2 DEF Unwind
  <2>3. \A i \in 2..Depth : ~ frames[i].ea
    BY <1>2
  <2>4. meant' = frames[1].before /\ frames' = <<>>
    BY <2>1, <2>2 DEF Undo
  <2> HIDE DEF aware, n
  <2> QED
    BY <2>2, <2>3, <2>4 DEF Refuse
<1>3. CASE aware # {}
  <2>1. IsFiniteSet(2..Depth) /\ aware \subseteq 2..Depth /\ 2..Depth \subseteq Int
    BY <1>1, FS_Interval
  <2>2. n \in aware /\ \A m \in aware : m <= n
    <3> HIDE DEF aware
    <3> QED
      BY <1>3, <2>1, FS_Subset, MaxProperty
  <2>3. /\ frames' = SubSeq(frames, 1, n - 1)
        /\ levels' = [levels EXCEPT ![n] = Drained(levels[n])]
        /\ UNCHANGED <<txBuffer, buffer, logged>>
        /\ meant' = frames[n].before
        /\ leftover' = (leftover \/ StoredAbove(n))
    BY <1>3 DEF Unwind, Undo
  <2>4. n \in 2..Depth /\ frames[n].ea /\ \A m \in n + 1..Depth : ~ frames[m].ea
    <3> HIDE DEF n
    <3>1. n \in 2..Depth /\ frames[n].ea
      BY <2>2
    <3>2. ASSUME NEW m \in n + 1..Depth, frames[m].ea PROVE FALSE
      <4>1. m \in 2..Depth /\ m > n
        BY <1>1, <3>1
      <4>2. m \in aware
        BY <4>1, <3>2
      <4> QED
        BY <4>1, <4>2, <3>1, <2>2
    <3> QED
      BY <3>1, <3>2
  <2> HIDE DEF n, aware
  <2>5. /\ levels' \in Seq(LevelSet) /\ Len(levels') = Len(levels)
        /\ \A i \in 1..Len(levels) : i # n => levels'[i] = levels[i]
        /\ levels'[n] = Drained(levels[n])
    <3>1. n \in 1..Len(levels) /\ levels[n] \in LevelSet
      BY <1>1, <2>4
    <3>2. Drained(levels[n]) \in LevelSet
      BY <3>1, LevelUpdates
    <3> QED
      BY <3>1, <3>2, <2>3, <1>1, LevelSetTo
  <2>6. /\ frames' \in Seq(FrameSet) /\ Len(frames') = n - 1
        /\ \A i \in 1..n - 1 : frames'[i] = frames[i]
    BY <1>1, <2>3, <2>4
  <2> QED
    BY <2>3, <2>4, <2>5, <2>6
<1> QED
  BY <1>2, <1>3

-----------------------------------------------------------------------------
(* Every step keeps the types. *)

(* The end of a transaction that succeeds. *)
LEMMA AcceptTypes ==
  ASSUME Types, NEW items \in Writes, NEW events \in [Address -> Int], Accept(items, events)
  PROVE  buffer' \in Writes /\ txBuffer' \in Writes /\ txBuffer' = Empty /\ logged' \in [Address -> Int]
<1>1. Over(Over(items, txBuffer), buffer) \in Writes
  BY OverWrites DEF Types
<1> QED
  BY <1>1, EmptyWrites, EventsType DEF Accept, Types

(* A call that is pushed on the running ones. *)
LEMMA Pushed ==
  ASSUME NEW S, NEW s \in Seq(S), NEW x \in S
  PROVE  Append(s, x) \in Seq(S) /\ Len(Append(s, x)) = Len(s) + 1 /\ Append(s, x) # <<>>
<1>1. Append(s, x) \in Seq(S) /\ Len(Append(s, x)) = Len(s) + 1 /\ Len(s) \in Nat
  OBVIOUS
<1>2. Len(<<>>) = 0
  OBVIOUS
<1> QED
  BY <1>1, <1>2

(* A sequence of one element. *)
LEMMA OneElement ==
  ASSUME NEW S, NEW x \in S
  PROVE  <<x>> \in Seq(S) /\ Len(<<x>>) = 1 /\ <<x>>[1] = x /\ <<x>> # <<>>
OBVIOUS

(* The first level and its frame. *)
LEMMA FirstLevel ==
  ASSUME Types, NEW c \in Contract, NEW sender \in User, NEW pay \in Nat,
         levels' = <<Level(c, sender)>>, frames' = <<Frame(c, pay, FALSE)>>
  PROVE  /\ levels' \in Seq(LevelSet) /\ Len(levels') = 1
         /\ levels'[1].base = Empty /\ levels'[1].events = NoEvents /\ levels'[1].sender = sender
         /\ frames' \in Seq(FrameSet) /\ Len(frames') = 1 /\ frames' # <<>>
<1>1. Level(c, sender) \in LevelSet
  BY EmptyWrites, EventsType DEF Level, LevelSet, Address
<1>2. Frame(c, pay, FALSE) \in FrameSet
  BY DEF Frame, FrameSet, Types, Meant
<1>3. /\ Level(c, sender).base = Empty /\ Level(c, sender).events = NoEvents
      /\ Level(c, sender).sender = sender
  BY DEF Level
<1>4. levels' \in Seq(LevelSet) /\ Len(levels') = 1 /\ levels'[1] = Level(c, sender)
  BY <1>1, OneElement
<1>5. frames' \in Seq(FrameSet) /\ Len(frames') = 1 /\ frames' # <<>>
  BY <1>2, OneElement
<1> QED
  BY <1>3, <1>4, <1>5

(* The nested level, the one kept or a new one. *)
LEMMA NestedFacts ==
  ASSUME Types, frames # <<>>, NEW c \in Contract, Len(levels) > Depth \/ Depth < MaxNestDepth
  PROVE  LET lv == NestedLevels(c)
         IN  /\ lv \in Seq(LevelSet) /\ Len(lv) \in Nat
             /\ Len(lv) >= Depth + 1 /\ Len(lv) <= MaxNestDepth /\ Len(lv) >= Len(levels)
             /\ \A i \in 1..Len(levels) : lv[i] = levels[i]
             /\ \A i \in 1..Len(lv) : lv[i].sender \in IF i = 1 THEN User ELSE Contract
             /\ \A i \in 1..Len(lv) : i > Len(levels) => lv[i].base = Empty
<1>1. Depth \in 1..Len(levels) /\ Running.self \in Contract
  BY RunningFacts
<1>2. Len(levels) \in Nat /\ levels \in Seq(LevelSet) /\ Len(levels) <= MaxNestDepth
  BY LevelFacts DEF Types
<1>3. \A i \in 1..Len(levels) : levels[i].sender \in IF i = 1 THEN User ELSE Contract
  BY DEF Types
<1>4. CASE Len(levels) > Depth
  BY <1>1, <1>2, <1>3, <1>4 DEF NestedLevels
<1>5. CASE ~ (Len(levels) > Depth)
  <2> DEFINE l == Level(c, Running.self)
  <2>1. l \in LevelSet /\ l.base = Empty /\ l.sender \in Contract
    BY <1>1, EmptyWrites, EventsType DEF Level, LevelSet, Address
  <2>2. Len(levels) = Depth /\ NestedLevels(c) = Append(levels, l)
    BY <1>1, <1>2, <1>5 DEF NestedLevels
  <2> HIDE DEF l
  <2>3. /\ Append(levels, l) \in Seq(LevelSet) /\ Len(Append(levels, l)) = Len(levels) + 1
        /\ \A i \in 1..Len(levels) : Append(levels, l)[i] = levels[i]
        /\ Append(levels, l)[Len(levels) + 1] = l
    BY <1>2, <2>1
  <2>4. Len(levels) + 1 <= MaxNestDepth /\ MaxNestDepth \in Nat
    BY <1>2, <2>2, <1>5, ExecutorAssumption
  <2>5. ASSUME NEW i \in 1..Len(levels) + 1
        PROVE  /\ Append(levels, l)[i].sender \in IF i = 1 THEN User ELSE Contract
               /\ i > Len(levels) => Append(levels, l)[i].base = Empty
    <3>1. CASE i \in 1..Len(levels)
      BY <3>1, <2>3, <1>2, <1>3
    <3>2. CASE i = Len(levels) + 1
      BY <3>2, <2>1, <2>3, <1>1, <1>2
    <3> QED
      BY <3>1, <3>2, <1>2
  <2> QED
    BY <2>2, <2>3, <2>4, <2>5, <1>2
<1> QED
  BY <1>4, <1>5

(* The end of a nested call. *)
LEMMA Returned ==
  ASSUME Types, NestedReturn
  PROVE  /\ Depth \in 2..Len(levels) /\ Depth = Len(frames) /\ frames # <<>>
         /\ frames' \in Seq(FrameSet) /\ Len(frames') = Depth - 1
         /\ \A i \in 1..Depth - 1 : frames'[i] = frames[i]
         /\ levels' \in Seq(LevelSet) /\ Len(levels') = Len(levels)
         /\ \A i \in 1..Len(levels) : Unmoved(i)
         /\ \A i \in 1..Len(levels) : i # Depth /\ i # Depth - 1 => levels'[i] = levels[i]
         /\ levels'[Depth].base = Empty
         /\ levels'[Depth - 1].base = Over(levels[Depth].base, levels[Depth - 1].base)
<1>1. frames # <<>> /\ Depth > 1
  BY FrameFacts DEF NestedReturn, Depth
<1>2. /\ Depth \in 2..Len(levels) /\ Depth = Len(frames) /\ Depth - 1 \in 1..Len(levels)
      /\ Depth \in 1..Len(levels)
      /\ Len(levels) \in Nat /\ levels \in Seq(LevelSet) /\ frames \in Seq(FrameSet)
  BY <1>1, RunningFacts, LevelFacts DEF Types
<1> DEFINE d == Drained(levels[Depth])
           a == Absorbed(levels[Depth - 1], levels[Depth])
           mid == [levels EXCEPT ![Depth] = d]
<1>3. levels' = [mid EXCEPT ![Depth - 1] = a] /\ frames' = SubSeq(frames, 1, Depth - 1)
  BY <1>2 DEF NestedReturn, Running
<1>4. levels[Depth] \in LevelSet /\ levels[Depth - 1] \in LevelSet
  BY <1>2
<1>5. /\ d \in LevelSet /\ d.base = Empty /\ d.self = levels[Depth].self /\ d.sender = levels[Depth].sender
      /\ a \in LevelSet /\ a.base = Over(levels[Depth].base, levels[Depth - 1].base)
      /\ a.self = levels[Depth - 1].self /\ a.sender = levels[Depth - 1].sender
  BY <1>4, LevelUpdates
<1> HIDE DEF d, a
<1>6. /\ mid \in Seq(LevelSet) /\ Len(mid) = Len(levels) /\ mid[Depth] = d
      /\ \A i \in 1..Len(levels) : i # Depth => mid[i] = levels[i]
  BY <1>2, <1>5, LevelSetTo
<1> HIDE DEF mid
<1>7. /\ levels' \in Seq(LevelSet) /\ Len(levels') = Len(mid) /\ levels'[Depth - 1] = a
      /\ \A i \in 1..Len(mid) : i # Depth - 1 => levels'[i] = mid[i]
  BY <1>2, <1>3, <1>5, <1>6, LevelSetTo
<1>8. levels'[Depth] = d
  BY <1>2, <1>6, <1>7
<1>9. \A i \in 1..Len(levels) : Unmoved(i)
  BY <1>5, <1>6, <1>7, <1>8 DEF Unmoved
<1>10. frames' \in Seq(FrameSet) /\ Len(frames') = Depth - 1 /\ \A i \in 1..Depth - 1 : frames'[i] = frames[i]
  BY <1>2, <1>3
<1> QED
  BY <1>1, <1>2, <1>5, <1>6, <1>7, <1>8, <1>9, <1>10

(* The executor starts with empty overlays. *)
LEMMA TypesInit == Init => Types
<1> SUFFICES ASSUME Init PROVE Types
  OBVIOUS
<1>1. ASSUME NEW k \in Key
      PROVE  /\ db[k] \in 0..MaxBalance
             /\ k = Meta => db[k] = 0
  <2>1. CASE \E a \in Address : k = Balance(a)
    BY <2>1, ExecutorAssumption DEF Init, Balance, Meta
  <2>2. CASE \E c \in Contract : k = Data(c) \/ k = Code(c)
    BY <2>2, ExecutorAssumption DEF Init, Data, Code, Meta
  <2>3. CASE k = Meta
    BY <2>3, ExecutorAssumption DEF Init, Meta
  <2> QED
    BY <2>1, <2>2, <2>3 DEF Key
<1>2. db \in [Key -> 0..MaxBalance] /\ db[Meta] \in 0..1
  <2>1. db = [k \in Key |-> db[k]]
    BY DEF Init
  <2> QED
    BY <1>1, <2>1, Keys
<1>3. levels \in Seq(LevelSet) /\ Len(levels) = 0 /\ frames \in Seq(FrameSet) /\ Len(frames) = 0
  BY DEF Init
<1>4. buffer \in Writes /\ txBuffer \in Writes /\ levels = <<>> /\ frames = <<>> /\ txBuffer = Empty
  BY EmptyWrites DEF Init
<1>5. batch = "none" /\ logged \in [Address -> Int] /\ receipts \in [Address -> Int]
  BY EventsType DEF Init
<1>6. payload \in BOOLEAN /\ nested \in BOOLEAN /\ Meant
  BY DEF Init, Meant
<1> QED
  BY <1>2, <1>3, <1>4, <1>5, <1>6, ExecutorAssumption DEF Types

(* No call runs and none starts. *)
LEMMA IdleTypes ==
  ASSUME Types, Meant', frames = <<>>, UNCHANGED <<levels, frames>>,
         db' \in [Key -> 0..MaxBalance], db'[Meta] \in 0..1, buffer' \in Writes, txBuffer' = Empty,
         batch' \in {"none", "meta", "payload"}, payload' \in BOOLEAN,
         logged' \in [Address -> Int], receipts' \in [Address -> Int], UNCHANGED nested
  PROVE  Types'
<1>1. levels' = levels /\ frames' = frames /\ nested' = nested
  OBVIOUS
<1> QED
  BY <1>1, EmptyWrites DEF Types

(* A call runs on and the levels keep their owners. *)
LEMMA RunTypes ==
  ASSUME Types, Meant', UNCHANGED <<db, buffer, batch, payload, logged, receipts>>,
         txBuffer' \in Writes, levels' \in Seq(LevelSet), frames' \in Seq(FrameSet), nested' \in BOOLEAN,
         \A i \in 1..Len(levels') : levels'[i].sender \in IF i = 1 THEN User ELSE Contract,
         Len(frames') <= Len(levels'), Len(levels') <= MaxNestDepth,
         frames # <<>>, frames' # <<>>
  PROVE  Types'
BY DEF Types

(* A transaction ends. *)
LEMMA EndTypes ==
  ASSUME Types, Meant', UNCHANGED <<db, receipts>>, nested' \in BOOLEAN, payload' \in BOOLEAN,
         buffer' \in Writes, txBuffer' = Empty, levels' = <<>>, frames' = <<>>,
         batch' \in {"none", "meta", "payload"}, logged' \in [Address -> Int]
  PROVE  Types'
<1>1. levels' \in Seq(LevelSet) /\ Len(levels') = 0 /\ frames' \in Seq(FrameSet) /\ Len(frames') = 0
  OBVIOUS
<1> QED
  BY <1>1, EmptyWrites, ExecutorAssumption DEF Types

(* A contract's transfer keeps the types, *)
LEMMA MoveTypes ==
  ASSUME Types, Meant', HostCall, UNCHANGED nested, NEW from \in Address, NEW to \in Address, NEW value \in Nat,
         MoveFunds(from, to, value)
  PROVE  Types'
<1>1. frames # <<>> /\ UNCHANGED <<db, batch, payload, receipts>>
  BY DEF HostCall
<1>2. UNCHANGED <<buffer, frames, logged>>
  BY DEF MoveFunds
<1>3. PICK x \in 0..MaxBalance, y \in 0..MaxBalance :
         LET items == TransferItems(from, to, value, x, y)
         IN  /\ items \in Writes
             /\ levels' \in Seq(LevelSet) /\ Len(levels') = Len(levels)
             /\ \A i \in 1..Len(levels) : Unmoved(i)
             /\ Depth > 1 => txBuffer' = txBuffer
             /\ Depth = 1 => txBuffer' = Over(items, txBuffer)
  BY <1>1, Moved
<1>4. txBuffer' \in Writes
  <2>1. Depth \in 1..Len(levels) /\ Len(levels) \in Nat /\ txBuffer \in Writes
    BY <1>1, RunningFacts, LevelFacts DEF Types
  <2> QED
    BY <1>3, <2>1, OverWrites
<1>5. \A i \in 1..Len(levels') : levels'[i].sender \in IF i = 1 THEN User ELSE Contract
  BY <1>3 DEF Types, Unmoved
<1>6. frames' \in Seq(FrameSet) /\ Len(frames') <= Len(levels') /\ Len(levels') <= MaxNestDepth /\ frames' # <<>>
  BY <1>1, <1>2, <1>3 DEF Types
<1>7. nested' \in BOOLEAN
  BY DEF Types
<1> QED
  BY <1>1, <1>2, <1>3, <1>4, <1>5, <1>6, <1>7, RunTypes

(* and so does a failing call, *)
LEMMA UnwindTypes ==
  ASSUME Types, Meant', HostCall, UNCHANGED nested, Unwind
  PROVE  Types'
<1>1. frames # <<>> /\ UNCHANGED <<db, batch, payload, receipts>> /\ nested' \in BOOLEAN
  BY DEF HostCall, Types
<1>2. CASE /\ frames' = <<>> /\ levels' = <<>> /\ txBuffer' = Empty
           /\ UNCHANGED <<buffer, logged>>
  BY <1>1, <1>2, EndTypes DEF Types
<1>3. ASSUME NEW n \in 2..Depth,
             frames' \in Seq(FrameSet), Len(frames') = n - 1,
             levels' \in Seq(LevelSet), Len(levels') = Len(levels),
             \A i \in 1..Len(levels) : i # n => levels'[i] = levels[i],
             levels'[n] = Drained(levels[n]),
             UNCHANGED <<txBuffer, buffer, logged>>
      PROVE  Types'
  <2>1. Depth \in 1..Len(levels) /\ Len(levels) \in Nat /\ Len(levels) <= MaxNestDepth
    BY <1>1, RunningFacts, LevelFacts DEF Types
  <2>2. n \in 1..Len(levels) /\ levels[n] \in LevelSet
    BY <2>1, LevelFacts
  <2>3. Drained(levels[n]).sender = levels[n].sender
    BY <2>2, LevelUpdates
  <2>4. \A i \in 1..Len(levels') : levels'[i].sender \in IF i = 1 THEN User ELSE Contract
    BY <1>3, <2>3 DEF Types
  <2>5. frames' # <<>> /\ Len(frames') <= Len(levels') /\ Len(levels') <= MaxNestDepth
    BY <1>3, <2>1
  <2> QED
    BY <1>1, <1>3, <2>4, <2>5, RunTypes DEF Types
<1> QED
  BY <1>1, <1>2, <1>3, Unwound

(* a transfer transaction *)
LEMMA TransferTypes ==
  ASSUME Types, Meant', NEW u \in User, NEW to \in Address, NEW v \in Amount, TransferTx(u, to, v)
  PROVE  Types'
<1>1. frames = <<>> /\ batch' = "payload" /\ UNCHANGED <<db, payload, receipts, levels, frames, nested>>
  BY DEF TransferTx, NextTx
<1> DEFINE x == Get(Balance(u))
           y == Get(Balance(to))
<1>2. u \in Address /\ x \in 0..MaxBalance /\ y \in 0..MaxBalance /\ v \in Nat
  BY GetType, Keys, ExecutorAssumption DEF Address
<1>3. buffer' \in Writes /\ txBuffer' = Empty /\ logged' \in [Address -> Int]
  <2>1. CASE Transferable(u, to, v, x, y)
    <3>1. TransferItems(u, to, v, x, y) \in Writes /\ Transferred(u, to, v) \in [Address -> Int]
      BY <1>2, <2>1, ItemsFacts, EventsType
    <3> QED
      BY <2>1, <3>1, AcceptTypes DEF TransferTx
  <2>2. CASE ~ Transferable(u, to, v, x, y)
    BY <2>2 DEF TransferTx, Refuse, Types
  <2> QED
    BY <2>1, <2>2
<1> QED
  BY <1>1, <1>3, IdleTypes DEF Types

(* and a transaction of a meta module. *)
LEMMA MetaTypes ==
  ASSUME Types, Meant', NEW ok \in BOOLEAN, MetaTx(ok)
  PROVE  Types'
<1>1. frames = <<>> /\ batch' = "meta" /\ UNCHANGED <<db, payload, receipts, levels, frames, nested>>
  BY DEF MetaTx, NextTx
<1>2. buffer' \in Writes /\ txBuffer' = Empty /\ logged' \in [Address -> Int]
  <2>1. CASE ok
    <3>1. 1 - Get(Meta) \in 0..1 /\ 1 - Get(Meta) \in 0..MaxBalance
      BY GetType, ExecutorAssumption
    <3>2. At(Meta, 1 - Get(Meta)) \in Writes
      BY <3>1, AtWrites, Keys
    <3> QED
      BY <2>1, <3>2, AcceptTypes, EventsType DEF MetaTx
  <2>2. CASE ~ ok
    BY <2>2 DEF MetaTx, Refuse, Types
  <2> QED
    BY <2>1, <2>2
<1> QED
  BY <1>1, <1>2, IdleTypes DEF Types

(* The first call of a transaction starts. *)
LEMMA StartTypes ==
  ASSUME Types, Meant', frames = <<>>, NEW c \in Contract, NEW u \in User, NEW pay \in Nat,
         levels' = <<Level(c, u)>>, frames' = <<Frame(c, pay, FALSE)>>,
         batch' = "payload", txBuffer' \in Writes,
         UNCHANGED <<db, payload, receipts, buffer, logged, nested>>
  PROVE  Types'
<1>1. /\ levels' \in Seq(LevelSet) /\ Len(levels') = 1 /\ levels'[1].sender = u
      /\ frames' \in Seq(FrameSet) /\ Len(frames') = 1 /\ frames' # <<>>
  BY FirstLevel
<1>2. MaxNestDepth \in Nat /\ MaxNestDepth >= 1
  BY ExecutorAssumption
<1>3. \A i \in 1..Len(levels') : levels'[i].sender \in IF i = 1 THEN User ELSE Contract
  BY <1>1
<1>4. Len(frames') <= Len(levels') /\ Len(levels') <= MaxNestDepth
  BY <1>1, <1>2
<1> QED
  BY <1>1, <1>3, <1>4 DEF Types

(* What is meant is a write of a contract, what was meant before a call that
   fails, or what the last block stored. *)
LEMMA MeantNext ==
  ASSUME Types, [Next]_vars
  PROVE  Meant'
<1>1. Meant
  BY DEF Types
<1>2. ASSUME UNCHANGED <<meant, leftover>> PROVE Meant'
  BY <1>1, <1>2 DEF Meant
<1>3. ASSUME HostCall, Unwind PROVE Meant'
  <2>1. frames # <<>>
    BY <1>3 DEF HostCall
  <2>2. 1 \in 1..Len(frames) /\ Depth = Len(frames) /\ Len(frames) \in Nat
    BY <2>1, FrameFacts DEF Depth
  <2>3. \A n \in 1..Len(frames) : frames[n].before \in [Contract -> Nat]
    BY FrameFacts
  <2>4. \E n \in 1..Len(frames) : meant' = frames[n].before /\ leftover' \in BOOLEAN
    <3>1. CASE meant' = frames[1].before /\ leftover' = leftover
      BY <2>2, <3>1, <1>1 DEF Meant
    <3>2. ASSUME NEW n \in 2..Depth, meant' = frames[n].before,
                 leftover' = (leftover \/ StoredAbove(n))
          PROVE  n \in 1..Len(frames) /\ leftover' \in BOOLEAN
      BY <2>2, <3>2
    <3> QED
      BY <1>3, <2>1, <3>1, <3>2, Unwound
  <2> QED
    BY <2>3, <2>4 DEF Meant
<1>4. ASSUME NEW v \in 0..1, StorageWrite(v) PROVE Meant'
  <2>1. meant' = [meant EXCEPT ![Running.self] = v] /\ leftover' = leftover
    BY <1>4 DEF StorageWrite
  <2>2. meant \in [Contract -> Nat] /\ leftover' \in BOOLEAN
    BY <1>1, <2>1 DEF Meant
  <2>3. meant' \in [Contract -> Nat]
    <3> DEFINE self == Running.self
    <3>1. meant' = [meant EXCEPT ![self] = v] /\ v \in Nat
      BY <2>1
    <3> HIDE DEF self
    <3> QED
      BY <2>2, <3>1
  <2> QED
    BY <2>2, <2>3 DEF Meant
<1>5. ASSUME Discard PROVE Meant'
  <2>1. \A c \in Contract : Stored(Data(c)) \in Nat
    BY Keys, ExecutorAssumption DEF Types, Stored
  <2>2. meant' = [c \in Contract |-> Stored(Data(c))] /\ leftover' = leftover
    BY <1>5 DEF Discard
  <2> QED
    BY <1>1, <2>1, <2>2 DEF Meant
<1>6. ASSUME NEW u \in User, NEW v \in Amount PROVE
        /\ \A to \in Address : TransferTx(u, to, v) => Meant'
        /\ \A c \in Contract : CreateTx(u, c, v) \/ ExecuteTx(u, c, v) => Meant'
  BY <1>2 DEF TransferTx, CreateTx, ExecuteTx
<1>7. ASSUME NEW ok \in BOOLEAN, MetaTx(ok) PROVE Meant'
  BY <1>2, <1>7 DEF MetaTx
<1>8. ASSUME NEW to \in Address, NEW v \in Amount, BalanceTransfer(to, v) PROVE Meant'
  BY <1>2, <1>3, <1>8 DEF BalanceTransfer, MoveFunds
<1>9. ASSUME Pay PROVE Meant'
  BY <1>2, <1>3, <1>9 DEF Pay, MoveFunds
<1>10. ASSUME NEW c \in Contract, NEW ea \in BOOLEAN
       PROVE  /\ \A v \in Amount : ContractExecute(c, v, ea) => Meant'
              /\ ContractNotFound(c, ea) => Meant'
  BY <1>2, <1>3 DEF ContractExecute, ContractNotFound
<1>11. ErrorReturn \/ NestDepthExceeded => Meant'
  BY <1>3 DEF ErrorReturn, NestDepthExceeded
<1>12. NestedReturn \/ Return \/ EndBatch \/ CommitBlock => Meant'
  BY <1>2 DEF NestedReturn, Return, EndBatch, CommitBlock
<1>13. UNCHANGED vars => Meant'
  BY <1>2 DEF vars
<1> QED
  BY <1>4, <1>5, <1>6, <1>7, <1>8, <1>9, <1>10, <1>11, <1>12, <1>13 DEF Next

(* Types is inductive. *)
LEMMA TypesNext ==
  ASSUME Types, [Next]_vars
  PROVE  Types'
<1>0. Meant'
  BY MeantNext
<1>1. ASSUME NEW u \in User, NEW v \in Amount, NEW to \in Address, TransferTx(u, to, v) PROVE Types'
  BY <1>0, <1>1, TransferTypes
<1>2. ASSUME NEW u \in User, NEW v \in Amount, NEW c \in Contract, CreateTx(u, c, v) PROVE Types'
  <2>1. Over(At(Code(c), 1), txBuffer) \in Writes
    <3>1. 1 \in 0..MaxBalance
      BY ExecutorAssumption
    <3>2. At(Code(c), 1) \in Writes
      BY <3>1, Keys, AtWrites
    <3> QED
      BY <3>2, OverWrites DEF Types
  <2>2. v \in Nat
    BY ExecutorAssumption
  <2> QED
    BY <1>0, <1>2, <2>1, <2>2, StartTypes DEF CreateTx, NextTx
<1>3. ASSUME NEW u \in User, NEW v \in Amount, NEW c \in Contract, ExecuteTx(u, c, v) PROVE Types'
  <2>1. frames = <<>> /\ batch' = "payload" /\ UNCHANGED <<db, payload, receipts, nested>>
    BY <1>3 DEF ExecuteTx, NextTx
  <2>2. CASE Known(c)
    <3>1. v \in Nat /\ txBuffer \in Writes
      BY ExecutorAssumption DEF Types
    <3> QED
      BY <1>0, <1>3, <2>1, <2>2, <3>1, StartTypes DEF ExecuteTx
  <2>3. CASE ~ Known(c)
    BY <1>0, <1>3, <2>1, <2>3, IdleTypes DEF ExecuteTx, Refuse, Types
  <2> QED
    BY <2>2, <2>3
<1>4. ASSUME NEW ok \in BOOLEAN, MetaTx(ok) PROVE Types'
  BY <1>0, <1>4, MetaTypes
<1>5. ASSUME ErrorReturn PROVE Types'
  BY <1>0, <1>5, UnwindTypes DEF ErrorReturn
<1>6. ASSUME NEW v \in 0..1, StorageWrite(v) PROVE Types'
  <2>1. frames # <<>> /\ UNCHANGED <<db, batch, payload, receipts, buffer, txBuffer, frames, logged, nested>>
    BY <1>6 DEF StorageWrite, HostCall
  <2>2. Depth \in 1..Len(levels) /\ levels[Depth] \in LevelSet /\ Running = levels[Depth]
        /\ Running.self \in Contract /\ levels \in Seq(LevelSet)
    BY <2>1, RunningFacts DEF Types
  <2> DEFINE w == Over(At(Data(Running.self), v), levels[Depth].base)
             l == [levels[Depth] EXCEPT !.base = w]
  <2>3. w \in Writes
    <3>1. v \in 0..MaxBalance
      BY ExecutorAssumption
    <3>2. At(Data(Running.self), v) \in Writes
      BY <2>2, <3>1, Keys, AtWrites
    <3> QED
      BY <2>2, <3>2, OverWrites, LevelFacts
  <2>4. l \in LevelSet /\ l.sender = levels[Depth].sender
    BY <2>2, <2>3, LevelUpdates
  <2>5. levels' = [levels EXCEPT ![Depth] = l]
    BY <1>6, <2>2 DEF StorageWrite
  <2> HIDE DEF l, w
  <2>6. levels' \in Seq(LevelSet) /\ Len(levels') = Len(levels) /\ levels'[Depth] = l
        /\ \A i \in 1..Len(levels) : i # Depth => levels'[i] = levels[i]
    BY <2>2, <2>4, <2>5, LevelSetTo
  <2>7. \A i \in 1..Len(levels') : levels'[i].sender \in IF i = 1 THEN User ELSE Contract
    BY <2>4, <2>6 DEF Types
  <2> QED
    BY <1>0, <2>1, <2>6, <2>7, RunTypes DEF Types
<1>7. ASSUME NEW to \in Address, NEW v \in Amount, BalanceTransfer(to, v) PROVE Types'
  <2>1. frames # <<>> /\ v \in Nat
    BY <1>7, ExecutorAssumption DEF BalanceTransfer, HostCall
  <2>2. Running.self \in Address
    BY <2>1, RunningFacts
  <2> QED
    BY <1>0, <1>7, <2>1, <2>2, MoveTypes, UnwindTypes DEF BalanceTransfer
<1>8. ASSUME Pay PROVE Types'
  <2>1. frames # <<>>
    BY <1>8 DEF Pay, HostCall
  <2>2. Running.self \in Address /\ Running.sender \in Address /\ frames[Depth].pay \in Nat
    BY <2>1, RunningFacts, FrameFacts
  <2> QED
    BY <1>0, <1>8, <2>1, <2>2, MoveTypes, UnwindTypes DEF Pay
<1>9. ASSUME NEW c \in Contract, NEW ea \in BOOLEAN, NEW v \in Amount, ContractExecute(c, v, ea) PROVE Types'
  <2>1. /\ frames # <<>> /\ UNCHANGED <<db, batch, payload, receipts, buffer, txBuffer, logged>>
        /\ Len(levels) > Depth \/ Depth < MaxNestDepth
        /\ nested' = TRUE /\ levels' = NestedLevels(c) /\ frames' = Append(frames, Frame(c, v, ea))
    BY <1>9 DEF ContractExecute, HostCall
  <2>2. /\ levels' \in Seq(LevelSet) /\ Len(levels') >= Depth + 1 /\ Len(levels') <= MaxNestDepth
        /\ \A i \in 1..Len(levels') : levels'[i].sender \in IF i = 1 THEN User ELSE Contract
    BY <2>1, NestedFacts
  <2>3. Frame(c, v, ea) \in FrameSet
    BY ExecutorAssumption DEF Frame, FrameSet, Types, Meant
  <2>4. frames' \in Seq(FrameSet) /\ Len(frames') = Depth + 1 /\ frames' # <<>>
    <3>1. frames \in Seq(FrameSet)
      BY DEF Types
    <3> QED
      BY <2>1, <2>3, <3>1, Pushed DEF Depth
  <2> QED
    BY <1>0, <2>1, <2>2, <2>4, RunTypes DEF Types
<1>10. ASSUME NEW c \in Contract, NEW ea \in BOOLEAN, ContractNotFound(c, ea) PROVE Types'
  <2>1. CASE ~ ea
    BY <1>0, <1>10, <2>1, UnwindTypes DEF ContractNotFound
  <2>2. CASE ea
    <3> DEFINE lv == NestedLevels(c)
    <3>1. /\ frames # <<>> /\ UNCHANGED <<db, batch, payload, receipts, buffer, txBuffer, frames, logged, nested>>
          /\ Len(levels) > Depth \/ Depth < MaxNestDepth
          /\ levels' = [lv EXCEPT ![Depth + 1] = Drained(lv[Depth + 1])]
      BY <1>10, <2>2 DEF ContractNotFound, HostCall
    <3>2. /\ lv \in Seq(LevelSet) /\ Len(lv) >= Depth + 1 /\ Len(lv) <= MaxNestDepth /\ Len(lv) \in Nat
          /\ \A i \in 1..Len(lv) : lv[i].sender \in IF i = 1 THEN User ELSE Contract
      BY <3>1, NestedFacts
    <3> HIDE DEF lv
    <3>3. Depth \in Nat /\ Depth + 1 \in 1..Len(lv) /\ Len(frames) = Depth
      BY <3>1, <3>2, FrameFacts DEF Depth
    <3>4. lv[Depth + 1] \in LevelSet
      BY <3>2, <3>3
    <3>5. Drained(lv[Depth + 1]) \in LevelSet /\ Drained(lv[Depth + 1]).sender = lv[Depth + 1].sender
      BY <3>4, LevelUpdates
    <3>6. levels' \in Seq(LevelSet) /\ Len(levels') = Len(lv) /\ levels'[Depth + 1] = Drained(lv[Depth + 1])
          /\ \A i \in 1..Len(lv) : i # Depth + 1 => levels'[i] = lv[i]
      BY <3>1, <3>2, <3>3, <3>5, LevelSetTo
    <3>7. \A i \in 1..Len(levels') : levels'[i].sender \in IF i = 1 THEN User ELSE Contract
      BY <3>2, <3>5, <3>6
    <3>8. Len(frames') <= Len(levels') /\ Len(levels') <= MaxNestDepth /\ frames' # <<>>
      BY <3>1, <3>2, <3>3, <3>6
    <3> QED
      BY <1>0, <3>1, <3>6, <3>7, <3>8, RunTypes DEF Types
  <2> QED
    BY <2>1, <2>2
<1>11. ASSUME NestDepthExceeded PROVE Types'
  BY <1>0, <1>11, UnwindTypes DEF NestDepthExceeded
<1>12. ASSUME NestedReturn PROVE Types'
  <2>1. UNCHANGED <<db, buffer, txBuffer, batch, payload, logged, receipts, nested>>
    BY <1>12 DEF NestedReturn
  <2>2. /\ Depth \in 2..Len(levels) /\ frames # <<>>
        /\ frames' \in Seq(FrameSet) /\ Len(frames') = Depth - 1
        /\ levels' \in Seq(LevelSet) /\ Len(levels') = Len(levels)
        /\ \A i \in 1..Len(levels) : Unmoved(i)
    BY <1>12, Returned
  <2>3. \A i \in 1..Len(levels') : levels'[i].sender \in IF i = 1 THEN User ELSE Contract
    BY <2>2 DEF Types, Unmoved
  <2>4. frames' # <<>> /\ Len(frames') <= Len(levels') /\ Len(levels') <= MaxNestDepth
    BY <2>2, LevelFacts DEF Types
  <2> QED
    BY <1>0, <2>1, <2>2, <2>3, <2>4, RunTypes DEF Types
<1>13. ASSUME Return PROVE Types'
  <2>1. frames # <<>> /\ UNCHANGED <<db, batch, payload, receipts, nested>> /\ frames' = <<>> /\ levels' = <<>>
    BY <1>13, FrameFacts DEF Return, Depth
  <2>2. Running.base \in Writes /\ Running.events \in [Address -> Int]
    BY <2>1, RunningFacts, LevelFacts
  <2>3. buffer' \in Writes /\ txBuffer' = Empty /\ logged' \in [Address -> Int]
    BY <1>13, <2>2, AcceptTypes DEF Return
  <2> QED
    BY <1>0, <2>1, <2>3, EndTypes DEF Types
<1>14. ASSUME EndBatch PROVE Types'
  BY <1>0, <1>14, IdleTypes DEF EndBatch, Types
<1>15. ASSUME Discard PROVE Types'
  BY <1>0, <1>15, EndTypes, EmptyWrites, EventsType DEF Discard, Types
<1>16. ASSUME CommitBlock PROVE Types'
  <2>1. frames = <<>> /\ UNCHANGED <<txBuffer, levels, frames, batch, nested>> /\ txBuffer = Empty
    BY <1>16 DEF CommitBlock, Types
  <2>2. Over(buffer, db) \in [Key -> 0..MaxBalance] /\ Over(buffer, db)[Meta] \in 0..1
    <3>1. DOMAIN buffer \subseteq Key /\ \A k \in DOMAIN buffer : buffer[k] \in 0..MaxBalance
      BY WritesElim DEF Types
    <3>2. Meta \in DOMAIN buffer => buffer[Meta] \in 0..1
      BY WritesElim DEF Types
    <3> QED
      BY <3>1, <3>2, Keys DEF Over, Types
  <2>3. /\ db' = Over(buffer, db) /\ buffer' = Empty /\ payload' = FALSE
        /\ receipts' = AddEvents(receipts, logged) /\ logged' = NoEvents
    BY <1>16 DEF CommitBlock, Updated
  <2> QED
    BY <1>0, <2>1, <2>2, <2>3, EmptyWrites, EventsType, IdleTypes DEF Types
<1>17. ASSUME UNCHANGED vars PROVE Types'
  BY <1>0, <1>17 DEF vars, Types
<1> QED
  BY <1>1, <1>2, <1>3, <1>4, <1>5, <1>6, <1>7, <1>8, <1>9, <1>10, <1>11, <1>12, <1>13, <1>14, <1>15,
     <1>16, <1>17 DEF Next

-----------------------------------------------------------------------------
(* The invariants. *)

(* As long as no contract has called another one, only the transaction's own
   overlay holds balances, and they differ from those of the block by the events
   of the running contract. *)
Accounts ==
  ~ nested =>
    /\ Len(frames) <= 1
    /\ \A i \in 1..Len(levels), a \in Address : Balance(a) \notin DOMAIN levels[i].base
    /\ \A a \in Address : db[Balance(a)] = Endow[a] + receipts[a]
    /\ Accounted
    /\ frames # <<>> => \A a \in Address : Get(Balance(a)) = Settled(a) + levels[1].events[a]

(* No overlay takes anything from a user other than the sender. *)
Holds(o, u) == Balance(u) \in DOMAIN o => o[Balance(u)] >= Settled(u)
Funds ==
  \A u \in User : levels # <<>> /\ levels[1].sender # u =>
    /\ Holds(txBuffer, u)
    /\ \A i \in 1..Len(levels) : Holds(levels[i].base, u)

(* The inductive invariant. *)
Inv == Types /\ Accounts /\ Funds

(* The balance in the block, and the running transaction's view of it. *)
LEMMA SettledFacts ==
  ASSUME Types, NEW a \in Address
  PROVE  /\ Settled(a) = IF Balance(a) \in DOMAIN buffer THEN buffer[Balance(a)] ELSE db[Balance(a)]
         /\ Settled(a) \in 0..MaxBalance
         /\ Get(Balance(a)) = IF Balance(a) \in DOMAIN txBuffer THEN txBuffer[Balance(a)] ELSE Settled(a)
<1>1. Balance(a) \in Key /\ Balance(a) \in DOMAIN db /\ db[Balance(a)] \in 0..MaxBalance
  BY Keys DEF Types
<1>2. Settled(a) = IF Balance(a) \in DOMAIN buffer THEN buffer[Balance(a)] ELSE db[Balance(a)]
  BY <1>1 DEF Settled, Updated, Over
<1>3. Balance(a) \in DOMAIN buffer => buffer[Balance(a)] \in 0..MaxBalance
  BY WritesElim DEF Types
<1>4. Get(Balance(a)) = IF Balance(a) \in DOMAIN txBuffer THEN txBuffer[Balance(a)]
                        ELSE IF Balance(a) \in DOMAIN buffer THEN buffer[Balance(a)] ELSE db[Balance(a)]
  BY DEF Get, Over, Stored
<1> QED
  BY <1>1, <1>2, <1>3, <1>4

(* What a level reads does not change when nothing at or below it does. *)
LEMMA BaseGetSame ==
  ASSUME Types, NEW n \in 0..Len(levels), NEW k, Get(k)' = Get(k),
         \A i \in 1..n : /\ k \in DOMAIN levels'[i].base <=> k \in DOMAIN levels[i].base
                         /\ k \in DOMAIN levels[i].base => levels'[i].base[k] = levels[i].base[k]
  PROVE  BaseGet(n, k)' = BaseGet(n, k)
<1> DEFINE w == {i \in 1..n : k \in DOMAIN levels[i].base}
<1>0. n \in Nat
  BY LevelFacts
<1>1. {i \in 1..n : k \in DOMAIN levels'[i].base} = w
  OBVIOUS
<1>2. CASE w = {}
  BY <1>1, <1>2 DEF BaseGet
<1>3. CASE w # {}
  <2>1. w \subseteq 1..n
    OBVIOUS
  <2>2. Max(w) \in w
    <3>1. IsFiniteSet(1..n)
      <4> HIDE DEF w
      <4> QED
        BY <1>0, FS_Interval
    <3>2. 1..n \subseteq Int
      OBVIOUS
    <3> HIDE DEF w
    <3> QED
      BY <1>3, <2>1, <3>1, <3>2, FS_Subset, MaxProperty
  <2>3. BaseGet(n, k)' = levels'[Max(w)].base[k]
    BY <1>1, <1>3 DEF BaseGet
  <2>4. BaseGet(n, k) = levels[Max(w)].base[k]
    BY <1>3 DEF BaseGet
  <2> QED
    BY <2>2, <2>3, <2>4
<1> QED
  BY <1>2, <1>3

(* What a level reads of a user's balance is not less than what is settled. *)
LEMMA BaseGetHolds ==
  ASSUME Types, Funds, NEW u \in User, levels # <<>>, levels[1].sender # u, NEW n \in 0..Len(levels)
  PROVE  BaseGet(n, Balance(u)) >= Settled(u)
<1>1. u \in Address
  BY DEF Address
<1>2. Settled(u) \in Int /\ Get(Balance(u)) >= Settled(u)
  BY <1>1, SettledFacts DEF Funds, Holds
<1>3. \A i \in 1..n : Balance(u) \in DOMAIN levels[i].base => levels[i].base[Balance(u)] >= Settled(u)
  BY LevelFacts DEF Funds, Holds
<1> QED
  BY <1>2, <1>3, BaseGetFacts

(* The sender of a running call is the sender of the transaction or a contract. *)
LEMMA Spender ==
  ASSUME Types, frames # <<>>, NEW u \in User, levels[1].sender # u
  PROVE  Running.self # u /\ Running.sender # u
<1>1. Depth \in 1..Len(levels) /\ Running = levels[Depth] /\ Running.self \in Contract
  BY RunningFacts
<1>2. Running.sender \in IF Depth = 1 THEN User ELSE Contract
  BY <1>1 DEF Types
<1> QED
  BY <1>1, <1>2, ExecutorAssumption

(* A contract moves funds of its own or of its sender.  Without nested calls the event
   it adds is the change of the two balances; in a nested one the sender is a contract. *)
LEMMA MoveSafe ==
  ASSUME Inv, HostCall, UNCHANGED nested, NEW from \in Address, NEW to \in Address, NEW value \in Nat,
         from \in {Running.self, Running.sender}, MoveFunds(from, to, value)
  PROVE  Accounts' /\ Funds'
<1>1. Types /\ frames # <<>> /\ UNCHANGED <<db, receipts, buffer, frames, logged>>
  BY DEF HostCall, MoveFunds, Inv
<1>2. PICK x \in 0..MaxBalance, y \in 0..MaxBalance :
         LET items == TransferItems(from, to, value, x, y)
         IN  /\ x = BaseGet(Depth, Balance(from)) /\ y = BaseGet(Depth, Balance(to))
             /\ Transferable(from, to, value, x, y)
             /\ levels' \in Seq(LevelSet) /\ Len(levels') = Len(levels)
             /\ \A i \in 1..Len(levels) : Unmoved(i)
             /\ \A i \in 1..Len(levels) : i # Depth => levels'[i].events = levels[i].events
             /\ levels'[Depth].events = AddEvents(levels[Depth].events, Transferred(from, to, value))
             /\ \A i \in 1..Len(levels) : i # Depth - 1 => levels'[i].base = levels[i].base
             /\ Depth > 1 => /\ levels'[Depth - 1].base = Over(items, levels[Depth - 1].base)
                             /\ txBuffer' = txBuffer
             /\ Depth = 1 => txBuffer' = Over(items, txBuffer)
  BY <1>1, Moved
<1> DEFINE items == TransferItems(from, to, value, x, y)
<1>3. /\ DOMAIN items = {Balance(from), Balance(to)}
      /\ items[Balance(from)] = x - value /\ items[Balance(to)] = y + value
  <2>1. Balance(from) # Balance(to)
    BY <1>2, Keys DEF Transferable
  <2> QED
    BY <2>1 DEF TransferItems, Over, At
<1>4. /\ Depth \in 1..Len(levels) /\ Depth = Len(frames) /\ Len(levels) \in Nat /\ levels # <<>>
      /\ Running = levels[Depth]
  BY <1>1, RunningFacts, LevelFacts
<1> HIDE DEF items
<1>6. Funds'
  <2> SUFFICES ASSUME NEW u \in User, levels'[1].sender # u
               PROVE  Holds(txBuffer, u)' /\ \A i \in 1..Len(levels') : Holds(levels[i].base, u)'
    BY DEF Funds
  <2>1. levels[1].sender # u /\ u \in Address /\ Settled(u)' = Settled(u) /\ Settled(u) \in Int
    BY <1>1, <1>2, <1>4, SettledFacts DEF Unmoved, Settled, Updated, Address
  <2>2. Holds(txBuffer, u) /\ \A i \in 1..Len(levels) : Holds(levels[i].base, u)
    BY <2>1, <1>4 DEF Inv, Funds
  <2>3. u # from
    BY <1>1, <2>1, Spender
  <2>4. y \in Int /\ BaseGet(Depth, Balance(u)) >= Settled(u)
    BY <1>1, <1>4, <2>1, BaseGetHolds DEF Inv
  <2>5. Balance(u) \in DOMAIN items => items[Balance(u)] >= Settled(u)
    <3>1. CASE u = to
      BY <3>1, <2>1, <2>4, <1>2, <1>3
    <3>2. CASE u # to
      BY <3>2, <2>1, <2>3, <1>3, Keys
    <3> QED
      BY <3>1, <3>2
  <2>6. ASSUME NEW o, Balance(u) \in DOMAIN o => o[Balance(u)] >= Settled(u)
        PROVE  Balance(u) \in DOMAIN Over(items, o) => Over(items, o)[Balance(u)] >= Settled(u)
    BY <2>5, <2>6 DEF Over
  <2>7. Holds(txBuffer, u)'
    <3>1. CASE Depth = 1
      <4>1. txBuffer' = Over(items, txBuffer)
        BY <3>1, <1>2 DEF items
      <4> QED
        BY <4>1, <2>1, <2>2, <2>6 DEF Holds
    <3>2. CASE Depth > 1
      BY <3>2, <1>2, <2>1, <2>2 DEF Holds
    <3> QED
      BY <3>1, <3>2, <1>4
  <2>8. ASSUME NEW i \in 1..Len(levels') PROVE Holds(levels[i].base, u)'
    <3>0. i \in 1..Len(levels)
      BY <1>2
    <3>1. CASE i # Depth - 1
      <4>1. levels'[i].base = levels[i].base
        BY <3>0, <3>1, <1>2
      <4> QED
        BY <3>0, <4>1, <2>1, <2>2 DEF Holds
    <3>2. CASE i = Depth - 1
      <4>1. levels'[i].base = Over(items, levels[i].base)
        BY <3>0, <3>2, <1>2, <1>4 DEF items
      <4> QED
        BY <3>0, <4>1, <2>1, <2>2, <2>6 DEF Holds
    <3> QED
      BY <3>1, <3>2
  <2> QED
    BY <2>7, <2>8
<1>7. Accounts'
  <2> SUFFICES ASSUME ~ nested' PROVE Accounts'
    BY DEF Accounts
  <2>1. /\ Accounts /\ ~ nested /\ Len(frames) <= 1 /\ Accounted
        /\ \A i \in 1..Len(levels), a \in Address : Balance(a) \notin DOMAIN levels[i].base
        /\ \A a \in Address : db[Balance(a)] = Endow[a] + receipts[a]
        /\ \A a \in Address : Get(Balance(a)) = Settled(a) + levels[1].events[a]
    BY <1>1 DEF Inv, Accounts
  <2>2. Depth = 1 /\ txBuffer' = Over(items, txBuffer)
    BY <1>2, <1>4, <2>1 DEF items
  <2>3. \A i \in 1..Len(levels'), a \in Address : Balance(a) \notin DOMAIN levels'[i].base
    BY <1>2, <2>1, <2>2
  <2>4. \A a \in Address : Settled(a)' = Settled(a)
    BY <1>1 DEF Settled, Updated
  <2>5. Accounted'
    BY <1>1, <2>1, <2>4 DEF Accounted
  <2>6. \A a \in Address : BaseGet(1, Balance(a)) = Get(Balance(a))
    <3> TAKE a \in Address
    <3>1. {i \in 1..1 : Balance(a) \in DOMAIN levels[i].base} = {}
      BY <1>4, <2>1, <2>2
    <3> QED
      BY <3>1 DEF BaseGet
  <2>7. x = Get(Balance(from)) /\ y = Get(Balance(to))
    BY <1>2, <2>2, <2>6
  <2>8. ASSUME NEW a \in Address
        PROVE  Get(Balance(a))' = Settled(a)' + levels'[1].events[a]
    <3>1. Get(Balance(a))' = IF Balance(a) \in DOMAIN items THEN items[Balance(a)] ELSE Get(Balance(a))
      BY <1>1, <2>2 DEF Get, Stored, Over
    <3>2. levels'[1].events[a] = levels[1].events[a] + Transferred(from, to, value)[a]
      BY <1>2, <2>2 DEF AddEvents
    <3>3. levels[1].events[a] \in Int /\ Settled(a) \in Int
      <4>1. levels[1].events \in [Address -> Int]
        BY <1>1, <1>4, <2>2, LevelFacts
      <4> QED
        BY <1>1, <4>1, SettledFacts
    <3>4. from # to
      BY <1>2 DEF Transferable
    <3>5. CASE a = from
      <4>1. Transferred(from, to, value)[a] = - value
        BY <3>5 DEF Transferred
      <4>2. Get(Balance(a))' = Get(Balance(a)) - value
        BY <3>1, <3>5, <1>3, <2>7
      <4> QED
        BY <3>2, <3>3, <4>1, <4>2, <2>1, <2>4
    <3>6. CASE a = to
      <4>1. Transferred(from, to, value)[a] = value
        BY <3>4, <3>6 DEF Transferred
      <4>2. Get(Balance(a))' = Get(Balance(a)) + value
        BY <3>1, <3>6, <1>3, <2>7
      <4> QED
        BY <3>2, <3>3, <4>1, <4>2, <2>1, <2>4
    <3>7. CASE a # from /\ a # to
      <4>1. Transferred(from, to, value)[a] = 0
        BY <3>7 DEF Transferred
      <4>2. Get(Balance(a))' = Get(Balance(a))
        BY <3>1, <3>7, <1>3, Keys
      <4> QED
        BY <3>2, <3>3, <4>1, <4>2, <2>1, <2>4
    <3> QED
      BY <3>5, <3>6, <3>7
  <2> QED
    BY <1>1, <2>1, <2>3, <2>5, <2>8 DEF Accounts
<1> QED
  BY <1>6, <1>7

(* No call runs after the step: only the settled balances are left to check. *)
LEMMA EndSafe ==
  ASSUME Types, levels' = <<>>, frames' = <<>>,
         ~ nested' => /\ \A a \in Address : db'[Balance(a)] = Endow[a] + receipts'[a]
                      /\ Accounted'
  PROVE  Accounts' /\ Funds'
<1>1. Len(levels') = 0 /\ Len(frames') = 0 /\ 1..Len(levels') = {}
  OBVIOUS
<1> QED
  BY <1>1 DEF Accounts, Funds

(* The overlays of the running levels change only where nothing is watched. *)
LEMMA RunSafe ==
  ASSUME Inv, frames # <<>>, UNCHANGED <<db, buffer, txBuffer, logged, receipts, nested>>,
         Len(levels') \in Nat, Len(levels') >= 1, levels' # <<>>, Len(frames') \in Nat, Len(frames') <= Len(frames),
         Unmoved(1), levels'[1].events = levels[1].events,
         \A i \in 1..Len(levels'), a \in Address : Balance(a) \in DOMAIN levels'[i].base =>
           /\ i \in 1..Len(levels) /\ Balance(a) \in DOMAIN levels[i].base
           /\ levels'[i].base[Balance(a)] = levels[i].base[Balance(a)]
  PROVE  Accounts' /\ Funds'
<1>1. Types /\ levels # <<>> /\ Len(frames) \in Nat
  BY RunningFacts, LevelFacts, FrameFacts DEF Inv
<1>3. \A a \in Address : Settled(a)' = Settled(a) /\ Get(Balance(a))' = Get(Balance(a))
  BY DEF Settled, Updated, Get, Stored
<1>4. Funds'
  <2> SUFFICES ASSUME NEW u \in User, levels'[1].sender # u
               PROVE  Holds(txBuffer, u)' /\ \A i \in 1..Len(levels') : Holds(levels[i].base, u)'
    BY DEF Funds
  <2>1. u \in Address /\ levels[1].sender # u
    BY DEF Address, Unmoved
  <2>2. Holds(txBuffer, u) /\ \A i \in 1..Len(levels) : Holds(levels[i].base, u)
    BY <1>1, <2>1 DEF Inv, Funds
  <2> QED
    BY <1>3, <2>1, <2>2 DEF Holds
<1>5. Accounts'
  <2> SUFFICES ASSUME ~ nested' PROVE Accounts'
    BY DEF Accounts
  <2>1. /\ Len(frames) <= 1 /\ Accounted
        /\ \A i \in 1..Len(levels), a \in Address : Balance(a) \notin DOMAIN levels[i].base
        /\ \A a \in Address : db[Balance(a)] = Endow[a] + receipts[a]
        /\ \A a \in Address : Get(Balance(a)) = Settled(a) + levels[1].events[a]
    BY DEF Inv, Accounts
  <2>2. Len(frames') <= 1
    BY <1>1, <2>1
  <2>3. \A i \in 1..Len(levels'), a \in Address : Balance(a) \notin DOMAIN levels'[i].base
    BY <2>1
  <2>4. Accounted'
    BY <1>3, <2>1 DEF Accounted
  <2> QED
    BY <1>3, <2>1, <2>2, <2>3, <2>4 DEF Accounts
<1> QED
  BY <1>4, <1>5

(* A failure drops overlays from the failing call up, or all of them. *)
LEMMA UnwindSafe ==
  ASSUME Inv, HostCall, UNCHANGED nested, Unwind
  PROVE  Accounts' /\ Funds'
<1>1. Types /\ frames # <<>> /\ UNCHANGED <<db, receipts>>
  BY DEF HostCall, Inv
<1>2. CASE /\ frames' = <<>> /\ levels' = <<>> /\ txBuffer' = Empty
           /\ UNCHANGED <<buffer, logged>>
  <2>1. ~ nested' => /\ \A a \in Address : db'[Balance(a)] = Endow[a] + receipts'[a]
                     /\ Accounted'
    BY <1>1, <1>2 DEF Inv, Accounts, Accounted, Settled, Updated
  <2> QED
    BY <1>1, <1>2, <2>1, EndSafe
<1>3. ASSUME NEW n \in 2..Depth, Len(frames') = n - 1,
             \A i \in 1..n - 1 : frames'[i] = frames[i],
             levels' \in Seq(LevelSet), Len(levels') = Len(levels),
             \A i \in 1..Len(levels) : i # n => levels'[i] = levels[i],
             levels'[n] = Drained(levels[n]),
             UNCHANGED <<txBuffer, buffer, logged>>
      PROVE  Accounts' /\ Funds'
  <2>1. Depth \in 1..Len(levels) /\ Depth = Len(frames) /\ Len(levels) \in Nat
    BY <1>1, RunningFacts, LevelFacts
  <2>2. n \in 1..Len(levels) /\ levels[n] \in LevelSet /\ n \in Nat
    BY <1>1, <2>1, LevelFacts
  <2>3. levels'[n].base = Empty /\ DOMAIN Empty = {}
    BY <1>3, <2>2, LevelUpdates, EmptyWrites
  <2>4. /\ Len(levels') \in Nat /\ Len(levels') >= 1 /\ levels' # <<>>
        /\ Len(frames') \in Nat /\ Len(frames') <= Len(frames)
    BY <1>3, <2>1, <2>2
  <2>5. levels'[1] = levels[1]
    BY <1>3, <2>1
  <2>6. \A i \in 1..Len(levels'), a \in Address : Balance(a) \in DOMAIN levels'[i].base =>
           /\ i \in 1..Len(levels) /\ Balance(a) \in DOMAIN levels[i].base
           /\ levels'[i].base[Balance(a)] = levels[i].base[Balance(a)]
    BY <1>3, <2>3
  <2> QED
    BY <1>1, <1>3, <2>4, <2>5, <2>6, RunSafe DEF Unmoved
<1> QED
  BY <1>1, <1>2, <1>3, Unwound

(* A call starts: nothing has moved yet. *)
LEMMA StartSafe ==
  ASSUME Inv, frames = <<>>, NEW c \in Contract, NEW u \in User, NEW pay \in Nat,
         levels' = <<Level(c, u)>>, frames' = <<Frame(c, pay, FALSE)>>,
         UNCHANGED <<db, receipts, buffer, logged, nested>>,
         \A a \in Address : Balance(a) \notin DOMAIN txBuffer'
  PROVE  Accounts' /\ Funds'
<1>1. /\ Types /\ Len(levels') = 1 /\ Len(frames') = 1 /\ frames' # <<>>
      /\ levels'[1].base = Empty /\ levels'[1].events = NoEvents /\ DOMAIN Empty = {}
  BY FirstLevel, EmptyWrites DEF Inv
<1>2. \A i \in 1..Len(levels') : levels'[i].base = Empty
  BY <1>1
<1>4. Funds'
  BY <1>1, <1>2 DEF Funds, Holds, Address
<1>5. Accounts'
  <2> SUFFICES ASSUME ~ nested' PROVE Accounts'
    BY DEF Accounts
  <2>1. Accounted' /\ \A a \in Address : db'[Balance(a)] = Endow[a] + receipts'[a]
    BY DEF Inv, Accounts, Accounted, Settled, Updated
  <2>2. ASSUME NEW a \in Address PROVE Get(Balance(a))' = Settled(a)' + levels'[1].events[a]
    <3>1. levels'[1].events[a] = 0
      BY <1>1 DEF NoEvents
    <3>2. Settled(a)' = Settled(a) /\ Settled(a) \in Int
      BY <1>1, SettledFacts DEF Settled, Updated
    <3>3. Settled(a) = IF Balance(a) \in DOMAIN buffer THEN buffer[Balance(a)] ELSE db[Balance(a)]
      BY <1>1, SettledFacts
    <3>4. Get(Balance(a))' = Settled(a)
      BY <3>3 DEF Get, Stored, Over
    <3> QED
      BY <3>1, <3>2, <3>4
  <2> QED
    BY <1>1, <1>2, <2>1, <2>2 DEF Accounts
<1> QED
  BY <1>4, <1>5

(* A transaction is accepted: its events account for what it settles. *)
LEMMA AcceptAccounts ==
  ASSUME Types, NEW items \in Writes, NEW events \in [Address -> Int], Accept(items, events),
         UNCHANGED <<db, receipts>>,
         Accounted, NEW f, f = Over(items, txBuffer),
         \A a \in Address :
           (IF Balance(a) \in DOMAIN f THEN f[Balance(a)] ELSE Settled(a)) = Settled(a) + events[a]
  PROVE  Accounted'
<1> SUFFICES ASSUME NEW a \in Address PROVE Settled(a)' = Endow[a] + receipts'[a] + logged'[a]
  BY DEF Accounted
<1>1. Settled(a) = IF Balance(a) \in DOMAIN buffer THEN buffer[Balance(a)] ELSE db[Balance(a)]
  BY SettledFacts
<1>2. buffer' = Over(f, buffer) /\ logged' = AddEvents(logged, events)
  BY DEF Accept
<1>3. Balance(a) \in DOMAIN db
  BY Keys DEF Types
<1>4. Settled(a)' = IF Balance(a) \in DOMAIN f THEN f[Balance(a)] ELSE Settled(a)
  BY <1>1, <1>2, <1>3 DEF Settled, Updated, Over
<1>5. logged'[a] = logged[a] + events[a] /\ logged[a] \in Int /\ events[a] \in Int /\ receipts[a] \in Int
  BY <1>2 DEF AddEvents, Types
<1>6. Settled(a) = Endow[a] + receipts[a] + logged[a] /\ Endow[a] \in Int
  BY ExecutorAssumption DEF Accounted
<1> QED
  BY <1>4, <1>5, <1>6

(* A transfer takes from its sender, as its event says; one to oneself changes nothing. *)
LEMMA TransferSafe ==
  ASSUME Inv, NEW u \in User, NEW to \in Address, NEW v \in Amount, TransferTx(u, to, v)
  PROVE  Accounts' /\ Funds'
<1>1. /\ Types /\ frames = <<>> /\ levels = <<>> /\ txBuffer = Empty
      /\ UNCHANGED <<db, receipts, levels, frames, nested>>
  BY DEF TransferTx, NextTx, Inv, Types
<1> DEFINE x == Get(Balance(u))
           y == Get(Balance(to))
           items == TransferItems(u, to, v, x, y)
<1>2. u \in Address /\ x \in 0..MaxBalance /\ y \in 0..MaxBalance /\ v \in Nat
  BY <1>1, GetType, Keys, ExecutorAssumption DEF Address
<1>3. ASSUME ~ nested' PROVE Accounted'
  <2>1. Accounted
    BY <1>1, <1>3 DEF Inv, Accounts
  <2>2. CASE ~ Transferable(u, to, v, x, y)
    BY <1>1, <2>1, <2>2 DEF TransferTx, Refuse, Accounted, Settled, Updated
  <2>3. CASE Transferable(u, to, v, x, y)
    <3>1. items \in Writes /\ Transferred(u, to, v) \in [Address -> Int]
      BY <1>2, <2>3, ItemsFacts, EventsType
    <3>2. Accept(items, Transferred(u, to, v))
      BY <2>3 DEF TransferTx
    <3>3. u # to
      BY <2>3 DEF Transferable
    <3>4. DOMAIN Empty = {}
      BY EmptyWrites
    <3>5. /\ DOMAIN items = {Balance(u), Balance(to)}
          /\ items[Balance(u)] = x - v /\ items[Balance(to)] = y + v
      <4>1. Balance(u) # Balance(to)
        BY <1>2, <3>3, Keys
      <4> QED
        BY <4>1 DEF TransferItems, Over, At
    <3> DEFINE f == Over(items, txBuffer)
    <3>6. DOMAIN f = DOMAIN items /\ \A k \in DOMAIN items : f[k] = items[k]
      BY <1>1, <3>4 DEF Over
    <3>7. \A a \in Address : Get(Balance(a)) = Settled(a) /\ Settled(a) \in Int
      BY <1>1, <3>4, SettledFacts
    <3> HIDE DEF f, items
    <3>8. ASSUME NEW a \in Address
          PROVE  (IF Balance(a) \in DOMAIN f THEN f[Balance(a)] ELSE Settled(a))
                   = Settled(a) + Transferred(u, to, v)[a]
      <4>1. CASE a = u
        <5>1. Transferred(u, to, v)[a] = - v
          BY <4>1 DEF Transferred
        <5>2. Balance(a) \in DOMAIN f /\ f[Balance(a)] = Settled(a) - v
          BY <4>1, <3>5, <3>6, <3>7
        <5> QED
          BY <5>1, <5>2, <3>7, <1>2
      <4>2. CASE a = to
        <5>1. Transferred(u, to, v)[a] = v
          BY <4>2, <3>3 DEF Transferred
        <5>2. Balance(a) \in DOMAIN f /\ f[Balance(a)] = Settled(a) + v
          BY <4>2, <3>5, <3>6, <3>7
        <5> QED
          BY <5>1, <5>2, <3>7, <1>2
      <4>3. CASE a # u /\ a # to
        <5>1. Transferred(u, to, v)[a] = 0
          BY <4>3 DEF Transferred
        <5>2. Balance(a) \notin DOMAIN f
          BY <4>3, <3>5, <3>6, <1>2, Keys
        <5> QED
          BY <5>1, <5>2, <3>7
      <4> QED
        BY <4>1, <4>2, <4>3
    <3> QED
      BY <1>1, <2>1, <3>1, <3>2, <3>8, AcceptAccounts DEF f
  <2> QED
    BY <2>2, <2>3
<1>4. ~ nested' => \A a \in Address : db'[Balance(a)] = Endow[a] + receipts'[a]
  BY <1>1 DEF Inv, Accounts
<1>5. levels' = <<>> /\ frames' = <<>>
  BY <1>1
<1> QED
  BY <1>1, <1>3, <1>4, <1>5, EndSafe

(* A transaction of a meta module touches no balance. *)
LEMMA MetaSafe ==
  ASSUME Inv, NEW ok \in BOOLEAN, MetaTx(ok)
  PROVE  Accounts' /\ Funds'
<1>1. /\ Types /\ frames = <<>> /\ levels = <<>> /\ txBuffer = Empty
      /\ UNCHANGED <<db, receipts, levels, frames, nested>>
  BY DEF MetaTx, NextTx, Inv, Types
<1>2. ASSUME ~ nested' PROVE Accounted'
  <2>1. Accounted
    BY <1>1, <1>2 DEF Inv, Accounts
  <2>2. CASE ~ ok
    BY <1>1, <2>1, <2>2 DEF MetaTx, Refuse, Accounted, Settled, Updated
  <2>3. CASE ok
    <3> DEFINE items == At(Meta, 1 - Get(Meta))
               f == Over(items, txBuffer)
    <3>1. items \in Writes /\ NoEvents \in [Address -> Int]
      <4>1. 1 - Get(Meta) \in 0..1 /\ 1 - Get(Meta) \in 0..MaxBalance
        BY <1>1, GetType, ExecutorAssumption
      <4> QED
        BY <4>1, AtWrites, Keys, EventsType
    <3>2. Accept(items, NoEvents)
      BY <2>3 DEF MetaTx
    <3>3. \A a \in Address : Balance(a) \notin DOMAIN f
      BY <1>1, Keys, EmptyWrites DEF At, Over
    <3>4. \A a \in Address : Settled(a) \in Int /\ NoEvents[a] = 0
      BY <1>1, SettledFacts DEF NoEvents
    <3> HIDE DEF items, f
    <3>5. \A a \in Address :
            (IF Balance(a) \in DOMAIN f THEN f[Balance(a)] ELSE Settled(a)) = Settled(a) + NoEvents[a]
      BY <3>3, <3>4
    <3> QED
      BY <1>1, <2>1, <3>1, <3>2, <3>5, AcceptAccounts DEF f
  <2> QED
    BY <2>2, <2>3
<1>3. ~ nested' => \A a \in Address : db'[Balance(a)] = Endow[a] + receipts'[a]
  BY <1>1 DEF Inv, Accounts
<1>4. levels' = <<>> /\ frames' = <<>>
  BY <1>1
<1> QED
  BY <1>1, <1>2, <1>3, <1>4, EndSafe

(* The end of the first call: its overlay and events become those of the block. *)
LEMMA ReturnSafe ==
  ASSUME Inv, Return
  PROVE  Accounts' /\ Funds'
<1>1. /\ Types /\ Depth = 1 /\ frames # <<>> /\ Accept(Running.base, Running.events)
      /\ UNCHANGED <<db, receipts, nested>> /\ frames' = <<>> /\ levels' = <<>>
  BY FrameFacts DEF Return, Inv, Depth
<1>2. Running = levels[1] /\ 1 \in 1..Len(levels) /\ Running.base \in Writes /\ Running.events \in [Address -> Int]
  BY <1>1, RunningFacts, LevelFacts
<1>3. ASSUME ~ nested' PROVE Accounted'
  <2> DEFINE f == Over(Running.base, txBuffer)
  <2>1. Accounted /\ \A a \in Address : Balance(a) \notin DOMAIN Running.base
    BY <1>1, <1>2, <1>3 DEF Inv, Accounts
  <2>2. \A a \in Address : Get(Balance(a)) = Settled(a) + Running.events[a]
    BY <1>1, <1>2, <1>3 DEF Inv, Accounts
  <2>3. ASSUME NEW a \in Address
        PROVE  (IF Balance(a) \in DOMAIN f THEN f[Balance(a)] ELSE Settled(a)) = Settled(a) + Running.events[a]
    <3>1. Get(Balance(a)) = IF Balance(a) \in DOMAIN txBuffer THEN txBuffer[Balance(a)] ELSE Settled(a)
      BY <1>1, SettledFacts
    <3>2. /\ Balance(a) \in DOMAIN f <=> Balance(a) \in DOMAIN txBuffer
          /\ Balance(a) \in DOMAIN f => f[Balance(a)] = txBuffer[Balance(a)]
      BY <2>1 DEF Over
    <3> QED
      BY <2>2, <3>1, <3>2
  <2> HIDE DEF f
  <2> QED
    BY <1>1, <1>2, <2>1, <2>3, AcceptAccounts DEF f
<1>4. ~ nested' => \A a \in Address : db'[Balance(a)] = Endow[a] + receipts'[a]
  BY <1>1 DEF Inv, Accounts
<1> QED
  BY <1>1, <1>3, <1>4, EndSafe

(* Inv is inductive, one step per action. *)
LEMMA InvNext ==
  ASSUME Inv, [Next]_vars
  PROVE  Inv'
<1>0. Types /\ Types'
  BY TypesNext DEF Inv
<1> SUFFICES Accounts' /\ Funds'
  BY <1>0 DEF Inv
<1> DEFINE Goal == Accounts' /\ Funds'
<1>1. ASSUME NEW u \in User, NEW v \in Amount, NEW to \in Address, TransferTx(u, to, v) PROVE Goal
  BY <1>1, TransferSafe
<1>2. ASSUME NEW u \in User, NEW v \in Amount, NEW c \in Contract, CreateTx(u, c, v) PROVE Goal
  <2>1. v \in Nat /\ frames = <<>> /\ txBuffer = Empty /\ DOMAIN Empty = {}
    BY <1>0, <1>2, ExecutorAssumption, EmptyWrites DEF CreateTx, NextTx, Types
  <2>2. \A a \in Address : Balance(a) \notin DOMAIN txBuffer'
    BY <1>2, <2>1, Keys DEF CreateTx, Over, At
  <2> QED
    BY <1>2, <2>1, <2>2, StartSafe DEF CreateTx, NextTx
<1>3. ASSUME NEW u \in User, NEW v \in Amount, NEW c \in Contract, ExecuteTx(u, c, v) PROVE Goal
  <2>1. /\ v \in Nat /\ frames = <<>> /\ levels = <<>> /\ txBuffer = Empty /\ DOMAIN Empty = {}
        /\ UNCHANGED <<db, receipts, nested>>
    BY <1>0, <1>3, ExecutorAssumption, EmptyWrites DEF ExecuteTx, NextTx, Types
  <2>2. CASE Known(c)
    <3>1. \A a \in Address : Balance(a) \notin DOMAIN txBuffer'
      BY <1>3, <2>1, <2>2 DEF ExecuteTx
    <3> QED
      BY <1>3, <2>1, <2>2, <3>1, StartSafe DEF ExecuteTx
  <2>3. CASE ~ Known(c)
    <3>1. UNCHANGED <<buffer, logged>> /\ levels' = <<>> /\ frames' = <<>>
      BY <1>3, <2>1, <2>3 DEF ExecuteTx, Refuse
    <3>2. ~ nested' => /\ \A a \in Address : db'[Balance(a)] = Endow[a] + receipts'[a]
                       /\ Accounted'
      BY <2>1, <3>1 DEF Inv, Accounts, Accounted, Settled, Updated
    <3> QED
      BY <1>0, <3>1, <3>2, EndSafe
  <2> QED
    BY <2>2, <2>3
<1>4. ASSUME NEW ok \in BOOLEAN, MetaTx(ok) PROVE Goal
  BY <1>4, MetaSafe
<1>5. ASSUME ErrorReturn PROVE Goal
  BY <1>5, UnwindSafe DEF ErrorReturn
<1>6. ASSUME NEW v \in 0..1, StorageWrite(v) PROVE Goal
  <2>1. frames # <<>> /\ UNCHANGED <<db, receipts, buffer, txBuffer, frames, logged, nested>>
    BY <1>6 DEF StorageWrite, HostCall
  <2>2. /\ Depth \in 1..Len(levels) /\ Depth = Len(frames) /\ Len(levels) \in Nat
        /\ levels[Depth] \in LevelSet /\ Running = levels[Depth] /\ Running.self \in Contract
        /\ levels \in Seq(LevelSet)
    BY <1>0, <2>1, RunningFacts, LevelFacts DEF Types
  <2> DEFINE k == Data(Running.self)
             w == Over(At(k, v), levels[Depth].base)
             l == [levels[Depth] EXCEPT !.base = w]
  <2>3. w \in Writes
    <3>1. v \in 0..MaxBalance
      BY ExecutorAssumption
    <3>2. At(k, v) \in Writes
      BY <2>2, <3>1, Keys, AtWrites
    <3> QED
      BY <1>0, <2>2, <3>2, OverWrites, LevelFacts
  <2>4. l \in LevelSet /\ l.base = w /\ l.sender = levels[Depth].sender /\ l.self = levels[Depth].self
        /\ l.events = levels[Depth].events
    <3> HIDE DEF w
    <3> QED
      BY <2>2, <2>3, LevelUpdates
  <2>5. levels' = [levels EXCEPT ![Depth] = l]
    BY <1>6, <2>2 DEF StorageWrite
  <2>6. \A a \in Address : /\ Balance(a) \in DOMAIN w <=> Balance(a) \in DOMAIN levels[Depth].base
                           /\ Balance(a) \in DOMAIN w => w[Balance(a)] = levels[Depth].base[Balance(a)]
    BY <2>2, Keys DEF Over, At
  <2> HIDE DEF l, w
  <2>7. levels' \in Seq(LevelSet) /\ Len(levels') = Len(levels) /\ levels'[Depth] = l
        /\ \A i \in 1..Len(levels) : i # Depth => levels'[i] = levels[i]
    BY <2>2, <2>4, <2>5, LevelSetTo
  <2>8. Unmoved(1) /\ levels'[1].events = levels[1].events
    <3>1. CASE Depth = 1
      BY <2>4, <2>7, <3>1 DEF Unmoved
    <3>2. CASE Depth # 1
      BY <2>2, <2>7, <3>2 DEF Unmoved
    <3> QED
      BY <3>1, <3>2
  <2>9. \A i \in 1..Len(levels'), a \in Address : Balance(a) \in DOMAIN levels'[i].base =>
           /\ i \in 1..Len(levels) /\ Balance(a) \in DOMAIN levels[i].base
           /\ levels'[i].base[Balance(a)] = levels[i].base[Balance(a)]
    BY <2>4, <2>6, <2>7
  <2>11. Len(levels') \in Nat /\ Len(levels') >= 1 /\ levels' # <<>> /\ Len(frames') \in Nat /\ Len(frames') <= Len(frames)
    BY <2>1, <2>2, <2>7
  <2> QED
    BY <2>1, <2>8, <2>9, <2>11, RunSafe
<1>7. ASSUME NEW to \in Address, NEW v \in Amount, BalanceTransfer(to, v) PROVE Goal
  <2>1. frames # <<>> /\ v \in Nat
    BY <1>7, ExecutorAssumption DEF BalanceTransfer, HostCall
  <2>2. Running.self \in Address
    BY <1>0, <2>1, RunningFacts
  <2> QED
    BY <1>7, <2>1, <2>2, MoveSafe, UnwindSafe DEF BalanceTransfer
<1>8. ASSUME Pay PROVE Goal
  <2>1. frames # <<>>
    BY <1>8 DEF Pay, HostCall
  <2>2. Running.self \in Address /\ Running.sender \in Address /\ frames[Depth].pay \in Nat
    BY <1>0, <2>1, RunningFacts, FrameFacts
  <2> QED
    BY <1>8, <2>1, <2>2, MoveSafe, UnwindSafe DEF Pay
<1>9. ASSUME NEW c \in Contract, NEW ea \in BOOLEAN, NEW v \in Amount, ContractExecute(c, v, ea) PROVE Goal
  <2>1. /\ frames # <<>> /\ UNCHANGED <<db, receipts, buffer, txBuffer, logged>>
        /\ Len(levels) > Depth \/ Depth < MaxNestDepth
        /\ nested' = TRUE /\ levels' = NestedLevels(c) /\ frames' = Append(frames, Frame(c, v, ea))
    BY <1>9 DEF ContractExecute, HostCall
  <2>2. /\ Len(levels') >= Depth + 1 /\ Len(levels') >= Len(levels) /\ Len(levels') \in Nat
        /\ \A i \in 1..Len(levels) : levels'[i] = levels[i]
        /\ \A i \in 1..Len(levels') : i > Len(levels) => levels'[i].base = Empty
    BY <1>0, <2>1, NestedFacts
  <2>3. /\ Depth \in 1..Len(levels) /\ Depth = Len(frames) /\ Len(levels) \in Nat /\ levels # <<>>
        /\ frames \in Seq(FrameSet)
    BY <1>0, <2>1, RunningFacts, LevelFacts DEF Types
  <2>4. Accounts'
    BY <2>1 DEF Accounts
  <2>5. Funds'
    <3> SUFFICES ASSUME NEW u \in User, levels'[1].sender # u
                 PROVE  Holds(txBuffer, u)' /\ \A i \in 1..Len(levels') : Holds(levels[i].base, u)'
      BY DEF Funds
    <3>1. levels[1].sender # u /\ Settled(u)' = Settled(u)
      BY <2>1, <2>2, <2>3 DEF Settled, Updated
    <3>2. Holds(txBuffer, u) /\ \A i \in 1..Len(levels) : Holds(levels[i].base, u)
      BY <2>3, <3>1 DEF Inv, Funds
    <3>3. Holds(txBuffer, u)'
      BY <2>1, <3>1, <3>2 DEF Holds
    <3>4. ASSUME NEW i \in 1..Len(levels') PROVE Holds(levels[i].base, u)'
      <4>1. CASE i \in 1..Len(levels)
        BY <4>1, <2>2, <3>1, <3>2 DEF Holds
      <4>2. CASE i > Len(levels)
        BY <4>2, <2>2, EmptyWrites DEF Holds
      <4> QED
        BY <4>1, <4>2, <2>2, <2>3
    <3> QED
      BY <3>3, <3>4
  <2> QED
    BY <2>4, <2>5
<1>10. ASSUME NEW c \in Contract, NEW ea \in BOOLEAN, ContractNotFound(c, ea) PROVE Goal
  <2>1. CASE ~ ea
    BY <1>10, <2>1, UnwindSafe DEF ContractNotFound
  <2>2. CASE ea
    <3> DEFINE lv == NestedLevels(c)
    <3>1. /\ frames # <<>> /\ UNCHANGED <<db, receipts, buffer, txBuffer, frames, logged, nested>>
          /\ Len(levels) > Depth \/ Depth < MaxNestDepth
          /\ levels' = [lv EXCEPT ![Depth + 1] = Drained(lv[Depth + 1])]
      BY <1>10, <2>2 DEF ContractNotFound, HostCall
    <3>2. /\ lv \in Seq(LevelSet) /\ Len(lv) >= Depth + 1 /\ Len(lv) \in Nat /\ Len(lv) >= Len(levels)
          /\ \A i \in 1..Len(levels) : lv[i] = levels[i]
          /\ \A i \in 1..Len(lv) : i > Len(levels) => lv[i].base = Empty
      BY <1>0, <3>1, NestedFacts
    <3> HIDE DEF lv
    <3>3. Depth \in 1..Len(levels) /\ Depth + 1 \in 1..Len(lv) /\ Len(frames) = Depth /\ Len(levels) \in Nat
      BY <1>0, <3>1, <3>2, RunningFacts, LevelFacts
    <3>4. lv[Depth + 1] \in LevelSet
      BY <3>2, <3>3
    <3>5. Drained(lv[Depth + 1]) \in LevelSet /\ Drained(lv[Depth + 1]).base = Empty
      BY <3>4, LevelUpdates
    <3>6. levels' \in Seq(LevelSet) /\ Len(levels') = Len(lv) /\ levels'[Depth + 1] = Drained(lv[Depth + 1])
          /\ \A i \in 1..Len(lv) : i # Depth + 1 => levels'[i] = lv[i]
      BY <3>1, <3>2, <3>3, <3>5, LevelSetTo
    <3>7. \A i \in 1..Depth : levels'[i] = levels[i]
      BY <3>2, <3>3, <3>6
    <3>8. \A i \in 1..Len(levels'), a \in Address : Balance(a) \in DOMAIN levels'[i].base =>
           /\ i \in 1..Len(levels) /\ Balance(a) \in DOMAIN levels[i].base
           /\ levels'[i].base[Balance(a)] = levels[i].base[Balance(a)]
      <4> TAKE i \in 1..Len(levels'), a \in Address
      <4>1. CASE i = Depth + 1
        BY <4>1, <3>5, <3>6, EmptyWrites
      <4>2. CASE i # Depth + 1 /\ i \in 1..Len(levels)
        BY <4>2, <3>2, <3>6
      <4>3. CASE i # Depth + 1 /\ i > Len(levels)
        BY <4>3, <3>2, <3>6, EmptyWrites
      <4> QED
        BY <4>1, <4>2, <4>3, <3>3, <3>2, <3>6
    <3>9. /\ Len(levels') \in Nat /\ Len(levels') >= 1 /\ levels' # <<>>
          /\ Len(frames') \in Nat /\ Len(frames') <= Len(frames)
      BY <3>1, <3>2, <3>3, <3>6
    <3>10. Unmoved(1) /\ levels'[1].events = levels[1].events
      BY <3>3, <3>7 DEF Unmoved
    <3> QED
      BY <3>1, <3>8, <3>9, <3>10, RunSafe
  <2> QED
    BY <2>1, <2>2
<1>11. ASSUME NestDepthExceeded PROVE Goal
  BY <1>11, UnwindSafe DEF NestDepthExceeded
<1>12. ASSUME NestedReturn PROVE Goal
  <2>1. UNCHANGED <<db, buffer, txBuffer, logged, receipts, nested>>
    BY <1>12 DEF NestedReturn
  <2>2. /\ Depth \in 2..Len(levels) /\ Depth = Len(frames) /\ frames # <<>>
        /\ frames' \in Seq(FrameSet) /\ Len(frames') = Depth - 1
        /\ \A i \in 1..Depth - 1 : frames'[i] = frames[i]
        /\ levels' \in Seq(LevelSet) /\ Len(levels') = Len(levels)
        /\ \A i \in 1..Len(levels) : Unmoved(i)
        /\ \A i \in 1..Len(levels) : i # Depth /\ i # Depth - 1 => levels'[i] = levels[i]
        /\ levels'[Depth].base = Empty
        /\ levels'[Depth - 1].base = Over(levels[Depth].base, levels[Depth - 1].base)
        /\ Len(levels) \in Nat
    BY <1>0, <1>12, Returned, LevelFacts
  <2>3. Accounts'
    <3>1. ~ nested => Len(frames) <= 1
      BY DEF Inv, Accounts
    <3>2. nested'
      BY <2>1, <2>2, <3>1, LevelFacts, <1>0
    <3> QED
      BY <3>2 DEF Accounts
  <2>4. Funds'
    <3> SUFFICES ASSUME NEW u \in User, levels'[1].sender # u
                 PROVE  Holds(txBuffer, u)' /\ \A i \in 1..Len(levels') : Holds(levels[i].base, u)'
      BY DEF Funds
    <3>1. levels[1].sender # u /\ Settled(u)' = Settled(u) /\ levels # <<>>
      BY <2>1, <2>2 DEF Settled, Updated, Unmoved
    <3>2. Holds(txBuffer, u) /\ \A i \in 1..Len(levels) : Holds(levels[i].base, u)
      BY <3>1 DEF Inv, Funds
    <3>3. Holds(txBuffer, u)'
      BY <2>1, <3>1, <3>2 DEF Holds
    <3>4. ASSUME NEW i \in 1..Len(levels') PROVE Holds(levels[i].base, u)'
      <4>1. CASE i # Depth /\ i # Depth - 1
        BY <4>1, <2>2, <3>1, <3>2 DEF Holds
      <4>2. CASE i = Depth
        BY <4>2, <2>2, EmptyWrites DEF Holds
      <4>3. CASE i = Depth - 1
        <5>1. Holds(levels[Depth].base, u) /\ Holds(levels[Depth - 1].base, u)
          BY <2>2, <3>2
        <5>2. levels'[i].base = Over(levels[Depth].base, levels[Depth - 1].base)
          BY <2>2, <4>3
        <5> QED
          BY <5>1, <5>2, <3>1 DEF Holds, Over
      <4> QED
        BY <4>1, <4>2, <4>3
    <3> QED
      BY <3>3, <3>4
  <2> QED
    BY <2>3, <2>4
<1>13. ASSUME Return PROVE Goal
  BY <1>13, ReturnSafe
<1>14. ASSUME EndBatch PROVE Goal
  <2>1. levels' = <<>> /\ frames' = <<>> /\ UNCHANGED <<db, buffer, logged, receipts, nested>>
    BY <1>0, <1>14 DEF EndBatch, Types
  <2>2. ~ nested' => /\ \A a \in Address : db'[Balance(a)] = Endow[a] + receipts'[a]
                     /\ Accounted'
    BY <2>1 DEF Inv, Accounts, Accounted, Settled, Updated
  <2> QED
    BY <1>0, <2>1, <2>2, EndSafe
<1>15. ASSUME Discard PROVE Goal
  <2>1. /\ levels' = <<>> /\ frames' = <<>> /\ UNCHANGED <<db, receipts, nested>>
        /\ buffer' = Empty /\ logged' = NoEvents
    BY <1>15 DEF Discard
  <2>2. ASSUME ~ nested'
        PROVE  \A a \in Address : db'[Balance(a)] = Endow[a] + receipts'[a]
    BY <2>1, <2>2 DEF Inv, Accounts
  <2>3. ASSUME ~ nested' PROVE Accounted'
    <3> SUFFICES ASSUME NEW a \in Address PROVE Settled(a)' = Endow[a] + receipts'[a] + logged'[a]
      BY DEF Accounted
    <3>1. Settled(a)' = db'[Balance(a)]
      BY <1>0, <2>1, EmptyWrites, Keys DEF Settled, Updated, Over, Types
    <3>2. logged'[a] = 0 /\ Endow[a] + receipts'[a] \in Int
      BY <1>0, <2>1, ExecutorAssumption DEF NoEvents, Types
    <3> QED
      BY <3>1, <3>2, <2>2, <2>3
  <2> QED
    BY <1>0, <2>1, <2>2, <2>3, EndSafe
<1>16. ASSUME CommitBlock PROVE Goal
  <2>1. /\ levels' = <<>> /\ frames' = <<>> /\ UNCHANGED nested
        /\ db' = Over(buffer, db) /\ buffer' = Empty
        /\ receipts' = AddEvents(receipts, logged) /\ logged' = NoEvents
    BY <1>0, <1>16 DEF CommitBlock, Types, Updated
  <2>2. ASSUME ~ nested', NEW a \in Address
        PROVE  /\ db'[Balance(a)] = Endow[a] + receipts'[a]
               /\ Settled(a)' = Endow[a] + receipts'[a] + logged'[a]
    <3>1. db'[Balance(a)] = Settled(a)
      BY <2>1 DEF Settled, Updated
    <3>2. Settled(a)' = db'[Balance(a)]
      BY <1>0, <2>1, EmptyWrites, Keys DEF Settled, Updated, Over, Types
    <3>3. Settled(a) = Endow[a] + receipts[a] + logged[a]
      BY <2>1, <2>2 DEF Inv, Accounts, Accounted
    <3>4. receipts'[a] = receipts[a] + logged[a] /\ logged'[a] = 0
      BY <2>1 DEF NoEvents, AddEvents
    <3>5. receipts[a] \in Int /\ logged[a] \in Int /\ Endow[a] \in Int
      BY <1>0, ExecutorAssumption DEF Types
    <3> QED
      BY <3>1, <3>2, <3>3, <3>4, <3>5
  <2>3. ~ nested' => /\ \A a \in Address : db'[Balance(a)] = Endow[a] + receipts'[a]
                     /\ Accounted'
    BY <2>2 DEF Accounted
  <2> QED
    BY <1>0, <2>1, <2>3, EndSafe
<1>17. ASSUME UNCHANGED vars PROVE Goal
  <2>1. UNCHANGED <<db, buffer, txBuffer, levels, frames, logged, receipts, nested>>
    BY <1>17 DEF vars
  <2>2. Accounts'
    BY <2>1 DEF Inv, Accounts, Accounted, Settled, Updated, Get, Stored
  <2>3. Funds'
    BY <2>1 DEF Inv, Funds, Holds, Settled, Updated
  <2> QED
    BY <2>2, <2>3
<1> HIDE DEF Goal
<1>18. Goal
  BY <1>1, <1>2, <1>3, <1>4, <1>5, <1>6, <1>7, <1>8, <1>9, <1>10, <1>11, <1>12, <1>13, <1>14, <1>15,
     <1>16, <1>17 DEF Next
<1> QED
  BY <1>18 DEF Goal

(* The genesis balances are accounted for. *)
LEMMA InvInit == Init => Inv
<1> SUFFICES ASSUME Init PROVE Accounts /\ Funds
  BY TypesInit DEF Inv
<1>1. /\ Types /\ Len(levels) = 0 /\ Len(frames) = 0 /\ levels = <<>> /\ frames = <<>>
      /\ 1..Len(levels) = {}
  BY TypesInit DEF Init
<1>2. Funds
  BY <1>1 DEF Funds
<1>3. ASSUME NEW a \in Address
      PROVE  db[Balance(a)] = Endow[a] + receipts[a] /\ Settled(a) = Endow[a] + receipts[a] + logged[a]
  <2>1. db[Balance(a)] = Endow[a]
    BY Keys DEF Init, Balance
  <2>2. receipts[a] = 0 /\ logged[a] = 0 /\ Endow[a] \in Int
    BY ExecutorAssumption DEF Init, NoEvents
  <2>3. Settled(a) = db[Balance(a)]
    BY <1>1, SettledFacts, EmptyWrites DEF Init
  <2> QED
    BY <2>1, <2>2, <2>3
<1> QED
  BY <1>1, <1>2, <1>3 DEF Accounts, Accounted

(* Inv is an invariant. *)
LEMMA InvHolds == Spec => []Inv
<1>1. Init => Inv
  BY InvInit
<1>2. Inv /\ [Next]_vars => Inv'
  BY InvNext
<1> QED
  BY <1>1, <1>2, PTL DEF Spec

-----------------------------------------------------------------------------
(* What the contracts store.  The overlay of the transaction holds none of it while
   calls run: their levels do.  Unless a failure has left something in a level
   above: the levels above the running call hold nothing of it, each running call
   has below it the storage that its failure is to restore, and the last one sees
   what is meant to be there. *)
Storage ==
  /\ \A c \in Contract : Data(c) \notin DOMAIN txBuffer
  /\ ~ leftover =>
       /\ ~ StoredAbove(Depth)
       /\ \A c \in Contract : BaseGet(Depth, Data(c)) = meant[c]
       /\ \A n \in 1..Depth, c \in Contract : BaseGet(n - 1, Data(c)) = frames[n].before[c]

(* The keys of the contracts' storage are different. *)
LEMMA DataKeys ==
  /\ \A c, d \in Contract : Data(c) = Data(d) => c = d
  /\ \A c, d \in Contract : Data(c) # Code(d)
  /\ \A c \in Contract : Data(c) # Meta
  /\ \A a \in Address, c \in Contract : Data(c) # Balance(a)
BY DEF Data, Code, Meta, Balance

(* Below the first level is the transaction's own context. *)
LEMMA BaseGetZero ==
  ASSUME NEW k
  PROVE  BaseGet(0, k) = Get(k)
<1>1. {i \in 1..0 : k \in DOMAIN levels[i].base} = {}
  OBVIOUS
<1> QED
  BY <1>1 DEF BaseGet

(* BaseGet as an operator of the levels and of what is below them. *)
Sees(lv, below, n, k) ==
  LET written == {i \in 1..n : k \in DOMAIN lv[i].base}
  IN  IF written = {} THEN below ELSE lv[Max(written)].base[k]

(* A level that has written a key shows its own value, *)
LEMMA SeesTop ==
  ASSUME NEW lv, NEW below, NEW n \in Nat \ {0}, NEW k, k \in DOMAIN lv[n].base
  PROVE  Sees(lv, below, n, k) = lv[n].base[k]
<1> DEFINE w == {i \in 1..n : k \in DOMAIN lv[i].base}
<1>1. n \in w /\ w \subseteq 1..n /\ 1..n \subseteq Int /\ IsFiniteSet(1..n)
  BY FS_Interval
<1>2. \A i \in w : i <= n
  OBVIOUS
<1>3. Max(w) = n
  <2> HIDE DEF w
  <2>1. Max(w) \in w /\ \A i \in w : i <= Max(w)
    BY <1>1, FS_Subset, MaxProperty
  <2>2. n <= Max(w) /\ Max(w) <= n /\ Max(w) \in Int
    BY <1>1, <1>2, <2>1
  <2> QED
    BY <2>2
<1> QED
  BY <1>1, <1>3 DEF Sees

(* and one that has not shows that of the level below. *)
LEMMA SeesBelow ==
  ASSUME NEW lv, NEW below, NEW n \in Nat \ {0}, NEW k, k \notin DOMAIN lv[n].base
  PROVE  Sees(lv, below, n, k) = Sees(lv, below, n - 1, k)
<1>1. \A i \in 1..n : i \in 1..n - 1 \/ i = n
  OBVIOUS
<1>2. \A i \in 1..n - 1 : i \in 1..n
  OBVIOUS
<1>3. {i \in 1..n : k \in DOMAIN lv[i].base} = {i \in 1..n - 1 : k \in DOMAIN lv[i].base}
  BY <1>1, <1>2
<1> QED
  BY <1>3 DEF Sees

(* What level n shows of a contract's storage, before a step and after it. *)
LEMMA StorageSees ==
  ASSUME NEW n \in Nat, NEW c \in Contract
  PROVE  /\ BaseGet(n, Data(c)) = Sees(levels, Get(Data(c)), n, Data(c))
         /\ BaseGet(n, Data(c))' = Sees(levels', Get(Data(c))', n, Data(c))
BY DEF BaseGet, Sees, Data

(* The same of the storage of a contract after a step. *)
LEMMA StorageSame ==
  ASSUME Types, NEW n \in 0..Len(levels), NEW c \in Contract, Get(Data(c))' = Get(Data(c)),
         \A i \in 1..n :
           /\ Data(c) \in DOMAIN levels'[i].base <=> Data(c) \in DOMAIN levels[i].base
           /\ Data(c) \in DOMAIN levels[i].base => levels'[i].base[Data(c)] = levels[i].base[Data(c)]
  PROVE  BaseGet(n, Data(c))' = BaseGet(n, Data(c))
<1> DEFINE k == Data(c)
<1>1. Get(k)' = Get(k) /\ \A i \in 1..n :
           /\ k \in DOMAIN levels'[i].base <=> k \in DOMAIN levels[i].base
           /\ k \in DOMAIN levels[i].base => levels'[i].base[k] = levels[i].base[k]
  OBVIOUS
<1>2. k' = k
  BY DEF Data
<1> HIDE DEF k
<1>3. BaseGet(n, k)' = BaseGet(n, k)
  BY <1>1, BaseGetSame
<1> QED
  BY <1>3 DEF k

(* What a transaction's context shows of the storage once no overlay hides it. *)
LEMMA GetStored ==
  ASSUME NEW c \in Contract
  PROVE  Get(Data(c)) = IF Data(c) \in DOMAIN txBuffer THEN txBuffer[Data(c)]
                        ELSE IF Data(c) \in DOMAIN buffer THEN buffer[Data(c)] ELSE db[Data(c)]
<1> DEFINE k == Data(c)
<1> HIDE DEF k
<1>1. Get(k) = IF k \in DOMAIN txBuffer THEN txBuffer[k]
               ELSE IF k \in DOMAIN buffer THEN buffer[k] ELSE db[k]
  BY DEF Get, Over, Stored
<1> QED
  BY <1>1 DEF k

(* No call runs after the step: the block shows what is meant. *)
LEMMA StorageEnd ==
  ASSUME levels' = <<>>, frames' = <<>>, txBuffer' = Empty,
         ~ leftover' => \A c \in Contract : Get(Data(c))' = meant'[c]
  PROVE  Storage'
<1>1. \A c \in Contract : Data(c) \notin DOMAIN txBuffer'
  BY EmptyWrites
<1>2. Len(levels') = 0 /\ Len(frames') = 0 /\ Depth' = 0
  BY DEF Depth
<1>3. ~ StoredAbove(Depth)'
  <2>1. 0 + 1..Len(levels') = {}
    BY <1>2
  <2> QED
    BY <1>2, <2>1 DEF StoredAbove
<1>4. ASSUME NEW c \in Contract PROVE BaseGet(Depth, Data(c))' = Get(Data(c))'
  <2>1. {i \in 1..0 : Data(c) \in DOMAIN levels'[i].base} = {}
    OBVIOUS
  <2> QED
    BY <1>2, <2>1 DEF BaseGet
<1>5. 1..Depth' = {}
  BY <1>2
<1> QED
  BY <1>1, <1>3, <1>4, <1>5 DEF Storage

(* A step of the running call that touches no storage, in any level. *)
LEMMA StorageRuns ==
  ASSUME Types, Storage, UNCHANGED <<db, buffer, frames, meant, leftover>>,
         Len(levels') \in Nat, Len(levels') >= Len(levels),
         \A c \in Contract : Data(c) \notin DOMAIN txBuffer',
         \A i \in 1..Len(levels'), c \in Contract :
           IF i <= Len(levels)
           THEN \/ /\ Data(c) \in DOMAIN levels'[i].base <=> Data(c) \in DOMAIN levels[i].base
                   /\ Data(c) \in DOMAIN levels[i].base =>
                        levels'[i].base[Data(c)] = levels[i].base[Data(c)]
                \/ i > Depth /\ Data(c) \notin DOMAIN levels'[i].base
           ELSE Data(c) \notin DOMAIN levels'[i].base
  PROVE  Storage'
<1>1. /\ Depth \in Nat /\ Depth <= Len(levels) /\ Len(levels) \in Nat /\ Depth' = Depth
  BY FrameFacts, LevelFacts DEF Depth, Types
<1>2. ASSUME NEW c \in Contract PROVE Get(Data(c))' = Get(Data(c))
  <2>1. Data(c) \notin DOMAIN txBuffer /\ Data(c) \notin DOMAIN txBuffer'
    BY DEF Storage
  <2> DEFINE k == Data(c)
  <2>2. k' = k /\ k \notin DOMAIN txBuffer /\ k \notin DOMAIN txBuffer'
    BY <2>1 DEF Data
  <2> HIDE DEF k
  <2>3. Get(k)' = Get(k)
    BY <2>2 DEF Get, Over, Stored
  <2> QED
    BY <2>3 DEF k
<1>3. ASSUME NEW n \in 0..Depth, NEW c \in Contract PROVE BaseGet(n, Data(c))' = BaseGet(n, Data(c))
  <2>1. n \in 0..Len(levels)
    BY <1>1
  <2>2. ASSUME NEW i \in 1..n
        PROVE  /\ Data(c) \in DOMAIN levels'[i].base <=> Data(c) \in DOMAIN levels[i].base
               /\ Data(c) \in DOMAIN levels[i].base => levels'[i].base[Data(c)] = levels[i].base[Data(c)]
    <3>1. i \in 1..Len(levels') /\ i <= Len(levels) /\ ~ (i > Depth)
      BY <1>1
    <3> QED
      BY <3>1
  <2> QED
    BY <1>2, <2>1, <2>2, StorageSame
<1>4. ASSUME ~ leftover' PROVE ~ StoredAbove(Depth)'
  <2> SUFFICES ASSUME NEW i \in Depth + 1..Len(levels'), NEW c \in Contract,
                      Data(c) \in DOMAIN levels'[i].base
               PROVE  FALSE
    BY <1>1 DEF StoredAbove
  <2>1. i \in 1..Len(levels') /\ i <= Len(levels) /\ Data(c) \in DOMAIN levels[i].base
    BY <1>1
  <2>2. i \in Depth + 1..Len(levels)
    BY <1>1, <2>1
  <2>3. StoredAbove(Depth)
    BY <2>1, <2>2 DEF StoredAbove
  <2> QED
    BY <1>4, <2>3 DEF Storage
<1>5. ASSUME ~ leftover', NEW c \in Contract PROVE BaseGet(Depth, Data(c))' = meant'[c]
  <2>1. BaseGet(Depth, Data(c)) = meant[c]
    BY <1>5 DEF Storage
  <2>2. PICK d \in 0..Depth : d = Depth
    BY <1>1
  <2>3. BaseGet(Depth, Data(c))' = BaseGet(d, Data(c))'
    BY <1>1, <2>2 DEF BaseGet
  <2>4. BaseGet(d, Data(c))' = BaseGet(d, Data(c))
    BY <1>3
  <2>5. meant' = meant
    OBVIOUS
  <2>6. BaseGet(d, Data(c)) = meant[c]
    BY <2>1, <2>2
  <2> QED
    BY <2>3, <2>4, <2>5, <2>6
<1>6. ASSUME ~ leftover', NEW n \in 1..Depth, NEW c \in Contract
      PROVE  BaseGet(n - 1, Data(c))' = frames'[n].before[c]
  <2>1. BaseGet(n - 1, Data(c)) = frames[n].before[c]
    BY <1>6 DEF Storage
  <2>2. n - 1 \in 0..Depth
    BY <1>1
  <2> DEFINE m == n - 1
  <2>3. m \in 0..Depth /\ BaseGet(m, Data(c)) = frames[n].before[c]
    BY <2>1, <2>2
  <2> HIDE DEF m
  <2>4. BaseGet(m, Data(c))' = BaseGet(m, Data(c))
    BY <1>3, <2>3
  <2>5. BaseGet(m, Data(c))' = frames'[n].before[c]
    BY <2>3, <2>4
  <2> QED
    BY <2>5 DEF m
<1> QED
  BY <1>1, <1>4, <1>5, <1>6 DEF Storage

(* The first call starts: below it is what was meant to be there, and its level is new. *)
LEMMA StorageStart ==
  ASSUME Types, Storage, frames = <<>>, NEW c \in Contract, NEW u \in User, NEW pay \in Nat,
         levels' = <<Level(c, u)>>, frames' = <<Frame(c, pay, FALSE)>>,
         UNCHANGED <<db, buffer, meant, leftover>>,
         \A d \in Contract : Data(d) \notin DOMAIN txBuffer'
  PROVE  Storage'
<1>1. /\ Len(levels') = 1 /\ Len(frames') = 1 /\ Depth' = 1 /\ levels'[1].base = Empty
      /\ DOMAIN Empty = {} /\ Depth = 0
  BY FirstLevel, EmptyWrites DEF Depth
<1>2. ~ StoredAbove(Depth)'
  <2>1. 1 + 1..Len(levels') = {}
    BY <1>1
  <2> QED
    BY <1>1, <2>1 DEF StoredAbove
<1>3. ASSUME NEW d \in Contract, NEW n \in 0..1 PROVE BaseGet(n, Data(d))' = Get(Data(d))
  <2> DEFINE k == Data(d)
  <2>1. k \notin DOMAIN txBuffer' /\ k \notin DOMAIN txBuffer
    BY DEF Storage
  <2>2. \A i \in 1..n : i = 1
    OBVIOUS
  <2> HIDE DEF k
  <2>3. {i \in 1..n : k \in DOMAIN levels'[i].base} = {}
    BY <1>1, <2>2
  <2>4. Get(k)' = Get(k)
    BY <2>1 DEF Get, Over, Stored
  <2>5. BaseGet(n, k)' = Get(k)
    BY <2>3, <2>4 DEF BaseGet
  <2> QED
    BY <2>5 DEF k, Data
<1>4. ASSUME ~ leftover', NEW d \in Contract PROVE Get(Data(d)) = meant[d]
  <2>1. BaseGet(Depth, Data(d)) = meant[d]
    BY <1>4 DEF Storage
  <2> QED
    BY <1>1, <2>1, BaseGetZero
<1>5. ASSUME ~ leftover', NEW d \in Contract PROVE BaseGet(Depth, Data(d))' = meant'[d]
  <2>1. BaseGet(Depth, Data(d))' = BaseGet(1, Data(d))'
    BY <1>1 DEF BaseGet
  <2>2. BaseGet(1, Data(d))' = Get(Data(d))
    BY <1>3
  <2>3. meant' = meant
    OBVIOUS
  <2> QED
    BY <1>4, <1>5, <2>1, <2>2, <2>3
<1>6. ASSUME ~ leftover', NEW n \in 1..1, NEW d \in Contract
      PROVE  BaseGet(n - 1, Data(d))' = frames'[n].before[d]
  <2>1. n = 1 /\ frames'[1].before = meant
    BY DEF Frame
  <2>2. BaseGet(n - 1, Data(d))' = BaseGet(0, Data(d))'
    BY <2>1
  <2>3. BaseGet(0, Data(d))' = Get(Data(d))
    BY <1>3
  <2> QED
    BY <1>4, <1>6, <2>1, <2>2, <2>3
<1> QED
  BY <1>1, <1>2, <1>5, <1>6 DEF Storage

(* A failure: the levels below the call it ends are as they were. *)
LEMMA StorageUnwind ==
  ASSUME Types, Storage, HostCall, Unwind
  PROVE  Storage'
<1>1. /\ frames # <<>> /\ UNCHANGED db /\ Depth \in 1..Len(levels) /\ Depth = Len(frames)
      /\ Len(levels) \in Nat
  BY RunningFacts, LevelFacts DEF HostCall
<1>2. CASE /\ meant' = frames[1].before /\ leftover' = leftover
           /\ frames' = <<>> /\ levels' = <<>> /\ txBuffer' = Empty /\ UNCHANGED buffer
  <2>1. ASSUME ~ leftover', NEW c \in Contract PROVE Get(Data(c))' = meant'[c]
    <3> DEFINE k == Data(c)
               m == 1 - 1
    <3>1. 1 \in 1..Depth /\ m = 0
      BY <1>1
    <3>2. BaseGet(m, k) = frames[1].before[c]
      BY <1>2, <2>1, <3>1 DEF Storage
    <3>3. k \notin DOMAIN txBuffer /\ k \notin DOMAIN txBuffer'
      BY <1>2, EmptyWrites DEF Storage
    <3> HIDE DEF k, m
    <3>4. Get(k)' = Get(k)
      BY <1>1, <1>2, <3>3 DEF Get, Over, Stored
    <3>5. Get(k)' = meant'[c]
      BY <1>2, <3>1, <3>2, <3>4, BaseGetZero
    <3> QED
      BY <3>5 DEF k, Data
  <2> QED
    BY <1>2, <2>1, StorageEnd
<1>3. ASSUME NEW n \in 2..Depth, Len(frames') = n - 1,
             \A i \in 1..n - 1 : frames'[i] = frames[i],
             levels' \in Seq(LevelSet), Len(levels') = Len(levels),
             \A i \in 1..Len(levels) : i # n => levels'[i] = levels[i],
             levels'[n] = Drained(levels[n]),
             UNCHANGED <<txBuffer, buffer>>,
             meant' = frames[n].before,
             leftover' = (leftover \/ StoredAbove(n))
      PROVE  Storage'
  <2>1. /\ n \in Nat /\ n \in 1..Len(levels) /\ Depth' = n - 1 /\ DOMAIN levels'[n].base = {}
        /\ levels[n] \in LevelSet
    <3>1. n \in Nat /\ n \in 1..Len(levels) /\ Depth' = n - 1 /\ levels[n] \in LevelSet
      BY <1>1, <1>3, LevelFacts DEF Depth
    <3> QED
      BY <1>3, <3>1, LevelUpdates, EmptyWrites
  <2>2. \A c \in Contract : Data(c) \notin DOMAIN txBuffer'
    BY <1>3 DEF Storage
  <2>3. ASSUME ~ leftover' PROVE ~ StoredAbove(Depth)'
    <3> SUFFICES ASSUME NEW i \in n..Len(levels'), NEW c \in Contract, Data(c) \in DOMAIN levels'[i].base
                 PROVE  FALSE
      BY <2>1 DEF StoredAbove
    <3>1. i # n
      BY <2>1
    <3>2. i \in n + 1..Len(levels) /\ levels'[i] = levels[i]
      BY <1>3, <2>1, <3>1
    <3>3. StoredAbove(n)
      BY <3>2 DEF StoredAbove
    <3> QED
      BY <1>3, <2>3, <3>3
  <2>4. ASSUME NEW m \in 0..n - 1, NEW c \in Contract PROVE BaseGet(m, Data(c))' = BaseGet(m, Data(c))
    <3>1. m \in 0..Len(levels)
      BY <2>1
    <3>2. \A i \in 1..m : levels'[i] = levels[i]
      BY <1>3, <2>1
    <3> DEFINE k == Data(c)
    <3>3. k \notin DOMAIN txBuffer /\ k' = k
      BY DEF Storage, Data
    <3> HIDE DEF k
    <3>4. Get(k)' = Get(k)
      BY <1>1, <1>3 DEF Get, Over, Stored
    <3>5. BaseGet(m, k)' = BaseGet(m, k)
      BY <3>1, <3>2, <3>4, BaseGetSame
    <3> QED
      BY <3>5 DEF k
  <2>5. ASSUME ~ leftover', NEW m \in 1..n, NEW c \in Contract
        PROVE  BaseGet(m - 1, Data(c))' = frames[m].before[c]
    <3>0. ~ leftover
      BY <1>3, <2>5
    <3>1. m \in 1..Depth /\ m - 1 \in 0..n - 1
      BY <1>1, <2>1
    <3>2. PICK l \in 0..n - 1 : l = m - 1
      BY <3>1
    <3>3. BaseGet(l, Data(c)) = frames[m].before[c]
      BY <3>0, <3>1, <3>2 DEF Storage
    <3>4. BaseGet(l, Data(c))' = BaseGet(l, Data(c))
      BY <2>4
    <3> QED
      BY <3>2, <3>3, <3>4
  <2>6. ASSUME ~ leftover', NEW c \in Contract PROVE BaseGet(Depth, Data(c))' = meant'[c]
    <3>1. n \in 1..n
      BY <2>1
    <3>2. BaseGet(n - 1, Data(c))' = frames[n].before[c]
      BY <2>5, <2>6, <3>1
    <3>3. BaseGet(Depth, Data(c))' = BaseGet(n - 1, Data(c))'
      BY <2>1 DEF BaseGet
    <3> QED
      BY <1>3, <3>2, <3>3
  <2>7. ASSUME ~ leftover', NEW m \in 1..n - 1, NEW c \in Contract
        PROVE  BaseGet(m - 1, Data(c))' = frames'[m].before[c]
    <3>1. m \in 1..n /\ frames'[m] = frames[m]
      BY <1>3, <2>1
    <3> QED
      BY <2>5, <2>7, <3>1
  <2> QED
    BY <2>1, <2>2, <2>3, <2>6, <2>7 DEF Storage
<1> QED
  BY <1>1, <1>2, <1>3, Unwound

(* A contract's transfer writes balances, on whatever level. *)
LEMMA StorageMove ==
  ASSUME Types, Storage, HostCall, NEW from \in Address, NEW to \in Address, NEW value \in Nat,
         MoveFunds(from, to, value)
  PROVE  Storage'
<1>1. frames # <<>> /\ UNCHANGED <<db, buffer, frames, meant, leftover>>
  BY DEF HostCall, MoveFunds
<1>2. PICK x \in 0..MaxBalance, y \in 0..MaxBalance :
         LET items == TransferItems(from, to, value, x, y)
         IN  /\ Transferable(from, to, value, x, y)
             /\ levels' \in Seq(LevelSet) /\ Len(levels') = Len(levels)
             /\ \A i \in 1..Len(levels) : i # Depth - 1 => levels'[i].base = levels[i].base
             /\ Depth > 1 => /\ levels'[Depth - 1].base = Over(items, levels[Depth - 1].base)
                             /\ txBuffer' = txBuffer
             /\ Depth = 1 => txBuffer' = Over(items, txBuffer)
  BY <1>1, Moved
<1> DEFINE items == TransferItems(from, to, value, x, y)
<1>3. \A c \in Contract : Data(c) \notin DOMAIN items
  BY DataKeys DEF TransferItems, Over, At
<1>4. Depth \in 1..Len(levels) /\ Len(levels) \in Nat
  BY <1>1, RunningFacts, LevelFacts
<1> HIDE DEF items
<1>5. \A c \in Contract : Data(c) \notin DOMAIN txBuffer'
  <2>1. CASE Depth = 1
    <3>1. txBuffer' = Over(items, txBuffer)
      BY <2>1, <1>2 DEF items
    <3> QED
      BY <3>1, <1>3 DEF Storage, Over
  <2>2. CASE Depth > 1
    BY <2>2, <1>2 DEF Storage
  <2> QED
    BY <1>4, <2>1, <2>2
<1>6. ASSUME NEW i \in 1..Len(levels'), NEW c \in Contract
      PROVE  /\ Data(c) \in DOMAIN levels'[i].base <=> Data(c) \in DOMAIN levels[i].base
             /\ Data(c) \in DOMAIN levels[i].base => levels'[i].base[Data(c)] = levels[i].base[Data(c)]
             /\ i <= Len(levels)
  <2>0. i \in 1..Len(levels) /\ i <= Len(levels)
    BY <1>2, <1>4
  <2>1. CASE i # Depth - 1
    BY <2>0, <2>1, <1>2
  <2>2. CASE i = Depth - 1
    <3>1. levels'[i].base = Over(items, levels[i].base)
      BY <2>0, <2>2, <1>2, <1>4 DEF items
    <3> QED
      BY <2>0, <3>1, <1>3 DEF Over
  <2> QED
    BY <2>1, <2>2
<1>7. Len(levels') \in Nat /\ Len(levels') >= Len(levels)
  BY <1>2, <1>4
<1> QED
  BY <1>1, <1>5, <1>6, <1>7, StorageRuns

(* A contract writes its own cell. *)
LEMMA StorageWritten ==
  ASSUME Types, Storage, NEW v \in 0..1, StorageWrite(v)
  PROVE  Storage'
<1>1. /\ frames # <<>> /\ UNCHANGED <<db, buffer, txBuffer, frames, leftover>>
      /\ meant' = [meant EXCEPT ![Running.self] = v]
      /\ levels' = [levels EXCEPT ![Depth].base = Over(At(Data(Running.self), v), @)]
  BY DEF StorageWrite, HostCall
<1>2. /\ Depth \in 1..Len(levels) /\ Depth = Len(frames) /\ Len(levels) \in Nat
      /\ levels[Depth] \in LevelSet /\ Running.self \in Contract
      /\ levels \in Seq(LevelSet) /\ Depth' = Depth
  BY <1>1, RunningFacts, LevelFacts DEF Types, Depth
<1>0. PICK self \in Contract : self = Running.self
  BY <1>2
<1> DEFINE w == Over(At(Data(self), v), levels[Depth].base)
           l == [levels[Depth] EXCEPT !.base = w]
<1>3. /\ DOMAIN w = DOMAIN levels[Depth].base \cup {Data(self)}
      /\ w[Data(self)] = v
      /\ \A k \in DOMAIN levels[Depth].base : k # Data(self) => w[k] = levels[Depth].base[k]
  BY DEF Over, At
<1>4. w \in Writes
  <2>1. v \in 0..MaxBalance
    BY ExecutorAssumption
  <2>2. At(Data(self), v) \in Writes
    BY <1>2, <2>1, Keys, AtWrites
  <2> QED
    BY <1>2, <2>2, OverWrites, LevelFacts
<1>5. l \in LevelSet /\ l.base = w
  <2> HIDE DEF w
  <2> QED
    BY <1>2, <1>4, LevelUpdates
<1>6. levels' = [levels EXCEPT ![Depth] = l]
  BY <1>0, <1>1, <1>2
<1> HIDE DEF w, l
<1>7. levels' \in Seq(LevelSet) /\ Len(levels') = Len(levels) /\ levels'[Depth] = l
      /\ \A i \in 1..Len(levels) : i # Depth => levels'[i] = levels[i]
  BY <1>2, <1>5, <1>6, LevelSetTo
<1>8. \A c \in Contract : Data(c) \notin DOMAIN txBuffer'
  BY <1>1 DEF Storage
<1>9. \A k : Get(k)' = Get(k)
  BY <1>1 DEF Get, Stored
<1>10. ASSUME NEW n \in 0..Depth, NEW c \in Contract, n < Depth \/ c # self
       PROVE  BaseGet(n, Data(c))' = BaseGet(n, Data(c))
  <2> DEFINE k == Data(c)
  <2>1. n \in 0..Len(levels)
    BY <1>2
  <2>2. c # self => Data(c) # Data(self)
    BY DataKeys
  <2>3. ASSUME NEW i \in 1..n
        PROVE  /\ k \in DOMAIN levels'[i].base <=> k \in DOMAIN levels[i].base
               /\ k \in DOMAIN levels[i].base => levels'[i].base[k] = levels[i].base[k]
    <3>1. CASE i # Depth
      <4>1. i \in 1..Len(levels)
        BY <2>1, <1>2
      <4> QED
        BY <3>1, <4>1, <1>7
    <3>2. CASE i = Depth
      <4>1. k # Data(self)
        BY <1>2, <1>10, <2>2, <3>2
      <4>2. levels'[i].base = w
        BY <1>5, <1>7, <3>2
      <4> QED
        BY <1>3, <3>2, <4>1, <4>2
    <3> QED
      BY <3>1, <3>2
  <2>4. k' = k
    BY DEF Data
  <2> HIDE DEF k
  <2>5. BaseGet(n, k)' = BaseGet(n, k)
    BY <2>1, <2>3, <1>9, BaseGetSame
  <2> QED
    BY <2>5 DEF k
<1>11. BaseGet(Depth, Data(self))' = v
  <2>1. Depth \in Nat \ {0} /\ Depth \in Nat
    BY <1>2
  <2>2. PICK d \in Nat \ {0} : d = Depth
    BY <2>1
  <2>3. Data(self) \in DOMAIN levels'[d].base /\ levels'[d].base[Data(self)] = v
    BY <1>3, <1>5, <1>7, <2>2
  <2>4. Sees(levels', Get(Data(self))', d, Data(self)) = v
    BY <2>3, SeesTop
  <2>5. BaseGet(d, Data(self))' = Sees(levels', Get(Data(self))', d, Data(self))
    BY StorageSees
  <2>6. BaseGet(Depth, Data(self))' = BaseGet(d, Data(self))'
    BY <1>2, <2>2 DEF BaseGet
  <2> QED
    BY <2>4, <2>5, <2>6
<1>12. ASSUME ~ leftover' PROVE ~ StoredAbove(Depth)'
  <2> SUFFICES ASSUME NEW i \in Depth + 1..Len(levels'), NEW c \in Contract,
                      Data(c) \in DOMAIN levels'[i].base
               PROVE  FALSE
    BY <1>2 DEF StoredAbove
  <2>1. i \in Depth + 1..Len(levels) /\ levels'[i] = levels[i]
    BY <1>2, <1>7
  <2>2. StoredAbove(Depth)
    BY <2>1 DEF StoredAbove
  <2> QED
    BY <1>1, <1>12, <2>2 DEF Storage
<1>13. ASSUME ~ leftover', NEW c \in Contract PROVE BaseGet(Depth, Data(c))' = meant'[c]
  <2>1. meant \in [Contract -> Nat] /\ meant' = [meant EXCEPT ![self] = v]
    BY <1>0, <1>1 DEF Types, Meant
  <2>2. CASE c = self
    <3>1. meant'[c] = v
      BY <2>1, <2>2
    <3> QED
      BY <1>11, <2>2, <3>1
  <2>3. CASE c # self
    <3>1. meant'[c] = meant[c]
      BY <2>1, <2>3
    <3>2. PICK d \in 0..Depth : d = Depth
      BY <1>2
    <3>3. BaseGet(d, Data(c))' = BaseGet(d, Data(c))
      BY <1>10, <2>3
    <3>4. BaseGet(Depth, Data(c))' = BaseGet(d, Data(c))'
      BY <1>2, <3>2 DEF BaseGet
    <3>5. BaseGet(d, Data(c)) = meant[c]
      BY <1>1, <1>13, <3>2 DEF Storage
    <3> QED
      BY <3>1, <3>3, <3>4, <3>5
  <2> QED
    BY <2>2, <2>3
<1>14. ASSUME ~ leftover', NEW n \in 1..Depth, NEW c \in Contract
       PROVE  BaseGet(n - 1, Data(c))' = frames'[n].before[c]
  <2>1. PICK m \in 0..Depth : m = n - 1 /\ m < Depth
    BY <1>2
  <2>2. BaseGet(m, Data(c))' = BaseGet(m, Data(c))
    BY <1>10, <2>1
  <2>3. BaseGet(m, Data(c)) = frames[n].before[c]
    BY <1>1, <1>14, <2>1 DEF Storage
  <2> QED
    BY <1>1, <2>1, <2>2, <2>3
<1> QED
  BY <1>2, <1>8, <1>12, <1>13, <1>14 DEF Storage

(* A nested call begins: its level, kept or new, holds nothing of the storage. *)
LEMMA StorageCall ==
  ASSUME Types, Storage, NEW c \in Contract, NEW v \in Amount, NEW ea \in BOOLEAN,
         ContractExecute(c, v, ea)
  PROVE  Storage'
<1>1. /\ frames # <<>> /\ UNCHANGED <<db, buffer, txBuffer, meant, leftover>>
      /\ Len(levels) > Depth \/ Depth < MaxNestDepth
      /\ levels' = NestedLevels(c) /\ frames' = Append(frames, Frame(c, v, ea))
  BY DEF ContractExecute, HostCall
<1>2. /\ Len(levels') >= Depth + 1 /\ Len(levels') >= Len(levels) /\ Len(levels') \in Nat
      /\ \A i \in 1..Len(levels) : levels'[i] = levels[i]
      /\ \A i \in 1..Len(levels') : i > Len(levels) => levels'[i].base = Empty
  BY <1>1, NestedFacts
<1>3. /\ Depth \in 1..Len(levels) /\ Depth = Len(frames) /\ Len(levels) \in Nat /\ frames \in Seq(FrameSet)
  BY <1>1, RunningFacts, LevelFacts DEF Types
<1>4. /\ Depth' = Depth + 1 /\ frames'[Depth + 1].before = meant
      /\ \A n \in 1..Depth : frames'[n] = frames[n]
  <2>1. Depth' = Depth + 1 /\ frames'[Depth + 1] = Frame(c, v, ea)
        /\ \A n \in 1..Depth : frames'[n] = frames[n]
    BY <1>1, <1>3 DEF Depth
  <2> QED
    BY <2>1 DEF Frame
<1>5. \A d \in Contract : Data(d) \notin DOMAIN txBuffer'
  BY <1>1 DEF Storage
<1>6. \A k : Get(k)' = Get(k)
  BY <1>1 DEF Get, Stored
<1>7. ASSUME ~ leftover', NEW i \in Depth + 1..Len(levels'), NEW d \in Contract
      PROVE  Data(d) \notin DOMAIN levels'[i].base
  <2>1. CASE i > Len(levels)
    BY <1>2, <1>3, <2>1, EmptyWrites
  <2>2. CASE i <= Len(levels)
    <3>1. i \in Depth + 1..Len(levels) /\ levels'[i] = levels[i]
      BY <1>2, <1>3, <2>2
    <3>2. ~ StoredAbove(Depth)
      BY <1>1, <1>7 DEF Storage
    <3> QED
      BY <3>1, <3>2 DEF StoredAbove
  <2> QED
    BY <1>2, <1>3, <2>1, <2>2
<1>8. ASSUME ~ leftover' PROVE ~ StoredAbove(Depth)'
  <2> SUFFICES ASSUME NEW i \in Depth + 2..Len(levels'), NEW d \in Contract,
                      Data(d) \in DOMAIN levels'[i].base
               PROVE  FALSE
    <3>1. Depth' + 1 = Depth + 2
      BY <1>3, <1>4
    <3> QED
      BY <3>1 DEF StoredAbove
  <2>1. i \in Depth + 1..Len(levels')
    BY <1>2, <1>3
  <2> QED
    BY <1>7, <1>8, <2>1
<1>9. ASSUME NEW m \in 0..Depth, NEW d \in Contract PROVE BaseGet(m, Data(d))' = BaseGet(m, Data(d))
  <2>1. m \in 0..Len(levels)
    BY <1>3
  <2>2. \A i \in 1..m : levels'[i] = levels[i]
    BY <1>2, <1>3
  <2> QED
    BY <1>6, <2>1, <2>2, StorageSame
<1>10. PICK e \in 0..Depth : e = Depth
  BY <1>3
<1>11. ASSUME ~ leftover', NEW d \in Contract PROVE BaseGet(e, Data(d))' = meant[d]
  <2>1. BaseGet(e, Data(d)) = meant[d]
    BY <1>1, <1>10, <1>11 DEF Storage
  <2> QED
    BY <1>9, <2>1
<1>12. ASSUME ~ leftover', NEW d \in Contract PROVE BaseGet(Depth, Data(d))' = meant'[d]
  <2>1. PICK f \in Nat \ {0} : f = Depth + 1 /\ f - 1 = e
    BY <1>3, <1>10
  <2>2. f \in Depth + 1..Len(levels')
    BY <1>2, <1>3, <2>1
  <2>3. Data(d) \notin DOMAIN levels'[f].base
    BY <1>7, <1>12, <2>2
  <2>4. Sees(levels', Get(Data(d))', f, Data(d)) = Sees(levels', Get(Data(d))', f - 1, Data(d))
    BY <2>3, SeesBelow
  <2>5. e \in Nat /\ f \in Nat
    BY <1>3
  <2>6. BaseGet(f, Data(d))' = BaseGet(e, Data(d))'
    BY <2>1, <2>4, <2>5, StorageSees
  <2>7. BaseGet(Depth, Data(d))' = BaseGet(f, Data(d))'
    BY <1>4, <2>1 DEF BaseGet
  <2> QED
    BY <1>1, <1>11, <1>12, <2>6, <2>7
<1>13. ASSUME ~ leftover', NEW n \in 1..Depth + 1, NEW d \in Contract
       PROVE  BaseGet(n - 1, Data(d))' = frames'[n].before[d]
  <2>1. PICK m \in 0..Depth : m = n - 1
    BY <1>3
  <2>2. CASE n = Depth + 1
    <3>1. m = e
      BY <1>3, <1>10, <2>1, <2>2
    <3> QED
      BY <1>4, <1>11, <1>13, <2>1, <2>2, <3>1
  <2>3. CASE n \in 1..Depth
    <3>1. BaseGet(m, Data(d)) = frames[n].before[d]
      BY <1>1, <1>13, <2>1, <2>3 DEF Storage
    <3>2. BaseGet(m, Data(d))' = BaseGet(m, Data(d))
      BY <1>9
    <3> QED
      BY <1>4, <2>1, <2>3, <3>1, <3>2
  <2> QED
    BY <1>3, <2>2, <2>3
<1> QED
  BY <1>4, <1>5, <1>8, <1>12, <1>13 DEF Storage

(* An error-aware call of a contract that is not known drains the level of the call. *)
LEMMA StorageNotFound ==
  ASSUME Types, Storage, NEW c \in Contract, ContractNotFound(c, TRUE)
  PROVE  Storage'
<1> DEFINE lv == NestedLevels(c)
<1>1. /\ frames # <<>> /\ UNCHANGED <<db, buffer, txBuffer, frames, meant, leftover>>
      /\ Len(levels) > Depth \/ Depth < MaxNestDepth
      /\ levels' = [lv EXCEPT ![Depth + 1] = Drained(lv[Depth + 1])]
  BY DEF ContractNotFound, HostCall
<1>2. /\ lv \in Seq(LevelSet) /\ Len(lv) >= Depth + 1 /\ Len(lv) \in Nat /\ Len(lv) >= Len(levels)
      /\ \A i \in 1..Len(levels) : lv[i] = levels[i]
      /\ \A i \in 1..Len(lv) : i > Len(levels) => lv[i].base = Empty
  BY <1>1, NestedFacts
<1> HIDE DEF lv
<1>3. Depth \in 1..Len(levels) /\ Depth + 1 \in 1..Len(lv) /\ Len(levels) \in Nat
  BY <1>1, <1>2, RunningFacts, LevelFacts
<1>4. lv[Depth + 1] \in LevelSet
  BY <1>2, <1>3
<1>5. Drained(lv[Depth + 1]) \in LevelSet /\ Drained(lv[Depth + 1]).base = Empty
  BY <1>4, LevelUpdates
<1>6. levels' \in Seq(LevelSet) /\ Len(levels') = Len(lv) /\ levels'[Depth + 1] = Drained(lv[Depth + 1])
      /\ \A i \in 1..Len(lv) : i # Depth + 1 => levels'[i] = lv[i]
  BY <1>1, <1>2, <1>3, <1>5, LevelSetTo
<1>7. ASSUME NEW i \in 1..Len(levels')
      PROVE  \/ levels'[i].base = Empty /\ i > Depth
             \/ i <= Len(levels) /\ levels'[i] = levels[i]
  <2>1. CASE i = Depth + 1
    BY <1>3, <1>5, <1>6, <2>1
  <2>2. CASE i # Depth + 1 /\ i <= Len(levels)
    BY <1>2, <1>3, <1>6, <2>2
  <2>3. CASE i # Depth + 1 /\ i > Len(levels)
    BY <1>2, <1>3, <1>6, <2>3
  <2> QED
    BY <1>3, <1>6, <2>1, <2>2, <2>3
<1>8. ASSUME NEW i \in 1..Len(levels'), NEW d \in Contract
      PROVE  IF i <= Len(levels)
             THEN \/ /\ Data(d) \in DOMAIN levels'[i].base <=> Data(d) \in DOMAIN levels[i].base
                     /\ Data(d) \in DOMAIN levels[i].base =>
                          levels'[i].base[Data(d)] = levels[i].base[Data(d)]
                  \/ i > Depth /\ Data(d) \notin DOMAIN levels'[i].base
             ELSE Data(d) \notin DOMAIN levels'[i].base
  <2>1. CASE levels'[i].base = Empty /\ i > Depth
    <3>1. Data(d) \notin DOMAIN levels'[i].base
      BY <2>1, EmptyWrites
    <3> QED
      BY <2>1, <3>1
  <2>2. CASE i <= Len(levels) /\ levels'[i] = levels[i]
    BY <2>2
  <2> QED
    BY <1>7, <2>1, <2>2
<1>9. \A d \in Contract : Data(d) \notin DOMAIN txBuffer'
  BY <1>1 DEF Storage
<1>10. Len(levels') \in Nat /\ Len(levels') >= Len(levels)
  BY <1>2, <1>6
<1> QED
  BY <1>1, <1>8, <1>9, <1>10, StorageRuns

(* A nested call returns: its caller sees what it saw. *)
LEMMA StorageReturned ==
  ASSUME Types, Storage, NestedReturn
  PROVE  Storage'
<1>1. UNCHANGED <<db, buffer, txBuffer, meant, leftover>>
  BY DEF NestedReturn
<1>2. /\ Depth \in 2..Len(levels) /\ Depth = Len(frames) /\ Len(frames') = Depth - 1
      /\ \A i \in 1..Depth - 1 : frames'[i] = frames[i]
      /\ Len(levels') = Len(levels) /\ Len(levels) \in Nat
      /\ \A i \in 1..Len(levels) : i # Depth /\ i # Depth - 1 => levels'[i] = levels[i]
      /\ levels'[Depth].base = Empty
      /\ levels'[Depth - 1].base = Over(levels[Depth].base, levels[Depth - 1].base)
      /\ Depth' = Depth - 1
  BY Returned, LevelFacts DEF Depth
<1>3. \A d \in Contract : Data(d) \notin DOMAIN txBuffer'
  BY <1>1 DEF Storage
<1>4. \A k : Get(k)' = Get(k)
  BY <1>1 DEF Get, Stored
<1>5. ASSUME ~ leftover' PROVE ~ StoredAbove(Depth)'
  <2> SUFFICES ASSUME NEW i \in Depth..Len(levels'), NEW d \in Contract,
                      Data(d) \in DOMAIN levels'[i].base
               PROVE  FALSE
    <3>1. Depth' + 1 = Depth
      BY <1>2
    <3> QED
      BY <3>1 DEF StoredAbove
  <2>1. i # Depth
    BY <1>2, EmptyWrites
  <2>2. i \in Depth + 1..Len(levels) /\ levels'[i] = levels[i]
    BY <1>2, <2>1
  <2>3. StoredAbove(Depth)
    BY <2>2 DEF StoredAbove
  <2> QED
    BY <1>1, <1>5, <2>3 DEF Storage
<1>6. ASSUME NEW m \in 0..Depth - 2, NEW d \in Contract PROVE BaseGet(m, Data(d))' = BaseGet(m, Data(d))
  <2>1. m \in 0..Len(levels)
    BY <1>2
  <2>2. \A i \in 1..m : levels'[i] = levels[i]
    BY <1>2
  <2> QED
    BY <1>4, <2>1, <2>2, StorageSame
<1>7. Depth \in Nat /\ Depth >= 2
  BY <1>2
<1>8. PICK g \in Nat \ {0} : g = Depth /\ g >= 2
  BY <1>7
<1>9. PICK f \in Nat \ {0} : f = g - 1
  BY <1>8
<1>10. PICK e \in Nat : e = f - 1 /\ e \in 0..Depth - 2
  <2>1. f - 1 \in Nat /\ f - 1 \in 0..Depth - 2
    BY <1>8, <1>9
  <2> QED
    BY <2>1
<1>11. ASSUME NEW d \in Contract PROVE BaseGet(f, Data(d))' = BaseGet(g, Data(d))
  <2> DEFINE k == Data(d)
  <2>1. /\ DOMAIN levels'[f].base = DOMAIN levels[g].base \cup DOMAIN levels[f].base
        /\ k \in DOMAIN levels[g].base => levels'[f].base[k] = levels[g].base[k]
        /\ k \notin DOMAIN levels[g].base /\ k \in DOMAIN levels[f].base =>
             levels'[f].base[k] = levels[f].base[k]
    BY <1>2, <1>8, <1>9 DEF Over
  <2>2. /\ BaseGet(f, Data(d))' = Sees(levels', Get(k)', f, k)
        /\ BaseGet(e, Data(d))' = Sees(levels', Get(k)', e, k)
        /\ BaseGet(g, Data(d)) = Sees(levels, Get(k), g, k)
        /\ BaseGet(f, Data(d)) = Sees(levels, Get(k), f, k)
        /\ BaseGet(e, Data(d)) = Sees(levels, Get(k), e, k)
    BY <1>10, StorageSees
  <2>3. BaseGet(e, Data(d))' = BaseGet(e, Data(d))
    BY <1>6, <1>10
  <2> HIDE DEF k
  <2>4. CASE k \in DOMAIN levels[g].base
    <3>1. Sees(levels', Get(k)', f, k) = levels'[f].base[k]
      BY <2>1, <2>4, SeesTop
    <3>2. Sees(levels, Get(k), g, k) = levels[g].base[k]
      BY <2>4, SeesTop
    <3> QED
      BY <2>1, <2>2, <2>4, <3>1, <3>2
  <2>5. CASE k \notin DOMAIN levels[g].base
    <3>1. Sees(levels, Get(k), g, k) = Sees(levels, Get(k), f, k)
      BY <1>9, <2>5, SeesBelow
    <3>2. CASE k \in DOMAIN levels[f].base
      <4>1. Sees(levels', Get(k)', f, k) = levels'[f].base[k]
        BY <2>1, <3>2, SeesTop
      <4>2. Sees(levels, Get(k), f, k) = levels[f].base[k]
        BY <3>2, SeesTop
      <4> QED
        BY <2>1, <2>2, <2>5, <3>1, <3>2, <4>1, <4>2
    <3>3. CASE k \notin DOMAIN levels[f].base
      <4>1. Sees(levels', Get(k)', f, k) = Sees(levels', Get(k)', e, k)
        BY <1>10, <2>1, <2>5, <3>3, SeesBelow
      <4>2. Sees(levels, Get(k), f, k) = Sees(levels, Get(k), e, k)
        BY <1>10, <3>3, SeesBelow
      <4> QED
        BY <2>2, <2>3, <3>1, <4>1, <4>2
    <3> QED
      BY <3>2, <3>3
  <2> QED
    BY <2>4, <2>5
<1>12. ASSUME ~ leftover', NEW d \in Contract PROVE BaseGet(Depth, Data(d))' = meant'[d]
  <2>1. BaseGet(Depth, Data(d))' = BaseGet(f, Data(d))'
    BY <1>2, <1>8, <1>9 DEF BaseGet
  <2>2. BaseGet(g, Data(d)) = meant[d]
    BY <1>1, <1>8, <1>12 DEF Storage
  <2> QED
    BY <1>1, <1>11, <2>1, <2>2
<1>13. ASSUME ~ leftover', NEW n \in 1..Depth - 1, NEW d \in Contract
       PROVE  BaseGet(n - 1, Data(d))' = frames'[n].before[d]
  <2>1. PICK m \in 0..Depth - 2 : m = n - 1
    BY <1>2
  <2>2. n \in 1..Depth /\ frames'[n] = frames[n]
    BY <1>2
  <2>3. BaseGet(m, Data(d)) = frames[n].before[d]
    BY <1>1, <1>13, <2>1, <2>2 DEF Storage
  <2>4. BaseGet(m, Data(d))' = BaseGet(m, Data(d))
    BY <1>6
  <2> QED
    BY <2>1, <2>2, <2>3, <2>4
<1> QED
  BY <1>2, <1>3, <1>5, <1>12, <1>13 DEF Storage

(* The first call returns: the block has what its level showed. *)
LEMMA StorageAccepted ==
  ASSUME Types, Storage, Return
  PROVE  Storage'
<1>1. /\ Depth = 1 /\ frames # <<>> /\ frames' = <<>> /\ levels' = <<>> /\ txBuffer' = Empty
      /\ buffer' = Over(Over(Running.base, txBuffer), buffer)
      /\ UNCHANGED <<db, meant, leftover>>
  BY FrameFacts DEF Return, Accept, Depth
<1>2. Running = levels[1]
  BY <1>1 DEF Running
<1>3. ASSUME ~ leftover', NEW c \in Contract PROVE Get(Data(c))' = meant'[c]
  <2> DEFINE k == Data(c)
  <2>0. PICK one \in Nat \ {0} : one = 1 /\ one - 1 = 0
    OBVIOUS
  <2>1. BaseGet(Depth, k) = meant[c]
    BY <1>1, <1>3 DEF Storage
  <2>2. BaseGet(one, k) = Sees(levels, Get(k), one, k) /\ BaseGet(0, k) = Sees(levels, Get(k), 0, k)
    BY StorageSees
  <2>3. k \notin DOMAIN txBuffer /\ DOMAIN txBuffer' = {}
    BY <1>1, EmptyWrites DEF Storage
  <2>4. k' = k
    BY DEF Data
  <2> HIDE DEF k
  <2>5. Get(k)' = IF k \in DOMAIN levels[1].base THEN levels[1].base[k] ELSE Get(k)
    BY <1>1, <1>2, <2>3 DEF Get, Over, Stored
  <2>6. BaseGet(one, k) = IF k \in DOMAIN levels[1].base THEN levels[1].base[k] ELSE Get(k)
    <3>1. CASE k \in DOMAIN levels[1].base
      BY <2>0, <2>2, <3>1, SeesTop
    <3>2. CASE k \notin DOMAIN levels[1].base
      <4>1. Sees(levels, Get(k), one, k) = Sees(levels, Get(k), 0, k)
        BY <2>0, <3>2, SeesBelow
      <4> QED
        BY <2>2, <3>2, <4>1, BaseGetZero
    <3> QED
      BY <3>1, <3>2
  <2>7. Get(k)' = meant'[c]
    BY <1>1, <2>0, <2>1, <2>5, <2>6
  <2> QED
    BY <2>4, <2>7 DEF k
<1> QED
  BY <1>1, <1>3, StorageEnd

(* Between two transactions the block shows what is meant. *)
LEMMA StorageIdle ==
  ASSUME Types, Storage, frames = <<>>, ~ leftover, NEW c \in Contract
  PROVE  Get(Data(c)) = meant[c]
<1>1. Depth = 0
  BY DEF Depth
<1>2. BaseGet(Depth, Data(c)) = meant[c]
  BY DEF Storage
<1> QED
  BY <1>1, <1>2, BaseGetZero

(* Storage is inductive, one step per action. *)
LEMMA StorageNext ==
  ASSUME Types, Storage, [Next]_vars
  PROVE  Storage'
<1>1. ASSUME frames = <<>>, levels' = <<>>, frames' = <<>>, txBuffer' = Empty,
             UNCHANGED <<meant, leftover>>,
             \A c \in Contract : Get(Data(c))' = Get(Data(c))
      PROVE  Storage'
  <2>1. ASSUME ~ leftover', NEW c \in Contract PROVE Get(Data(c))' = meant'[c]
    BY <1>1, <2>1, StorageIdle
  <2> QED
    BY <1>1, <2>1, StorageEnd
<1>2. ASSUME NEW items, NEW events, Accept(items, events), frames = <<>>, UNCHANGED db,
             NEW c \in Contract, Data(c) \notin DOMAIN items
      PROVE  Get(Data(c))' = Get(Data(c))
  <2> DEFINE k == Data(c)
  <2>1. txBuffer = Empty /\ DOMAIN Empty = {} /\ k' = k
    BY <1>2, EmptyWrites DEF Types, Data
  <2> HIDE DEF k
  <2>2. Get(k)' = Get(k)
    BY <1>2, <2>1 DEF Accept, Get, Over, Stored, k
  <2> QED
    BY <2>1, <2>2 DEF k
<1>3. ASSUME Refuse, frames = <<>>, UNCHANGED db
      PROVE  \A c \in Contract : Get(Data(c))' = Get(Data(c))
  <2>1. txBuffer = Empty /\ UNCHANGED <<txBuffer, buffer>>
    BY <1>3 DEF Refuse, Types
  <2> QED
    BY <1>3, <2>1 DEF Get, Stored, Data
<1>4. ASSUME NEW u \in User, NEW v \in Amount, NEW to \in Address, TransferTx(u, to, v) PROVE Storage'
  <2>1. /\ frames = <<>> /\ levels' = <<>> /\ frames' = <<>> /\ txBuffer' = Empty
        /\ UNCHANGED <<db, meant, leftover>>
    BY <1>4 DEF TransferTx, NextTx, Accept, Refuse, Types
  <2> DEFINE items == TransferItems(u, to, v, Get(Balance(u)), Get(Balance(to)))
  <2>2. \A c \in Contract : Data(c) \notin DOMAIN items
    BY DataKeys DEF TransferItems, Over, At, Address
  <2>3. Accept(items, Transferred(u, to, v)) \/ Refuse
    BY <1>4 DEF TransferTx
  <2> HIDE DEF items
  <2> QED
    BY <1>1, <1>2, <1>3, <2>1, <2>2, <2>3
<1>5. ASSUME NEW ok \in BOOLEAN, MetaTx(ok) PROVE Storage'
  <2>1. /\ frames = <<>> /\ levels' = <<>> /\ frames' = <<>> /\ txBuffer' = Empty
        /\ UNCHANGED <<db, meant, leftover>>
    BY <1>5 DEF MetaTx, NextTx, Accept, Refuse, Types
  <2> DEFINE items == At(Meta, 1 - Get(Meta))
  <2>2. \A c \in Contract : Data(c) \notin DOMAIN items
    BY DataKeys DEF At
  <2>3. Accept(items, NoEvents) \/ Refuse
    BY <1>5 DEF MetaTx
  <2> HIDE DEF items
  <2> QED
    BY <1>1, <1>2, <1>3, <2>1, <2>2, <2>3
<1>6. ASSUME NEW u \in User, NEW v \in Amount, NEW c \in Contract, CreateTx(u, c, v) PROVE Storage'
  <2>1. v \in Nat /\ frames = <<>> /\ UNCHANGED <<db, buffer, meant, leftover>>
        /\ levels' = <<Level(c, u)>> /\ frames' = <<Frame(c, v, FALSE)>>
    BY <1>6, ExecutorAssumption DEF CreateTx, NextTx
  <2>2. \A d \in Contract : Data(d) \notin DOMAIN txBuffer'
    BY <1>6, DataKeys DEF CreateTx, Over, At, Storage
  <2> QED
    BY <2>1, <2>2, StorageStart
<1>7. ASSUME NEW u \in User, NEW v \in Amount, NEW c \in Contract, ExecuteTx(u, c, v) PROVE Storage'
  <2>1. v \in Nat /\ frames = <<>> /\ levels = <<>> /\ UNCHANGED <<db, meant, leftover>>
    BY <1>7, ExecutorAssumption DEF ExecuteTx, NextTx, Types
  <2>2. CASE Known(c)
    <3>1. /\ UNCHANGED <<buffer, txBuffer>>
          /\ levels' = <<Level(c, u)>> /\ frames' = <<Frame(c, v, FALSE)>>
      BY <1>7, <2>2 DEF ExecuteTx
    <3>2. \A d \in Contract : Data(d) \notin DOMAIN txBuffer'
      BY <3>1 DEF Storage
    <3> QED
      BY <2>1, <3>1, <3>2, StorageStart
  <2>3. CASE ~ Known(c)
    <3>1. Refuse /\ levels' = <<>> /\ frames' = <<>>
      BY <1>7, <2>1, <2>3 DEF ExecuteTx
    <3>2. txBuffer' = Empty
      BY <3>1 DEF Refuse
    <3> QED
      BY <1>1, <1>3, <2>1, <3>1, <3>2
  <2> QED
    BY <2>2, <2>3
<1>8. ASSUME NEW v \in 0..1, StorageWrite(v) PROVE Storage'
  BY <1>8, StorageWritten
<1>9. ASSUME NEW to \in Address, NEW v \in Amount, BalanceTransfer(to, v) PROVE Storage'
  <2>1. HostCall /\ frames # <<>> /\ v \in Nat
    BY <1>9, ExecutorAssumption DEF BalanceTransfer, HostCall
  <2>2. Running.self \in Address
    BY <2>1, RunningFacts
  <2> QED
    BY <1>9, <2>1, <2>2, StorageMove, StorageUnwind DEF BalanceTransfer
<1>10. ASSUME Pay PROVE Storage'
  <2>1. HostCall /\ frames # <<>>
    BY <1>10 DEF Pay, HostCall
  <2>2. Running.self \in Address /\ Running.sender \in Address /\ frames[Depth].pay \in Nat
    BY <2>1, RunningFacts, FrameFacts
  <2> QED
    BY <1>10, <2>1, <2>2, StorageMove, StorageUnwind DEF Pay
<1>11. ASSUME NEW c \in Contract, NEW ea \in BOOLEAN, NEW v \in Amount, ContractExecute(c, v, ea) PROVE Storage'
  BY <1>11, StorageCall
<1>12. ASSUME NEW c \in Contract, NEW ea \in BOOLEAN, ContractNotFound(c, ea) PROVE Storage'
  <2>1. CASE ea = TRUE
    BY <1>12, <2>1, StorageNotFound
  <2>2. CASE ea = FALSE
    BY <1>12, <2>2, StorageUnwind DEF ContractNotFound
  <2> QED
    BY <2>1, <2>2
<1>13. ASSUME ErrorReturn \/ NestDepthExceeded PROVE Storage'
  BY <1>13, StorageUnwind DEF ErrorReturn, NestDepthExceeded
<1>14. ASSUME NestedReturn PROVE Storage'
  BY <1>14, StorageReturned
<1>15. ASSUME Return PROVE Storage'
  BY <1>15, StorageAccepted
<1>16. ASSUME EndBatch PROVE Storage'
  <2>1. /\ frames = <<>> /\ levels' = <<>> /\ frames' = <<>> /\ txBuffer' = Empty
        /\ UNCHANGED <<db, buffer, txBuffer, meant, leftover>>
    BY <1>16 DEF EndBatch, Types
  <2>2. \A c \in Contract : Get(Data(c))' = Get(Data(c))
    BY <2>1 DEF Get, Stored, Data
  <2> QED
    BY <1>1, <2>1, <2>2
<1>17. ASSUME Discard PROVE Storage'
  <2>1. /\ levels' = <<>> /\ frames' = <<>> /\ txBuffer' = Empty /\ buffer' = Empty /\ UNCHANGED db
        /\ meant' = [c \in Contract |-> Stored(Data(c))]
    BY <1>17 DEF Discard
  <2>2. ASSUME NEW c \in Contract PROVE Get(Data(c))' = meant'[c]
    <3> DEFINE k == Data(c)
    <3>1. meant'[c] = db[k] /\ k' = k /\ DOMAIN Empty = {}
      BY <2>1, EmptyWrites DEF Stored, Data
    <3> HIDE DEF k
    <3>2. Get(k)' = db[k]
      BY <2>1, <3>1 DEF Get, Over, Stored
    <3> QED
      BY <3>1, <3>2 DEF k
  <2> QED
    BY <2>1, <2>2, StorageEnd
<1>18. ASSUME CommitBlock PROVE Storage'
  <2>1. /\ frames = <<>> /\ levels' = <<>> /\ frames' = <<>> /\ txBuffer = Empty /\ txBuffer' = Empty
        /\ UNCHANGED <<meant, leftover>>
        /\ db' = Over(buffer, db) /\ buffer' = Empty
    <3>1. batch = "none"
      BY <1>18 DEF CommitBlock
    <3>2. frames = <<>>
      BY <3>1 DEF Types
    <3> QED
      BY <1>18, <3>2 DEF CommitBlock, Updated, Types
  <2>2. ASSUME NEW c \in Contract PROVE Get(Data(c))' = Get(Data(c))
    <3> DEFINE k == Data(c)
    <3>1. k' = k /\ DOMAIN Empty = {} /\ k \in DOMAIN db
      BY EmptyWrites, Keys DEF Data, Types
    <3> HIDE DEF k
    <3>2. Get(k)' = Get(k)
      BY <2>1, <3>1 DEF Get, Over, Stored
    <3> QED
      BY <3>1, <3>2 DEF k
  <2> QED
    BY <1>1, <2>1, <2>2
<1>19. ASSUME UNCHANGED vars PROVE Storage'
  <2>1. UNCHANGED <<db, buffer, txBuffer, levels, frames, meant, leftover>>
    BY <1>19 DEF vars
  <2>2. \A k : Get(k)' = Get(k)
    BY <2>1 DEF Get, Stored
  <2>3. \A n, k : BaseGet(n, k)' = BaseGet(n, k)
    BY <2>1, <2>2 DEF BaseGet
  <2>4. Depth' = Depth /\ (StoredAbove(Depth)' <=> StoredAbove(Depth))
    BY <2>1 DEF StoredAbove, Depth, Data
  <2>5. \A c \in Contract : BaseGet(Depth, Data(c))' = BaseGet(Depth, Data(c))
    <3> TAKE c \in Contract
    <3>1. BaseGet(Depth, Data(c))' = BaseGet(Depth, Data(c))
      BY <2>1, <2>2 DEF BaseGet, Depth, Data
    <3> QED
      BY <3>1
  <2> QED
    BY <2>1, <2>3, <2>4, <2>5 DEF Storage
<1> QED
  BY <1>4, <1>5, <1>6, <1>7, <1>8, <1>9, <1>10, <1>11, <1>12, <1>13, <1>14, <1>15, <1>16, <1>17,
     <1>18, <1>19 DEF Next

(* Nothing is stored at the start. *)
LEMMA StorageInit == Init => Storage
<1> SUFFICES ASSUME Init PROVE Storage
  OBVIOUS
<1>1. /\ Types /\ frames = <<>> /\ levels = <<>> /\ txBuffer = Empty /\ DOMAIN Empty = {}
      /\ buffer = Empty /\ meant = [c \in Contract |-> 0]
  BY TypesInit, EmptyWrites DEF Init
<1>2. Depth = 0 /\ 1..Depth = {} /\ 0 + 1..Len(levels) = {}
  BY <1>1 DEF Depth
<1>3. ASSUME NEW c \in Contract PROVE BaseGet(Depth, Data(c)) = meant[c]
  <2>1. db[Data(c)] = 0
    BY Keys DEF Init, Data
  <2>2. Get(Data(c)) = 0
    BY <1>1, <2>1, GetStored
  <2> QED
    BY <1>1, <1>2, <2>2, BaseGetZero
<1>4. ~ StoredAbove(Depth)
  BY <1>2 DEF StoredAbove
<1>5. \A c \in Contract : Data(c) \notin DOMAIN txBuffer
  BY <1>1
<1> QED
  BY <1>2, <1>3, <1>4, <1>5 DEF Storage

-----------------------------------------------------------------------------
(* Balances stay within u64 in every overlay, whatever contracts and transfers
   run, and calls nest no deeper than max_nest_depth. *)
THEOREM TypeCorrect == Spec => []TypeOK
<1>1. Inv => TypeOK
  <2> SUFFICES ASSUME Inv PROVE TypeOK
    OBVIOUS
  <2>0. Types
    BY DEF Inv
  <2>1. \A o \in {buffer, txBuffer} \cup {levels[i].base : i \in DOMAIN levels} : o \in Writes
    BY <2>0, LevelFacts DEF Types
  <2>2. \A o \in {buffer, txBuffer} \cup {levels[i].base : i \in DOMAIN levels} :
          DOMAIN o \subseteq Key /\ \A k \in DOMAIN o : o[k] \in 0..MaxBalance
    BY <2>1, WritesElim
  <2>3. \A i \in DOMAIN levels : /\ levels[i].self \in Contract
                                 /\ levels[i].sender \in IF i = 1 THEN User ELSE Contract
    BY <2>0, LevelFacts DEF Types
  <2> QED
    BY <2>0, <2>2, <2>3 DEF TypeOK, Types, Depth
<1> QED
  BY <1>1, InvHolds, PTL

(* The receipts account for every balance as long as no contract has called
   another one: failed transactions, failed blocks and self-transfers included. *)
THEOREM BalancesAccounted == Spec => []AccountedUnnested
<1>1. Inv => AccountedUnnested
  BY DEF Inv, Accounts, AccountedUnnested
<1> QED
  BY <1>1, InvHolds, PTL


(* Every failure undoes what it should of the storage, at any depth and with levels
   that are kept and used again, unless a caught error has left something deeper:
   the running contract, the block and the state see what they would if each
   failure restored what there was before. *)
THEOREM FailuresUndone == Spec => []RolledBack
<1>1. Init => Storage
  BY StorageInit
<1>2. Inv /\ Storage /\ [Next]_vars => Storage'
  BY StorageNext DEF Inv
<1>3. Storage => RolledBack
  BY DEF Storage, RolledBack
<1> QED
  BY <1>1, <1>2, <1>3, InvHolds, PTL DEF Spec

(* Only a transaction of its own takes funds from a user.  A contract spends its
   own funds and those of its sender, who is a user at the first level only, so
   that no overlay of a running transaction holds less for another user than the
   block does. *)
THEOREM OnlyOwnFundsSpent == Spec => OwnFunds
<1> DEFINE Own == \A u \in User : Settled(u)' < Settled(u) =>
                    \/ batch' = "none"
                    \/ levels # <<>> /\ levels[1].sender = u
                    \/ \E to \in Address, v \in Amount : TransferTx(u, to, v)
<1>1. Inv /\ [Next]_vars => [Own]_vars
  <2> SUFFICES ASSUME Inv, Next, NEW u \in User
               PROVE  Settled(u)' < Settled(u) =>
                        \/ batch' = "none"
                        \/ levels # <<>> /\ levels[1].sender = u
                        \/ \E to \in Address, v \in Amount : TransferTx(u, to, v)
    OBVIOUS
  <2> DEFINE Goal == Settled(u)' < Settled(u) =>
                        \/ batch' = "none"
                        \/ levels # <<>> /\ levels[1].sender = u
                        \/ \E to \in Address, v \in Amount : TransferTx(u, to, v)
  <2>0. Types /\ u \in Address /\ Settled(u) \in Int
    <3>1. Types /\ u \in Address
      BY DEF Inv, Address
    <3>2. Settled(u) \in 0..MaxBalance /\ MaxBalance \in Int
      BY <3>1, SettledFacts, ExecutorAssumption
    <3> QED
      BY <3>1, <3>2
  <2>1. ASSUME UNCHANGED <<db, buffer>> PROVE Goal
    <3>1. Settled(u)' = Settled(u)
      BY <2>1 DEF Settled, Updated
    <3> QED
      BY <3>1, <2>0
  <2>2. ASSUME NEW items \in Writes, NEW events, Accept(items, events), UNCHANGED db,
               Balance(u) \in DOMAIN items => items[Balance(u)] >= Settled(u),
               Balance(u) \in DOMAIN txBuffer => txBuffer[Balance(u)] >= Settled(u)
        PROVE  Goal
    <3>1. Settled(u)' = IF Balance(u) \in DOMAIN items THEN items[Balance(u)]
                        ELSE IF Balance(u) \in DOMAIN txBuffer THEN txBuffer[Balance(u)] ELSE Settled(u)
      <4>1. buffer' = Over(Over(items, txBuffer), buffer) /\ db' = db /\ Balance(u) \in DOMAIN db
        BY <2>0, <2>2, Keys DEF Accept, Types
      <4>2. Settled(u)' = IF Balance(u) \in DOMAIN buffer' THEN buffer'[Balance(u)] ELSE db[Balance(u)]
        BY <4>1 DEF Settled, Updated, Over
      <4>3. Settled(u) = IF Balance(u) \in DOMAIN buffer THEN buffer[Balance(u)] ELSE db[Balance(u)]
        BY <2>0, SettledFacts
      <4> QED
        BY <4>1, <4>2, <4>3 DEF Over
    <3>2. /\ Balance(u) \in DOMAIN items => items[Balance(u)] \in 0..MaxBalance
          /\ Balance(u) \in DOMAIN txBuffer => txBuffer[Balance(u)] \in 0..MaxBalance
      BY <2>0, <2>2, WritesElim DEF Types
    <3>3. Settled(u)' >= Settled(u) /\ Settled(u)' \in Int
      BY <2>0, <2>2, <3>1, <3>2, ExecutorAssumption
    <3> QED
      BY <2>0, <3>3
  <2>3. ASSUME NEW s \in User, NEW to \in Address, NEW v \in Amount, TransferTx(s, to, v) PROVE Goal
    <3> DEFINE x == Get(Balance(s))
               y == Get(Balance(to))
               items == TransferItems(s, to, v, x, y)
    <3>1. s \in Address /\ x \in 0..MaxBalance /\ y \in 0..MaxBalance /\ v \in Nat /\ txBuffer = Empty /\ UNCHANGED db
      BY <2>0, <2>3, GetType, Keys, ExecutorAssumption DEF Address, TransferTx, NextTx, Types
    <3>2. CASE s = u
      BY <2>3, <3>2
    <3>3. CASE s # u /\ ~ Transferable(s, to, v, x, y)
      BY <2>1, <2>3, <3>1, <3>3 DEF TransferTx, Refuse
    <3>4. CASE s # u /\ Transferable(s, to, v, x, y)
      <4>1. items \in Writes /\ Accept(items, Transferred(s, to, v))
        BY <2>3, <3>1, <3>4, ItemsFacts DEF TransferTx
      <4>0. /\ DOMAIN items = {Balance(s), Balance(to)}
            /\ items[Balance(to)] = y + v
        <5>1. s # to
          BY <3>4 DEF Transferable
        <5>2. DOMAIN items = {Balance(s), Balance(to)}
          BY DEF TransferItems, Over, At
        <5>3. Balance(s) # Balance(to)
          BY <3>1, <5>1, Keys
        <5> HIDE DEF x, y
        <5> QED
          BY <5>2, <5>3 DEF TransferItems, Over, At
      <4>2. Balance(u) \in DOMAIN items => items[Balance(u)] >= Settled(u)
        <5> HIDE DEF items
        <5> SUFFICES ASSUME Balance(u) \in DOMAIN items PROVE items[Balance(u)] >= Settled(u)
          OBVIOUS
        <5>2. u = to
          BY <2>0, <3>1, <3>4, <4>0, Keys
        <5>3. y = Settled(u)
          BY <2>0, <3>1, <5>2, SettledFacts, EmptyWrites
        <5> QED
          BY <2>0, <3>1, <4>0, <5>2, <5>3
      <4>3. Balance(u) \notin DOMAIN txBuffer
        BY <3>1, EmptyWrites
      <4> HIDE DEF items, Goal
      <4> QED
        BY <2>2, <3>1, <4>1, <4>2, <4>3
    <3> QED
      BY <3>2, <3>3, <3>4
  <2>4. ASSUME NEW ok \in BOOLEAN, MetaTx(ok) PROVE Goal
    <3>1. txBuffer = Empty /\ UNCHANGED db /\ Balance(u) # Meta
      BY <2>0, <2>4, Keys DEF MetaTx, NextTx, Types
    <3>2. CASE ok
      <4> DEFINE items == At(Meta, 1 - Get(Meta))
      <4>1. Get(Meta) \in 0..1
        BY <2>0, <3>1, EmptyWrites, WritesElim DEF Get, Over, Stored, Types
      <4>2. items \in Writes /\ Accept(items, NoEvents)
        BY <2>4, <3>2, <4>1, Keys, AtWrites, ExecutorAssumption DEF MetaTx
      <4>3. Balance(u) \notin DOMAIN items /\ Balance(u) \notin DOMAIN txBuffer
        BY <3>1, EmptyWrites DEF At
      <4> HIDE DEF items, Goal
      <4> QED
        BY <2>2, <3>1, <4>2, <4>3
    <3>3. CASE ~ ok
      BY <2>1, <2>4, <3>1, <3>3 DEF MetaTx, Refuse
    <3> QED
      BY <3>2, <3>3
  <2>5. ASSUME Return PROVE Goal
    <3>1. /\ frames # <<>> /\ UNCHANGED db /\ Accept(Running.base, Running.events)
          /\ Depth = 1
      BY <2>0, <2>5, FrameFacts DEF Return, Depth
    <3>2. Running = levels[1] /\ 1 \in 1..Len(levels) /\ Running.base \in Writes
      BY <2>0, <3>1, RunningFacts, LevelFacts
    <3>3. levels # <<>>
      BY <2>0, <3>2, LevelFacts
    <3>4. CASE levels[1].sender = u
      BY <3>3, <3>4
    <3>5. CASE levels[1].sender # u
      <4>1. Holds(txBuffer, u) /\ Holds(Running.base, u)
        BY <3>2, <3>3, <3>5 DEF Inv, Funds
      <4> HIDE DEF Goal
      <4> QED
        BY <2>2, <3>1, <3>2, <4>1 DEF Holds
    <3> QED
      BY <3>4, <3>5
  <2>6. EndBatch \/ Discard \/ CommitBlock => Goal
    BY DEF EndBatch, Discard, CommitBlock
  <2>7. ASSUME Unwind PROVE UNCHANGED buffer
    BY <2>7 DEF Unwind, Refuse
  <2>8. ASSUME NEW s \in User, NEW v \in Amount, NEW c \in Contract, CreateTx(s, c, v) \/ ExecuteTx(s, c, v) PROVE Goal
    <3>1. UNCHANGED <<db, buffer>>
      BY <2>8 DEF CreateTx, ExecuteTx, NextTx, Refuse
    <3> QED
      BY <2>1, <3>1
  <2>9. ASSUME HostCall, UNCHANGED buffer PROVE Goal
    BY <2>1, <2>9 DEF HostCall
  <2> HIDE DEF Goal
  <2>10. ASSUME ErrorReturn \/ NestDepthExceeded \/ Pay \/ NestedReturn PROVE Goal
    <3>1. UNCHANGED <<db, buffer>>
      BY <2>7, <2>10 DEF ErrorReturn, NestDepthExceeded, Pay, MoveFunds, NestedReturn, HostCall
    <3> QED
      BY <2>1, <3>1
  <2>11. ASSUME NEW v \in 0..1, StorageWrite(v) PROVE Goal
    BY <2>9, <2>11 DEF StorageWrite
  <2>12. ASSUME NEW to \in Address, NEW v \in Amount, BalanceTransfer(to, v) PROVE Goal
    BY <2>7, <2>9, <2>12 DEF BalanceTransfer, MoveFunds
  <2>13. ASSUME NEW c \in Contract, NEW ea \in BOOLEAN, NEW v \in Amount, ContractExecute(c, v, ea) PROVE Goal
    BY <2>9, <2>13 DEF ContractExecute
  <2>14. ASSUME NEW c \in Contract, NEW ea \in BOOLEAN, ContractNotFound(c, ea) PROVE Goal
    BY <2>7, <2>9, <2>14 DEF ContractNotFound
  <2>15. Goal
    BY <2>3, <2>4, <2>5, <2>6, <2>8, <2>10, <2>11, <2>12, <2>13, <2>14 DEF Next
  <2> QED
    BY <2>15 DEF Goal
<1> HIDE DEF Own
<1>2. Spec => [][Own]_vars
  BY <1>1, InvHolds, PTL DEF Spec
<1> QED
  BY <1>2 DEF OwnFunds, Own
=============================================================================

------------------------- MODULE AdapterQueueProofs -------------------------
(***************************************************************************)
(* The queues of an adapter, for every set of queues and commands and      *)
(* every bound: the facts about the items of QueueItem, the inductive      *)
(* invariant IInv of AdapterQueue and what it implies, and the refinement  *)
(* of AdapterService.                                                      *)
(***************************************************************************)
EXTENDS AdapterQueue, SequenceTheorems, TLAPS

-----------------------------------------------------------------------------
(***************************************************************************)
(* The operators of QueueItem, for every value of their arguments.         *)
(***************************************************************************)

\* Integer division as the code's floor and % use it.
LEMMA Division ==
  ASSUME NEW a \in Nat, NEW b \in Nat \ {0}
  PROVE  /\ a \div b \in Nat
         /\ a % b \in 0 .. (b - 1)
         /\ a = b * (a \div b) + (a % b)
OBVIOUS

\* The remainder of a number below twice the divisor.
LEMMA WrapOnce ==
  ASSUME NEW n \in Nat \ {0}, NEW a \in Nat, a < 2 * n
  PROVE  a % n = (IF a < n THEN a ELSE a - n)
<1> DEFINE d == a \div n
           r == a % n
<1>1. d \in Nat /\ r \in 0 .. (n - 1) /\ a = n * d + r
  BY Division
<1> HIDE DEF d, r
<1>2. CASE d = 0
  <2>1. n * d = 0
    BY <1>2
  <2> QED
    BY <1>1, <2>1 DEF r
<1>3. CASE d = 1
  <2>1. n * d = n
    BY <1>3
  <2> QED
    BY <1>1, <2>1 DEF r
<1>4. CASE d > 1
  <2>1. n * d >= n * 2
    BY <1>1, <1>4
  <2>2. n * d \in Nat
    BY <1>1
  <2> QED
    BY <1>1, <2>1, <2>2
<1> QED
  BY <1>1, <1>2, <1>3, <1>4

\* The adapter takes at least one repetition, and no more than its bunch time holds
\* unless a single repetition is already longer (split_repeat, line 55).
LEMMA MaxRepeatBound ==
  ASSUME NEW interval \in Nat \ {0}, NEW bunch \in Nat \ {0}
  PROVE  /\ MaxRepeat(interval, bunch) \in Nat \ {0}
         /\ \/ MaxRepeat(interval, bunch) = 1
            \/ MaxRepeat(interval, bunch) * interval <= bunch
<1> DEFINE d == bunch \div interval
<1>1. d \in Nat /\ bunch % interval \in Nat /\ bunch = interval * d + (bunch % interval)
  BY Division
<1>2. interval * d \in Int
  BY <1>1
<1>3. interval * d <= bunch
  BY <1>1, <1>2
<1>4. d * interval = interval * d
  BY <1>1
<1> QED
  BY <1>1, <1>3, <1>4 DEF MaxRepeat

\* The pieces of a command: at least one, none empty, none above the maximum.
LEMMA RepeatsType ==
  ASSUME NEW repeat \in Nat \ {0}, NEW max \in Nat \ {0}
  PROVE  /\ Repeats(repeat, max) \in Seq(Nat \ {0})
         /\ Len(Repeats(repeat, max)) \in Nat \ {0}
         /\ \A i \in DOMAIN Repeats(repeat, max) : Repeats(repeat, max)[i] <= max
<1> DEFINE d == repeat \div max
           r == repeat % max
           n == d + (IF r > 0 THEN 1 ELSE 0)
<1>1. d \in Nat /\ r \in 0 .. (max - 1) /\ repeat = max * d + r
  BY Division
<1>2. n \in Nat
  BY <1>1
<1>3. n # 0
  <2>1. SUFFICES ASSUME n = 0 PROVE FALSE
    OBVIOUS
  <2>2. d = 0 /\ r = 0
    BY <1>1, <2>1
  <2>3. max * d = 0
    BY <2>2
  <2> QED
    BY <1>1, <2>2, <2>3
<1>4. \A i \in 1 .. n : (IF i <= d THEN max ELSE r) \in Nat \ {0}
  BY <1>1
<1>5. \A i \in 1 .. n : (IF i <= d THEN max ELSE r) <= max
  BY <1>1
<1>6. Repeats(repeat, max) = [i \in 1 .. n |-> IF i <= d THEN max ELSE r]
  BY DEF Repeats
<1> HIDE DEF n, d, r
<1>7. Repeats(repeat, max) \in [1 .. n -> Nat \ {0}]
  BY <1>4, <1>6
<1>8. Repeats(repeat, max) \in Seq(Nat \ {0}) /\ Len(Repeats(repeat, max)) = n
  BY <1>2, <1>6, <1>7
<1> QED
  BY <1>2, <1>3, <1>5, <1>6, <1>8

\* Mutual product of two positive numbers, for the number of pieces of a command.
LEMMA ProductPositive ==
  ASSUME NEW a \in Nat \ {0}, NEW b \in Nat \ {0}
  PROVE  a * b \in Nat \ {0}
OBVIOUS

\* A queued item always has a piece to advertise, and each of its pieces fits in the
\* bunch time of the adapter or is a single repetition (enqueue, split_repeat).
THEOREM NewItemCorrect ==
  ASSUME NEW SomeKeys, NEW cmd \in Command(SomeKeys), NEW bunch \in Nat \ {0}
  PROVE  /\ NewItem(cmd, bunch) \in Item(SomeKeys)
         /\ HasNext(NewItem(cmd, bunch))
         /\ NewItem(cmd, bunch).key = cmd.key
         /\ \A i \in DOMAIN NewItem(cmd, bunch).advs :
              \/ NewItem(cmd, bunch).advs[i] = 1
              \/ NewItem(cmd, bunch).advs[i] * cmd.interval <= bunch
<1> DEFINE max  == MaxRepeat(cmd.interval, bunch)
           reps == Repeats(Repeat(cmd), max)
           l    == Len(reps)
           n    == cmd.data * l
           advs == [i \in 1 .. n |-> reps[((i - 1) % l) + 1]]
<1>1. /\ cmd.key \in SomeKeys /\ cmd.interval \in Nat \ {0} /\ cmd.delay_after \in Nat
      /\ cmd.data \in Nat \ {0} /\ Repeat(cmd) \in Nat \ {0}
  BY DEF Command, Repeat
<1>2. max \in Nat \ {0} /\ (max = 1 \/ max * cmd.interval <= bunch)
  BY <1>1, MaxRepeatBound
<1>3. /\ reps \in Seq(Nat \ {0}) /\ l \in Nat \ {0}
      /\ \A i \in DOMAIN reps : reps[i] <= max
  BY <1>1, <1>2, RepeatsType
<1>4. n \in Nat \ {0}
  BY <1>1, <1>3, ProductPositive
<1>5. NewItem(cmd, bunch) =
        [key |-> cmd.key, advs |-> advs, delay_after |-> cmd.delay_after]
  BY DEF NewItem, Advs
<1> HIDE DEF max, reps, l, n
<1>6. \A i \in 1 .. n : ((i - 1) % l) + 1 \in 1 .. l
  BY <1>3, <1>4, Division
<1>7. DOMAIN reps = 1 .. l
  BY <1>3 DEF l
<1>8. \A i \in 1 .. n : advs[i] \in Nat \ {0} /\ advs[i] <= max
  BY <1>3, <1>6, <1>7
<1>9. advs \in Seq(Nat \ {0}) /\ advs # <<>>
  BY <1>4, <1>8
<1>10. ASSUME NEW m \in Nat \ {0}, m <= max
       PROVE  m = 1 \/ m * cmd.interval <= bunch
  <2>1. CASE max = 1
    BY <1>10, <2>1
  <2>2. CASE max * cmd.interval <= bunch
    <3>1. m * cmd.interval <= max * cmd.interval
      BY <1>1, <1>2, <1>10
    <3>2. m * cmd.interval \in Nat /\ max * cmd.interval \in Nat
      BY <1>1, <1>2
    <3> QED
      BY <2>2, <3>1, <3>2
  <2> QED
    BY <1>2, <2>1, <2>2
<1> QED
  BY <1>1, <1>5, <1>8, <1>9, <1>10 DEF Item, HasNext

-----------------------------------------------------------------------------
\* Taking a piece leaves an item of the same key.
LEMMA AfterNextType ==
  ASSUME NEW SomeKeys, NEW item \in Item(SomeKeys)
  PROVE  AfterNext(item) \in Item(SomeKeys) /\ AfterNext(item).key = item.key
BY DEF Item, AfterNext, HasNext

\* What removing the item of a key leaves, position by position.
LEMMA WithoutElements ==
  ASSUME NEW SomeKeys, NEW queue \in Seq(Item(SomeKeys)), NEW key
  PROVE  /\ Without(queue, key) \in Seq(Item(SomeKeys))
         /\ \/ /\ Without(queue, key) = queue
               /\ \A i \in DOMAIN queue : queue[i].key # key
            \/ \E i \in DOMAIN queue :
                 /\ queue[i].key = key
                 /\ Len(Without(queue, key)) = Len(queue) - 1
                 /\ \A j \in 1 .. (Len(queue) - 1) :
                      Without(queue, key)[j] = (IF j < i THEN queue[j] ELSE queue[j + 1])
<1> DEFINE same == {i \in DOMAIN queue : queue[i].key = key}
           i    == CHOOSE j \in same : TRUE
<1>1. CASE same = {}
  BY <1>1 DEF Without
<1>2. CASE same # {}
  <2>1. i \in same
    BY <1>2
  <2>2. i \in DOMAIN queue /\ queue[i].key = key
    BY <2>1
  <2>3. Without(queue, key) = SubSeq(queue, 1, i - 1) \o SubSeq(queue, i + 1, Len(queue))
    BY <1>2 DEF Without
  <2> HIDE DEF i, same
  <2>4. i \in 1 .. Len(queue) /\ Len(queue) \in Nat
    BY <2>2
  <2> DEFINE left  == SubSeq(queue, 1, i - 1)
             right == SubSeq(queue, i + 1, Len(queue))
  <2>5. /\ left \in Seq(Item(SomeKeys)) /\ Len(left) = i - 1
        /\ \A j \in 1 .. (i - 1) : left[j] = queue[j]
    BY <2>4
  <2>6. /\ right \in Seq(Item(SomeKeys)) /\ Len(right) = Len(queue) - i
        /\ \A j \in 1 .. (Len(queue) - i) : right[j] = queue[j + i]
    BY <2>4
  <2>7. Without(queue, key) = left \o right
    BY <2>3
  <2> HIDE DEF left, right
  <2>8. /\ left \o right \in Seq(Item(SomeKeys)) /\ Len(left \o right) = Len(queue) - 1
        /\ \A j \in 1 .. (Len(queue) - 1) :
             (left \o right)[j] = (IF j < i THEN left[j] ELSE right[j - (i - 1)])
    <3>1. /\ left \o right \in Seq(Item(SomeKeys))
          /\ Len(left \o right) = Len(left) + Len(right)
          /\ \A j \in 1 .. (Len(left) + Len(right)) :
               (left \o right)[j] = (IF j <= Len(left) THEN left[j]
                                    ELSE right[j - Len(left)])
      BY <2>5, <2>6, ConcatProperties, Zenon
    <3> QED
      BY <2>4, <2>5, <2>6, <3>1
  <2>9. ASSUME NEW j \in 1 .. (Len(queue) - 1)
        PROVE  Without(queue, key)[j] = (IF j < i THEN queue[j] ELSE queue[j + 1])
    <3>1. CASE j < i
      BY <2>4, <2>5, <2>7, <2>8, <3>1
    <3>2. CASE ~(j < i)
      <4>1. j - (i - 1) \in 1 .. (Len(queue) - i) /\ (j - (i - 1)) + i = j + 1
        BY <2>4, <3>2
      <4>2. right[j - (i - 1)] = queue[(j - (i - 1)) + i]
        BY <2>6, <4>1
      <4> QED
        BY <2>7, <2>8, <3>2, <4>1, <4>2
    <3> QED
      BY <3>1, <3>2
  <2> QED
    BY <2>2, <2>7, <2>8, <2>9
<1> QED
  BY <1>1, <1>2

\* enqueue keeps the queue well formed: one item per key, none of them empty.
LEMMA EnqueuedCorrect ==
  ASSUME NEW SomeKeys, NEW noKey, NEW queue \in Seq(Item(SomeKeys)), NEW item \in Item(SomeKeys),
         OnePerKey(queue, noKey), HasNext(item),
         \A i \in DOMAIN queue : HasNext(queue[i])
  PROVE  /\ Enqueued(queue, item, noKey) \in Seq(Item(SomeKeys))
         /\ OnePerKey(Enqueued(queue, item, noKey), noKey)
         /\ \A i \in DOMAIN Enqueued(queue, item, noKey) :
              HasNext(Enqueued(queue, item, noKey)[i])
<1> DEFINE rest == IF item.key = noKey THEN queue ELSE Without(queue, item.key)
<1>1. /\ rest \in Seq(Item(SomeKeys))
      /\ OnePerKey(rest, noKey)
      /\ \A j \in DOMAIN rest : HasNext(rest[j])
      /\ item.key # noKey => \A j \in DOMAIN rest : rest[j].key # item.key
  <2>1. CASE item.key = noKey
    BY <2>1
  <2>2. CASE item.key # noKey /\ rest = queue /\ \A i \in DOMAIN queue : queue[i].key # item.key
    BY <2>2
  <2>3. ASSUME item.key # noKey, rest \in Seq(Item(SomeKeys)),
               NEW i \in DOMAIN queue, queue[i].key = item.key,
               Len(rest) = Len(queue) - 1,
               \A j \in 1 .. (Len(queue) - 1) :
                 rest[j] = (IF j < i THEN queue[j] ELSE queue[j + 1])
        PROVE  /\ OnePerKey(rest, noKey)
               /\ \A j \in DOMAIN rest : HasNext(rest[j])
               /\ \A j \in DOMAIN rest : rest[j].key # item.key
    <3> DEFINE from(j) == IF j < i THEN j ELSE j + 1
    <3>1. DOMAIN rest = 1 .. (Len(queue) - 1) /\ DOMAIN queue = 1 .. Len(queue)
      BY <2>3
    <3>2. \A j \in DOMAIN rest :
            from(j) \in DOMAIN queue /\ from(j) # i /\ rest[j] = queue[from(j)]
      BY <2>3, <3>1
    <3>3. \A j, k \in DOMAIN rest : j # k => from(j) # from(k)
      BY <3>1
    <3> HIDE DEF from
    <3> QED
      BY <2>3, <3>2, <3>3 DEF OnePerKey
  <2> QED
    BY <2>1, <2>2, <2>3, WithoutElements
<1> HIDE DEF rest
<1>2. Enqueued(queue, item, noKey) = Append(rest, item)
  BY DEF Enqueued, rest
<1>3. /\ Append(rest, item) \in Seq(Item(SomeKeys))
      /\ DOMAIN Append(rest, item) = 1 .. (Len(rest) + 1)
      /\ DOMAIN rest = 1 .. Len(rest)
      /\ Append(rest, item)[Len(rest) + 1] = item
      /\ \A j \in 1 .. Len(rest) : Append(rest, item)[j] = rest[j]
  BY <1>1
<1>4. OnePerKey(Append(rest, item), noKey)
  <2>1. SUFFICES ASSUME NEW j \in 1 .. (Len(rest) + 1), NEW k \in 1 .. (Len(rest) + 1),
                        Append(rest, item)[j].key = Append(rest, item)[k].key, j # k
                 PROVE  Append(rest, item)[j].key = noKey
    BY <1>3 DEF OnePerKey
  <2>2. CASE j = Len(rest) + 1
    BY <1>1, <1>3, <2>1, <2>2
  <2>3. CASE k = Len(rest) + 1
    BY <1>1, <1>3, <2>1, <2>3
  <2>4. CASE j # Len(rest) + 1 /\ k # Len(rest) + 1
    BY <1>1, <1>3, <2>1, <2>4 DEF OnePerKey
  <2> QED
    BY <2>2, <2>3, <2>4
<1> QED
  BY <1>1, <1>2, <1>3, <1>4

-----------------------------------------------------------------------------
(***************************************************************************)
(* Facts about a pass over the queues.                                     *)
(***************************************************************************)

\* The k-th turn of a pass, without the modulo.
LEMMA IndexValue ==
  ASSUME TypeOK, NEW k \in 1 .. Len(order)
  PROVE  /\ Index(k) = (IF curInd + k < Len(order) THEN curInd + k
                        ELSE curInd + k - Len(order))
         /\ Index(k) \in 0 .. (Len(order) - 1)
<1>1. /\ Len(order) \in Nat \ {0} /\ curInd + k \in Nat
      /\ curInd + k < 2 * Len(order)
  BY DEF TypeOK
<1>2. Index(k) = (IF curInd + k < Len(order) THEN curInd + k
                  ELSE curInd + k - Len(order))
  <2> DEFINE a == curInd + k
             n == Len(order)
  <2>1. n \in Nat \ {0} /\ a \in Nat /\ a < 2 * n
    BY <1>1
  <2> HIDE DEF a, n
  <2>2. a % n = (IF a < n THEN a ELSE a - n)
    BY <2>1, WrapOnce
  <2>3. Index(k) = a % n
    BY Zenon DEF a, n, Index
  <2>4. Index(k) = (IF a < n THEN a ELSE a - n)
    BY <2>2, <2>3, Zenon
  <2> QED
    BY <1>1, <2>4 DEF a, n, TypeOK
<1> QED
  BY <1>1, <1>2 DEF TypeOK

\* Taking a piece from the head of a queue keeps the queue well formed.
LEMMA PopCorrect ==
  ASSUME NEW queue \in Seq(Item(Keys)), queue # <<>>, OnePerKey(queue, NoKey),
         \A i \in DOMAIN queue : HasNext(queue[i])
  PROVE  /\ Popped(queue) \in Seq(Item(Keys))
         /\ OnePerKey(Popped(queue), NoKey)
         /\ \A i \in DOMAIN Popped(queue) : HasNext(Popped(queue)[i])
<1> DEFINE left == AfterNext(Head(queue))
           tail == Tail(queue)
<1>1. Head(queue) = queue[1] /\ 1 \in DOMAIN queue /\ Head(queue) \in Item(Keys)
  OBVIOUS
<1>2. left \in Item(Keys) /\ left.key = queue[1].key
  BY <1>1, AfterNextType
<1>3. /\ tail \in Seq(Item(Keys)) /\ Len(tail) = Len(queue) - 1
      /\ \A i \in 1 .. Len(tail) : i + 1 \in DOMAIN queue /\ tail[i] = queue[i + 1]
  OBVIOUS
<1>4. CASE ~HasNext(left)
  <2>1. Popped(queue) = tail
    BY <1>4 DEF Popped
  <2> HIDE DEF tail
  <2>2. DOMAIN tail = 1 .. Len(tail) /\ Len(tail) \in Nat
    BY <1>3
  <2>3. \A i \in DOMAIN tail : i \in Int /\ i + 1 \in DOMAIN queue /\ tail[i] = queue[i + 1]
    BY <1>3, <2>2
  <2>4. OnePerKey(tail, NoKey)
    BY <2>3 DEF OnePerKey
  <2> QED
    BY <1>3, <2>1, <2>3, <2>4
<1>5. CASE HasNext(left)
  <2> DEFINE one == <<left>>
  <2>1. Popped(queue) = one \o tail
    BY <1>5 DEF Popped
  <2> HIDE DEF left, tail
  <2>2. one \in Seq(Item(Keys)) /\ Len(one) = 1 /\ one[1] = left
    BY <1>2
  <2> HIDE DEF one
  <2>3. /\ one \o tail \in Seq(Item(Keys))
        /\ Len(one \o tail) = Len(one) + Len(tail)
        /\ \A i \in 1 .. (Len(one) + Len(tail)) :
             (one \o tail)[i] = (IF i <= Len(one) THEN one[i] ELSE tail[i - Len(one)])
    BY <1>3, <2>2, ConcatProperties, Zenon
  <2>4. /\ Popped(queue) \in Seq(Item(Keys)) /\ Len(Popped(queue)) = Len(queue)
        /\ DOMAIN Popped(queue) = DOMAIN queue
        /\ Popped(queue)[1] = left
        /\ \A i \in DOMAIN queue : i # 1 => Popped(queue)[i] = queue[i]
    <3>1. Popped(queue) \in Seq(Item(Keys)) /\ Len(Popped(queue)) = Len(queue)
      BY <1>3, <2>1, <2>2, <2>3
    <3>2. DOMAIN Popped(queue) = DOMAIN queue
      BY <3>1
    <3>3. ASSUME NEW i \in DOMAIN queue, i # 1
          PROVE  Popped(queue)[i] = queue[i]
      <4>1. i - 1 \in 1 .. Len(tail) /\ (i - 1) + 1 = i
        BY <1>3, <3>3
      <4>2. tail[i - 1] = queue[(i - 1) + 1]
        BY <1>3, <4>1
      <4> QED
        BY <1>3, <2>1, <2>2, <2>3, <3>3, <4>1, <4>2
    <3>4. Popped(queue)[1] = left
      BY <1>3, <2>1, <2>2, <2>3
    <3> QED
      BY <3>1, <3>2, <3>3, <3>4
  <2> QED
    BY <1>1, <1>2, <1>5, <2>4 DEF OnePerKey
<1> QED
  BY <1>4, <1>5

\* The ranks of the round robin: going k turns ahead adds k to the distance of every
\* queue that is not met on the way.
LEMMA DistanceGrows ==
  ASSUME TypeOK, NEW k \in 1 .. Len(order), curInd' = Index(k), order' = order,
         NEW i \in 1 .. Len(order),
         \A j \in 1 .. k : Index(j) + 1 # i
  PROVE  Distance(i)' = Distance(i) + k
<1>1. Len(order) \in Nat /\ curInd \in -1 .. (Len(order) - 1) /\ k \in Int /\ i \in Int
  BY DEF TypeOK
<1>2. curInd' = (IF curInd + k < Len(order) THEN curInd + k ELSE curInd + k - Len(order))
  BY IndexValue
<1>3. \A j \in 1 .. k :
        i - 1 # (IF curInd + j < Len(order) THEN curInd + j ELSE curInd + j - Len(order))
  <2>1. SUFFICES ASSUME NEW j \in 1 .. k
                 PROVE  i - 1 # (IF curInd + j < Len(order) THEN curInd + j
                                 ELSE curInd + j - Len(order))
    OBVIOUS
  <2>2. j \in 1 .. Len(order)
    BY <1>1
  <2>3. Index(j) = (IF curInd + j < Len(order) THEN curInd + j
                    ELSE curInd + j - Len(order))
    BY <2>2, IndexValue
  <2>4. Index(j) \in Int /\ Index(j) + 1 # i
    BY <2>2, IndexValue
  <2> QED
    BY <1>1, <2>3, <2>4
<1>4. curInd >= i - 1 => curInd + k < Len(order) + (i - 1)
  <2>1. SUFFICES ASSUME curInd >= i - 1, curInd + k >= Len(order) + (i - 1)
                 PROVE  FALSE
    BY <1>1
  <2> DEFINE j == (i - 1) + Len(order) - curInd
  <2>2. j \in 1 .. k /\ curInd + j = (i - 1) + Len(order)
    BY <1>1, <2>1
  <2> HIDE DEF j
  <2>3. i - 1 # (IF curInd + j < Len(order) THEN curInd + j ELSE curInd + j - Len(order))
    BY <1>3, <2>2
  <2> QED
    BY <1>1, <2>2, <2>3
<1>5. curInd < i - 1 => curInd + k < i - 1
  <2>1. SUFFICES ASSUME curInd < i - 1, curInd + k >= i - 1
                 PROVE  FALSE
    BY <1>1
  <2> DEFINE j == (i - 1) - curInd
  <2>2. j \in 1 .. k /\ curInd + j = i - 1
    BY <1>1, <2>1
  <2> HIDE DEF j
  <2>3. i - 1 # (IF curInd + j < Len(order) THEN curInd + j ELSE curInd + j - Len(order))
    BY <1>3, <2>2
  <2> QED
    BY <1>1, <2>2, <2>3
<1> QED
  BY <1>1, <1>2, <1>4, <1>5 DEF Distance

\* The distance of a queue stays below the number of queues.
LEMMA DistanceRange ==
  ASSUME TypeOK, NEW i \in 1 .. Len(order)
  PROVE  Distance(i) \in 0 .. (Len(order) - 1)
BY DEF TypeOK, Distance

-----------------------------------------------------------------------------
(***************************************************************************)
(* The invariant through one pass of the loop.                             *)
(***************************************************************************)

\* A pass that takes a piece preserves the invariant.
LEMMA ServePreserves ==
  ASSUME IInv, NEW lk \in SUBSET Created, Serve(lk),
         locked' = lk, processing' = processing, order' = order, failed' \in BOOLEAN
  PROVE  IInv'
<1>1. PICK k \in 1 .. Len(order) :
        LET q     == At(k)
            item  == Head(queues[q])
            piece == HasNext(item)
        IN
        /\ FirstReady(k, lk)
        /\ curInd' = Index(k)
        /\ queues' = [queues EXCEPT ![q] = Popped(@)]
        /\ event' = FALSE
        /\ lockDelay' = IF piece THEN LockDelay(item) ELSE 0
        /\ advGoing' = piece
        /\ pc' = IF piece THEN "adv" ELSE IF processing THEN "wait" ELSE "done"
        /\ onAir' = IF piece THEN {q} ELSE {}
        /\ bypass' = [p \in QueueIds |->
                        IF p # q /\ Ready(p, lk) THEN bypass[p] + 1 ELSE 0]
  BY DEF Serve
<1> DEFINE q == At(k)
           item == Head(queues[q])
<1>2. TypeOK /\ KeyUnique /\ NoEmptyItem /\ IndexOK /\ TaskOK /\ BypassOK
  BY DEF IInv
<1>3. Index(k) \in 0 .. (Len(order) - 1) /\ Len(order) \in Nat
  BY <1>2, IndexValue DEF TypeOK
<1>4. q = order[Index(k) + 1] /\ q \in QueueIds /\ q \in Created
  BY <1>2, <1>3 DEF At, TypeOK, Created
<1>5. Ready(q, lk) /\ \A j \in 1 .. (k - 1) : ~Ready(At(j), lk)
  BY <1>1 DEF FirstReady
<1>6. queues[q] \in Seq(Item(Keys)) /\ queues[q] # <<>>
  BY <1>2, <1>4, <1>5 DEF TypeOK, Ready
<1>7. item \in Item(Keys) /\ HasNext(item)
  <2>1. item = queues[q][1] /\ 1 \in DOMAIN queues[q] /\ item \in Item(Keys)
    BY <1>6
  <2> QED
    BY <1>2, <1>4, <2>1 DEF NoEmptyItem
<1>8. order # <<>>
  BY <1>3
<1>9. /\ Popped(queues[q]) \in Seq(Item(Keys))
      /\ OnePerKey(Popped(queues[q]), NoKey)
      /\ \A i \in DOMAIN Popped(queues[q]) : HasNext(Popped(queues[q])[i])
  BY <1>2, <1>4, <1>6, PopCorrect DEF KeyUnique, NoEmptyItem
<1>10. /\ curInd' = Index(k)
       /\ queues' = [queues EXCEPT ![q] = Popped(queues[q])]
       /\ event' = FALSE
       /\ lockDelay' = LockDelay(item)
       /\ advGoing' = TRUE
       /\ pc' = "adv"
       /\ onAir' = {q}
       /\ bypass' = [p \in QueueIds |->
                       IF p # q /\ Ready(p, lk) THEN bypass[p] + 1 ELSE 0]
  BY <1>1, <1>7
<1> HIDE DEF q, item
<1>11. /\ queues' \in [QueueIds -> Seq(Item(Keys))]
       /\ queues'[q] = Popped(queues[q])
       /\ \A p \in QueueIds : p # q => queues'[p] = queues[p]
  BY <1>2, <1>4, <1>9, <1>10 DEF TypeOK
<1>12. LockDelay(item) \in Nat
  BY <1>7 DEF LockDelay, Item
<1>13. bypass' \in [QueueIds -> Nat]
  BY <1>2, <1>10 DEF TypeOK
<1>14. TypeOK'
  <2>1. Created \subseteq QueueIds
    BY <1>2 DEF TypeOK, Created
  <2>2. locked' \in SUBSET QueueIds /\ onAir' \in SUBSET QueueIds
    BY <1>4, <1>10, <2>1
  <2>3. curInd' \in -1 .. (Len(order') - 1)
    BY <1>3, <1>10
  <2>4. processing' \in BOOLEAN /\ order' \in Seq(QueueIds)
    BY <1>2 DEF TypeOK
  <2> QED
    BY <1>10, <1>11, <1>12, <1>13, <2>2, <2>3, <2>4 DEF TypeOK
<1>15. KeyUnique' /\ NoEmptyItem'
  BY <1>2, <1>9, <1>11 DEF KeyUnique, NoEmptyItem
<1>16. Created' = Created
  BY DEF Created
<1>17. IndexOK'
  BY <1>2, <1>4, <1>10, <1>11, <1>16 DEF IndexOK
<1>18. TaskOK'
  BY <1>3, <1>4, <1>8, <1>10 DEF TaskOK
<1>19. BypassOK'
  <2>1. \A p \in QueueIds \ Created : bypass'[p] = 0
    BY <1>2, <1>10 DEF BypassOK, IndexOK, Ready
  <2>2. ASSUME NEW i \in DOMAIN order
        PROVE  bypass'[order[i]] <= Distance(i)'
    <3>1. i \in 1 .. Len(order) /\ order[i] \in QueueIds
      BY <1>2 DEF TypeOK
    <3>2. Distance(i)' \in Nat
      <4>1. Len(order') = Len(order) /\ i \in 1 .. Len(order')
        BY <3>1
      <4> QED
        BY <1>3, <1>10, <3>1, <4>1 DEF Distance
    <3>3. CASE order[i] # q /\ Ready(order[i], lk)
      <4>1. ASSUME NEW j \in 1 .. k PROVE Index(j) + 1 # i
        <5>1. At(j) = order[Index(j) + 1]
          BY DEF At
        <5>2. CASE j = k
          BY <1>4, <3>3, <5>2
        <5>3. CASE j \in 1 .. (k - 1)
          BY <1>5, <3>3, <5>1, <5>3
        <5> QED
          BY <5>2, <5>3
      <4>2. Distance(i)' = Distance(i) + k
        BY <1>2, <1>10, <3>1, <4>1, DistanceGrows
      <4>3. bypass'[order[i]] = bypass[order[i]] + 1
        BY <1>10, <3>1, <3>3
      <4>4. bypass[order[i]] <= Distance(i)
        BY <1>2 DEF BypassOK
      <4>5. bypass[order[i]] \in Nat /\ Distance(i) \in Int
        BY <1>2, <3>1, DistanceRange DEF TypeOK
      <4> QED
        BY <4>2, <4>3, <4>4, <4>5
    <3>4. CASE ~(order[i] # q /\ Ready(order[i], lk))
      <4>1. bypass'[order[i]] = 0
        BY <1>10, <3>1, <3>4
      <4> QED
        BY <3>2, <4>1
    <3> QED
      BY <3>3, <3>4
  <2> QED
    BY <1>16, <2>1, <2>2 DEF BypassOK
<1>20. NoLostWakeup'
  BY <1>10 DEF NoLostWakeup
<1> QED
  BY <1>14, <1>15, <1>17, <1>18, <1>19, <1>20 DEF IInv

\* A pass that finds nothing preserves the invariant.
LEMMA RestPreserves ==
  ASSUME IInv, NEW lk \in SUBSET Created, Rest(lk),
         locked' = lk, processing' = processing, order' = order, failed' \in BOOLEAN
  PROVE  IInv'
<1>1. TypeOK /\ KeyUnique /\ NoEmptyItem /\ IndexOK /\ TaskOK /\ BypassOK
  BY DEF IInv
<1>2. /\ \A q \in Created : ~Ready(q, lk)
      /\ curInd' = (IF order = <<>> THEN curInd ELSE Index(Len(order)))
      /\ event' = FALSE /\ lockDelay' = 0 /\ advGoing' = FALSE /\ onAir' = {}
      /\ pc' = (IF processing THEN "wait" ELSE "done")
      /\ queues' = queues /\ bypass' = bypass
  BY DEF Rest
<1>3. order \in Seq(QueueIds) /\ Len(order) \in Nat /\ curInd \in -1 .. (Len(order) - 1)
  BY <1>1 DEF TypeOK
<1>4. curInd' = (IF order = <<>> \/ curInd >= 0 THEN curInd ELSE Len(order) - 1)
  <2>1. CASE order = <<>>
    BY <1>2, <2>1
  <2>2. CASE order # <<>>
    <3>1. Len(order) \in 1 .. Len(order)
      BY <1>3, <2>2
    <3>2. Index(Len(order)) = (IF curInd + Len(order) < Len(order) THEN curInd + Len(order)
                               ELSE curInd + Len(order) - Len(order))
      BY <1>1, <3>1, IndexValue
    <3> QED
      BY <1>2, <1>3, <2>2, <3>2
  <2> QED
    BY <2>1, <2>2
<1>5. curInd' \in -1 .. (Len(order') - 1)
  BY <1>3, <1>4
<1>6. Created' = Created /\ Created \subseteq QueueIds
  BY <1>3 DEF Created
<1>7. TypeOK'
  BY <1>1, <1>2, <1>5, <1>6 DEF TypeOK
<1>8. KeyUnique' /\ NoEmptyItem' /\ IndexOK'
  BY <1>1, <1>2, <1>6 DEF KeyUnique, NoEmptyItem, IndexOK
<1>9. TaskOK'
  BY <1>2 DEF TaskOK
<1>10. BypassOK'
  <2>1. ASSUME NEW i \in DOMAIN order
        PROVE  bypass[order[i]] <= Distance(i)'
    <3>1. i \in 1 .. Len(order) /\ order[i] \in QueueIds
      BY <1>3
    <3>2. Distance(i)' = Distance(i)
      BY <1>3, <1>4, <3>1 DEF Distance
    <3> QED
      BY <1>1, <3>2 DEF BypassOK
  <2> QED
    BY <1>1, <1>2, <1>6, <2>1 DEF BypassOK
<1>11. NoLostWakeup'
  BY <1>1, <1>2 DEF NoLostWakeup, Ready, IndexOK
<1> QED
  BY <1>7, <1>8, <1>9, <1>10, <1>11 DEF IInv

\* The head of the loop preserves the invariant, provided that a cleared event is
\* met only after a failure or with nothing to serve.
LEMMA LoopPreserves ==
  ASSUME IInv, NEW lk \in SUBSET Created, NEW ev \in BOOLEAN, Loop(lk, ev),
         locked' = lk, processing' = processing, order' = order, failed' \in BOOLEAN,
         processing /\ ~ev => failed' \/ \A q \in QueueIds : ~Ready(q, lk)
  PROVE  IInv'
<1>1. TypeOK /\ KeyUnique /\ NoEmptyItem /\ IndexOK /\ TaskOK /\ BypassOK
  BY DEF IInv
<1>2. Created' = Created /\ Created \subseteq QueueIds
  BY <1>1 DEF Created, TypeOK
<1>3. CASE processing /\ ev /\ Pass(lk)
  BY <1>3, ServePreserves, RestPreserves DEF Pass
<1>4. CASE /\ ~processing
           /\ pc' = "done" /\ event' = ev /\ onAir' = {}
           /\ UNCHANGED <<queues, curInd, lockDelay, advGoing, bypass>>
  <2>1. TypeOK'
    BY <1>1, <1>2, <1>4 DEF TypeOK
  <2>2. KeyUnique' /\ NoEmptyItem' /\ IndexOK' /\ TaskOK' /\ NoLostWakeup'
    BY <1>1, <1>2, <1>4 DEF KeyUnique, NoEmptyItem, IndexOK, TaskOK, NoLostWakeup
  <2>3. BypassOK'
    BY <1>1, <1>2, <1>4 DEF BypassOK, Distance
  <2> QED
    BY <2>1, <2>2, <2>3 DEF IInv
<1>5. CASE /\ processing /\ ~ev
           /\ pc' = "wait" /\ event' = FALSE /\ lockDelay' = 0 /\ advGoing' = FALSE
           /\ onAir' = {}
           /\ UNCHANGED <<queues, curInd, bypass>>
  <2>1. TypeOK'
    BY <1>1, <1>2, <1>5 DEF TypeOK
  <2>2. KeyUnique' /\ NoEmptyItem' /\ IndexOK' /\ TaskOK'
    BY <1>1, <1>2, <1>5 DEF KeyUnique, NoEmptyItem, IndexOK, TaskOK
  <2>3. BypassOK'
    BY <1>1, <1>2, <1>5 DEF BypassOK, Distance
  <2>4. NoLostWakeup'
    BY <1>5 DEF NoLostWakeup, Ready
  <2> QED
    BY <2>1, <2>2, <2>3, <2>4 DEF IInv
<1> QED
  BY <1>3, <1>4, <1>5 DEF Loop

-----------------------------------------------------------------------------
(***************************************************************************)
(* The invariant through each action.                                      *)
(***************************************************************************)

\* Enqueueing, in a known queue or in a new one, preserves the invariant.
LEMMA EnqueuePreserves ==
  ASSUME QueueAssumption, IInv, NEW q \in QueueIds, NEW cmd \in Commands, Enqueue(q, cmd)
  PROVE  IInv'
<1> DEFINE item == NewItem(cmd, Bunch)
           new  == Enqueued(queues[q], item, NoKey)
<1>1. TypeOK /\ KeyUnique /\ NoEmptyItem /\ IndexOK /\ TaskOK /\ BypassOK /\ NoLostWakeup
  BY DEF IInv
<1>2. /\ pc # "none"
      /\ order' = (IF q \in Created THEN order ELSE Append(order, q))
      /\ queues' = [queues EXCEPT ![q] = new]
      /\ event' = TRUE
      /\ UNCHANGED <<processing, locked, curInd, lockDelay, advGoing, pc, onAir,
                     failed, bypass>>
  BY DEF Enqueue
<1>3. item \in Item(Keys) /\ HasNext(item)
  BY NewItemCorrect DEF QueueAssumption
<1>4. queues[q] \in Seq(Item(Keys)) /\ OnePerKey(queues[q], NoKey)
      /\ \A i \in DOMAIN queues[q] : HasNext(queues[q][i])
  BY <1>1 DEF TypeOK, KeyUnique, NoEmptyItem
<1> HIDE DEF item
<1>5. /\ new \in Seq(Item(Keys)) /\ OnePerKey(new, NoKey)
      /\ \A i \in DOMAIN new : HasNext(new[i])
  BY <1>3, <1>4, EnqueuedCorrect
<1> HIDE DEF new
<1>6. /\ queues' \in [QueueIds -> Seq(Item(Keys))] /\ queues'[q] = new
      /\ \A p \in QueueIds : p # q => queues'[p] = queues[p]
  BY <1>1, <1>2, <1>5 DEF TypeOK
<1>7. /\ order \in Seq(QueueIds) /\ order' \in Seq(QueueIds)
      /\ Len(order) \in Nat /\ Len(order') \in Nat
      /\ Len(order) <= Len(order') /\ Len(order') <= Len(order) + 1
      /\ \A i \in 1 .. Len(order) : order'[i] = order[i]
      /\ \A i \in 1 .. Len(order') : i \notin 1 .. Len(order) =>
            i = Len(order) + 1 /\ order'[i] = q /\ q \notin Created
  BY <1>1, <1>2 DEF TypeOK
<1>8. Created' = Created \cup {q} /\ Created \subseteq QueueIds
  <2>1. CASE q \in Created
    BY <1>2, <1>7, <2>1 DEF Created
  <2>2. CASE q \notin Created
    <3>1. /\ Len(order') = Len(order) + 1 /\ order'[Len(order) + 1] = q
          /\ DOMAIN order' = 1 .. (Len(order) + 1) /\ DOMAIN order = 1 .. Len(order)
      BY <1>2, <1>7, <2>2
    <3>2. \A i \in DOMAIN order' : order'[i] \in Created \cup {q}
      BY <1>7, <3>1 DEF Created
    <3>3. \A p \in Created \cup {q} : \E i \in DOMAIN order' : order'[i] = p
      <4>1. Len(order) + 1 \in DOMAIN order'
        BY <1>7, <3>1
      <4>2. \A i \in DOMAIN order : i \in DOMAIN order'
        BY <1>7, <3>1
      <4> QED
        BY <1>7, <3>1, <4>1, <4>2 DEF Created
    <3> QED
      BY <1>7, <3>1, <3>2, <3>3 DEF Created
  <2> QED
    BY <2>1, <2>2
<1>9. TypeOK'
  <2>1. curInd' \in -1 .. (Len(order') - 1)
    BY <1>1, <1>2, <1>7 DEF TypeOK
  <2> QED
    BY <1>1, <1>2, <1>6, <1>7, <2>1 DEF TypeOK
<1>10. KeyUnique' /\ NoEmptyItem'
  BY <1>1, <1>5, <1>6 DEF KeyUnique, NoEmptyItem
<1>11. IndexOK'
  <2>1. ASSUME NEW i \in 1 .. Len(order'), NEW j \in 1 .. Len(order'), order'[i] = order'[j]
        PROVE  i = j
    <3>1. CASE i \in 1 .. Len(order) /\ j \in 1 .. Len(order)
      BY <1>1, <1>7, <2>1, <3>1 DEF IndexOK
    <3>2. CASE i \notin 1 .. Len(order) /\ j \in 1 .. Len(order)
      BY <1>7, <2>1, <3>2 DEF Created
    <3>3. CASE i \in 1 .. Len(order) /\ j \notin 1 .. Len(order)
      BY <1>7, <2>1, <3>3 DEF Created
    <3>4. CASE i \notin 1 .. Len(order) /\ j \notin 1 .. Len(order)
      BY <1>7, <3>4
    <3> QED
      BY <3>1, <3>2, <3>3, <3>4
  <2>2. DOMAIN order' = 1 .. Len(order')
    BY <1>7
  <2> QED
    BY <1>1, <1>2, <1>6, <1>8, <2>1, <2>2 DEF IndexOK
<1>12. TaskOK'
  <2>1. processing /\ pc = "adv" => curInd + 1 \in 1 .. Len(order)
    BY <1>1, <1>2 DEF TaskOK, TypeOK
  <2> QED
    BY <1>1, <1>2, <1>7, <2>1 DEF TaskOK
<1>13. BypassOK'
  <2>1. ASSUME NEW i \in 1 .. Len(order')
        PROVE  bypass[order'[i]] <= Distance(i)'
    <3>1. curInd \in -1 .. (Len(order) - 1)
      BY <1>1 DEF TypeOK
    <3>2. CASE i \in 1 .. Len(order)
      <4>1. bypass[order[i]] <= Distance(i) /\ bypass[order[i]] \in Nat
        <5>1. i \in DOMAIN order /\ order[i] \in QueueIds
          BY <1>7, <3>2
        <5> QED
          BY <1>1, <5>1 DEF BypassOK, TypeOK
      <4>2. Distance(i) <= Distance(i)'
        BY <1>2, <1>7, <3>1, <3>2 DEF Distance
      <4>3. Distance(i) \in Int /\ Distance(i)' \in Int
        BY <1>2, <1>7, <3>1, <3>2 DEF Distance
      <4> QED
        BY <1>7, <3>2, <4>1, <4>2, <4>3
    <3>3. CASE i \notin 1 .. Len(order)
      <4>1. bypass[order'[i]] = 0
        BY <1>1, <1>7, <3>3 DEF BypassOK
      <4>2. 0 <= Distance(i)'
        <5>1. i = Len(order) + 1 /\ Len(order') = Len(order) + 1
          BY <1>7, <2>1, <3>3
        <5> QED
          BY <1>2, <1>7, <3>1, <5>1 DEF Distance
      <4> QED
        BY <4>1, <4>2
    <3> QED
      BY <3>2, <3>3
  <2>2. DOMAIN order' = 1 .. Len(order')
    BY <1>7
  <2> QED
    BY <1>1, <1>2, <1>8, <2>1, <2>2 DEF BypassOK
<1>14. NoLostWakeup'
  BY <1>2 DEF NoLostWakeup
<1> QED
  BY <1>9, <1>10, <1>11, <1>12, <1>13, <1>14 DEF IInv

\* The lock taken after a piece is put on a queue of the adapter.
LEMMA LockedAfterType ==
  ASSUME IInv, lockDelay # 0 => order # <<>>, pc = "adv"
  PROVE  LockedAfter \in SUBSET Created
<1>1. TypeOK /\ IndexOK /\ TaskOK
  BY DEF IInv
<1>2. CASE lockDelay = 0
  BY <1>1, <1>2 DEF LockedAfter, IndexOK
<1>3. CASE lockDelay # 0
  <2>1. (IF curInd < 0 THEN Len(order) ELSE curInd + 1) \in DOMAIN order
    BY <1>1, <1>3 DEF TypeOK
  <2> QED
    BY <1>1, <1>3, <2>1 DEF LockedAfter, Current, IndexOK, Created
<1> QED
  BY <1>2, <1>3

\* Every step preserves the invariant.
LEMMA NextPreserves ==
  ASSUME QueueAssumption, IInv, [Next]_vars
  PROVE  IInv'
<1>1. TypeOK /\ KeyUnique /\ NoEmptyItem /\ IndexOK /\ TaskOK /\ BypassOK /\ NoLostWakeup
  BY DEF IInv
<1>2. locked \in SUBSET Created /\ event \in BOOLEAN /\ failed \in BOOLEAN
  BY <1>1 DEF IndexOK, TypeOK
<1>3. CASE AsyncInit
  <2>1. ~processing /\ order = <<>> /\ \A q \in QueueIds : queues[q] = <<>>
    BY <1>1, <1>3 DEF AsyncInit, TaskOK, IndexOK, Created
  <2> USE <1>1, <1>3, <2>1 DEF AsyncInit
  <2>2. TypeOK'
    BY DEF TypeOK
  <2>3. KeyUnique' /\ NoEmptyItem' /\ IndexOK'
    BY DEF KeyUnique, NoEmptyItem, IndexOK, Created
  <2>4. TaskOK'
    <3>1. ~advGoing
      BY DEF TaskOK
    <3> QED
      BY <3>1 DEF TaskOK
  <2>5. BypassOK' /\ NoLostWakeup'
    BY DEF BypassOK, Created, Distance, NoLostWakeup
  <2> QED
    BY <2>2, <2>3, <2>4, <2>5 DEF IInv
<1>4. ASSUME NEW q \in QueueIds, NEW cmd \in Commands, Enqueue(q, cmd)
      PROVE  IInv'
  BY <1>4, EnqueuePreserves
<1>5. CASE DequeueStart
  <2>1. processing /\ ~event => \A q \in QueueIds : ~Ready(q, locked)
    BY <1>1, <1>5 DEF DequeueStart, TaskOK, Ready
  <2> QED
    BY <1>2, <1>5, <2>1, LoopPreserves DEF DequeueStart
<1>6. CASE DequeueWake
  BY <1>2, <1>6, ServePreserves, RestPreserves DEF DequeueWake, Pass
<1>7. CASE AdvertiseDone
  <2>1. LockedAfter \in SUBSET Created
    BY <1>7, LockedAfterType DEF AdvertiseDone, AdvertiseDoneWith
  <2>2. /\ locked' = LockedAfter /\ failed' \in BOOLEAN /\ Loop(LockedAfter, TRUE)
        /\ processing' = processing /\ order' = order
    BY <1>7 DEF AdvertiseDone, AdvertiseDoneWith
  <2> QED
    BY <2>1, <2>2, LoopPreserves
<1>8. CASE AdvertiseFail
  <2> USE <1>1, <1>8 DEF AdvertiseFail
  <2>1. TypeOK'
    BY DEF TypeOK
  <2>2. KeyUnique' /\ NoEmptyItem' /\ IndexOK' /\ NoLostWakeup'
    BY DEF KeyUnique, NoEmptyItem, IndexOK, Created, NoLostWakeup
  <2>3. TaskOK'
    BY DEF TaskOK
  <2>4. BypassOK'
    BY DEF BypassOK, Created, Distance
  <2> QED
    BY <2>1, <2>2, <2>3, <2>4 DEF IInv
<1>9. CASE ErrorHandled
  <2>1. failed
    BY <1>1, <1>9 DEF ErrorHandled, TaskOK
  <2> QED
    BY <1>2, <1>9, <2>1, LoopPreserves DEF ErrorHandled
<1>10. ASSUME NEW q \in QueueIds, UnlockQueue(q)
       PROVE  IInv'
  <2> USE <1>1, <1>10 DEF UnlockQueue, UnlockQueueWith
  <2>1. TypeOK'
    BY DEF TypeOK
  <2>2. KeyUnique' /\ NoEmptyItem' /\ IndexOK' /\ NoLostWakeup'
    BY DEF KeyUnique, NoEmptyItem, IndexOK, Created, NoLostWakeup
  <2>3. TaskOK'
    BY DEF TaskOK
  <2>4. BypassOK'
    BY DEF BypassOK, Created, Distance
  <2> QED
    BY <2>1, <2>2, <2>3, <2>4 DEF IInv
<1>11. CASE AsyncFinal
  <2> USE <1>1, <1>11 DEF AsyncFinal, AsyncFinalWith
  <2>1. /\ ~processing' /\ order' = <<>> /\ locked' = {} /\ curInd' = -1 /\ event' = TRUE
        /\ queues' = [q \in QueueIds |-> <<>>] /\ bypass' = [q \in QueueIds |-> 0]
        /\ pc' = (IF pc = "none" THEN "done" ELSE pc)
        /\ UNCHANGED <<lockDelay, advGoing, onAir, failed>>
    OBVIOUS
  <2>2. Len(order') = 0 /\ DOMAIN order' = {} /\ Created' = {}
    BY <2>1 DEF Created
  <2>3. TypeOK'
    <3>1. <<>> \in Seq(QueueIds) /\ <<>> \in Seq(Item(Keys))
      OBVIOUS
    <3>2. queues' \in [QueueIds -> Seq(Item(Keys))] /\ bypass' \in [QueueIds -> Nat]
      BY <2>1, <3>1
    <3>3. curInd' \in -1 .. (Len(order') - 1)
      BY <2>1, <2>2
    <3> QED
      BY <2>1, <3>1, <3>2, <3>3 DEF TypeOK
  <2>4. KeyUnique' /\ NoEmptyItem' /\ IndexOK'
    BY <2>1, <2>2 DEF KeyUnique, NoEmptyItem, IndexOK, OnePerKey
  <2>5. TaskOK' /\ NoLostWakeup'
    BY <2>1 DEF TaskOK, NoLostWakeup
  <2>6. BypassOK'
    BY <2>1, <2>2 DEF BypassOK
  <2> QED
    BY <2>3, <2>4, <2>5, <2>6 DEF IInv
<1>12. CASE UNCHANGED vars
  <2> USE <1>1, <1>12 DEF vars
  <2>1. TypeOK' /\ KeyUnique' /\ NoEmptyItem'
    BY DEF TypeOK, KeyUnique, NoEmptyItem
  <2>2. IndexOK' /\ TaskOK' /\ BypassOK' /\ NoLostWakeup'
    BY DEF IndexOK, TaskOK, BypassOK, Created, Distance, NoLostWakeup, Ready
  <2> QED
    BY <2>1, <2>2 DEF IInv
<1> QED
  BY <1>3, <1>4, <1>5, <1>6, <1>7, <1>8, <1>9, <1>10, <1>11, <1>12 DEF Next

\* A new adapter satisfies the invariant.
LEMMA InitEstablishes == Init => IInv
<1> SUFFICES ASSUME Init PROVE IInv
  OBVIOUS
<1>1. TypeOK
  <2>1. <<>> \in Seq(QueueIds) /\ <<>> \in Seq(Item(Keys)) /\ Len(order) = 0
    BY DEF Init
  <2>2. queues \in [QueueIds -> Seq(Item(Keys))] /\ bypass \in [QueueIds -> Nat]
    BY <2>1 DEF Init
  <2>3. order \in Seq(QueueIds) /\ curInd \in -1 .. (Len(order) - 1)
    BY <2>1 DEF Init
  <2>4. /\ processing = FALSE /\ event = FALSE /\ locked = {} /\ lockDelay = 0
        /\ advGoing = FALSE /\ pc = "none" /\ onAir = {} /\ failed = FALSE
    BY DEF Init
  <2> QED
    BY <2>2, <2>3, <2>4 DEF TypeOK
<1>2. KeyUnique /\ NoEmptyItem /\ IndexOK
  BY DEF Init, KeyUnique, NoEmptyItem, IndexOK, OnePerKey, Created
<1>3. TaskOK /\ BypassOK /\ NoLostWakeup
  BY DEF Init, TaskOK, BypassOK, NoLostWakeup, Created, Ready
<1> QED
  BY <1>1, <1>2, <1>3 DEF IInv

-----------------------------------------------------------------------------
(***************************************************************************)
(* The theorems.                                                           *)
(***************************************************************************)

\* The inductive invariant holds in every reachable state, for every set of queues and
\* commands: in particular the state of the adapter stays well formed.
THEOREM InvariantHolds == SafeSpec => []IInv
<1>1. Init => IInv
  BY InitEstablishes
<1>2. IInv /\ [Next]_vars => IInv'
  BY QueueAssumption, NextPreserves
<1> QED
  BY <1>1, <1>2, PTL DEF SafeSpec

\* Type correctness of the adapter.
THEOREM TypeCorrect == SafeSpec => []TypeOK
<1>1. IInv => TypeOK
  BY DEF IInv
<1> QED
  BY <1>1, InvariantHolds, PTL

\* The task never sleeps on a cleared event with something to serve, unless it has
\* just reported an error.
THEOREM WakeupsAreNotLost == SafeSpec => []NoLostWakeup
<1>1. IInv => NoLostWakeup
  BY DEF IInv
<1> QED
  BY <1>1, InvariantHolds, PTL

\* A waiting command of a device is replaced by the newer one, never doubled.
THEOREM OneCommandPerKey == SafeSpec => []KeyUnique
<1>1. IInv => KeyUnique
  BY DEF IInv
<1> QED
  BY <1>1, InvariantHolds, PTL

\* Round robin fairness: however many queues there are and whatever is enqueued, a
\* queue waits for at most one piece of each of the others.
THEOREM BypassIsBounded == SafeSpec => []BoundedBypass
<1>1. IInv => BoundedBypass
  <2>1. SUFFICES ASSUME IInv, NEW q \in QueueIds, queues[q] # <<>>
                 PROVE  bypass[q] < Len(order)
    BY DEF BoundedBypass
  <2>2. TypeOK /\ IndexOK /\ BypassOK
    BY <2>1 DEF IInv
  <2>3. PICK i \in DOMAIN order : order[i] = q
    BY <2>1, <2>2 DEF IndexOK, Created
  <2>4. i \in 1 .. Len(order) /\ Len(order) \in Nat /\ bypass[q] \in Nat
    BY <2>2, <2>3 DEF TypeOK
  <2>5. Distance(i) \in 0 .. (Len(order) - 1)
    BY <2>2, <2>4, DistanceRange
  <2>6. bypass[q] <= Distance(i)
    BY <2>2, <2>3 DEF BypassOK
  <2> QED
    BY <2>4, <2>5, <2>6
<1> QED
  BY <1>1, InvariantHolds, PTL

\* drain returns only when nothing is on the air and nothing can come back.
THEOREM DrainIsSound == SafeSpec => []DrainSound
<1>1. IInv => DrainSound
  BY DEF IInv, TypeOK, TaskOK, DrainSound, Drained
<1> QED
  BY <1>1, InvariantHolds, PTL

-----------------------------------------------------------------------------
(***************************************************************************)
(* AdapterQueue implements AdapterService: each step of the task, of a     *)
(* timer or of a caller is a step of the service or leaves what it         *)
(* promises unchanged.                                                     *)
(***************************************************************************)

\* The state of the service, as Service maps it.
Phase == IF processing THEN "up" ELSE IF pc = "none" THEN "new" ELSE "closed"
Pend  == IF processing THEN queues ELSE [q \in QueueIds |-> <<>>]
Kept  == IF processing THEN locked ELSE {}
Air   == IF processing THEN onAir ELSE {}
Hold  == processing /\ pc = "adv" /\ lockDelay # 0

\* What the service holds back once the piece on the air is done.
Held == IF Hold THEN Kept \cup Air ELSE Kept

\* A step the service does not see.
Unseen == UNCHANGED <<Phase, Pend, Kept, Air, Hold>>

-----------------------------------------------------------------------------
(* The steps of the service, in the terms of the queues. *)

LEMMA UnseenStep == Unseen => UNCHANGED Service!vars
  BY DEF Unseen, Service!vars, Phase, Pend, Kept, Air, Hold

\* What an ended adapter does, it does unseen.
LEMMA EndedUnseen ==
  ASSUME ~ processing, processing' = processing, Phase' = Phase
  PROVE  UNCHANGED Service!vars
<1>1. Pend' = Pend /\ Kept' = Kept /\ Air' = Air /\ Hold' = Hold
  BY DEF Pend, Kept, Air, Hold
<1> QED BY <1>1, UnseenStep DEF Unseen

LEMMA ServiceServe ==
  ASSUME NEW q \in QueueIds, Phase = "up", Phase' = "up", q \notin Held, queues[q] # <<>>,
         Air' = {q}, locked' = Held,
         queues' = [queues EXCEPT ![q] =
           (IF Tail(Head(queues[q]).advs) = <<>> THEN <<>>
            ELSE <<[Head(queues[q]) EXCEPT !.advs = Tail(Head(queues[q]).advs)]>>)
           \o Tail(queues[q])],
         Hold' = (Tail(Head(queues[q]).advs) = <<>> /\ Head(queues[q]).delay_after # 0)
  PROVE  Service!Serve(q)
  BY DEF Service!Serve, Service!CanServe, Service!HeldNext, Phase, Pend, Kept, Air, Hold, Held

LEMMA ServiceSettle ==
  ASSUME Phase = "up", Phase' = "up", Air # {}, \A q \in QueueIds : q \in Held \/ queues[q] = <<>>,
         Air' = {}, locked' = Held, Hold' = FALSE, queues' = queues
  PROVE  Service!Settle
  BY DEF Service!Settle, Service!CanServe, Service!HeldNext, Phase, Pend, Kept, Air, Hold, Held

-----------------------------------------------------------------------------
(* A pass of the task. *)

\* Taking a piece from the head of a queue, as the service says it.
LEMMA PoppedIsServed ==
  ASSUME NEW queue \in Seq(Item(Keys)), queue # <<>>, HasNext(queue[1])
  PROVE  /\ Popped(queue) =
              (IF Tail(Head(queue).advs) = <<>> THEN <<>>
               ELSE <<[Head(queue) EXCEPT !.advs = Tail(Head(queue).advs)]>>) \o Tail(queue)
         /\ LockDelay(Head(queue)) # 0 <=>
              Tail(Head(queue).advs) = <<>> /\ Head(queue).delay_after # 0
<1> DEFINE item == Head(queue)
           left == Tail(item.advs)
           tail == Tail(queue)
<1>1. item = queue[1] /\ item \in Item(Keys) /\ tail \in Seq(Item(Keys)) OBVIOUS
<1>2. AfterNext(item).advs = left
  <2> HIDE DEF item
  <2> QED BY <1>1 DEF AfterNext, Item
<1>3. HasNext(AfterNext(item)) <=> left # <<>> BY <1>2 DEF HasNext
<1>4. [item EXCEPT !.advs = left] = AfterNext(item)
  <2>1. AfterNext(item) = [key |-> item.key, advs |-> left, delay_after |-> item.delay_after]
    BY <1>1 DEF AfterNext
  <2>2. PICK k \in Keys, a \in Seq(Nat \ {0}), d \in Nat :
          item = [key |-> k, advs |-> a, delay_after |-> d]
    <3> HIDE DEF item
    <3> QED BY <1>1 DEF Item
  <2> HIDE DEF left, item
  <2>3. [item EXCEPT !.advs = left] = [key |-> k, advs |-> left, delay_after |-> d]
    BY <2>2
  <2>4. item.key = k /\ item.delay_after = d BY <2>2
  <2> QED BY <2>1, <2>3, <2>4
<1>5. <<>> \o tail = tail
  <2> HIDE DEF tail
  <2> QED BY <1>1
<1> HIDE DEF item, left, tail
<1>7. Popped(queue) = IF left # <<>> THEN <<AfterNext(item)>> \o tail ELSE tail
  BY <1>3 DEF Popped, item, left, tail
<1>8. LockDelay(item) = IF left # <<>> THEN 0 ELSE item.delay_after BY <1>3 DEF LockDelay
<1>9. Popped(queue) = (IF left = <<>> THEN <<>> ELSE <<[item EXCEPT !.advs = left]>>) \o tail
  BY <1>4, <1>5, <1>7
<1> QED BY <1>8, <1>9 DEF item, left, tail

\* A pass that takes a piece is a piece served.
LEMMA ServeRefines ==
  ASSUME IInv, processing, processing' = processing, Serve(Held), locked' = Held
  PROVE  \E q \in QueueIds : Service!Serve(q)
<1>1. PICK k \in 1 .. Len(order) :
        LET q     == At(k)
            item  == Head(queues[q])
            piece == HasNext(item)
        IN
        /\ FirstReady(k, Held)
        /\ queues' = [queues EXCEPT ![q] = Popped(@)]
        /\ lockDelay' = IF piece THEN LockDelay(item) ELSE 0
        /\ pc' = IF piece THEN "adv" ELSE IF processing THEN "wait" ELSE "done"
        /\ onAir' = IF piece THEN {q} ELSE {}
  BY DEF Serve
<1> DEFINE q == At(k)
<1>2. TypeOK /\ NoEmptyItem BY DEF IInv
<1>3. q \in QueueIds
  <2>1. Index(k) \in 0 .. (Len(order) - 1) /\ Len(order) \in Nat BY <1>2, IndexValue DEF TypeOK
  <2> QED BY <1>2, <2>1 DEF At, TypeOK
<1>4. q \notin Held /\ queues[q] # <<>> BY <1>1 DEF FirstReady, Ready
<1>5. queues[q] \in Seq(Item(Keys)) BY <1>2, <1>3 DEF TypeOK
<1>6. HasNext(queues[q][1]) /\ Head(queues[q]) = queues[q][1]
  BY <1>2, <1>3, <1>4, <1>5 DEF NoEmptyItem
<1>7. /\ queues' = [queues EXCEPT ![q] = Popped(queues[q])]
      /\ lockDelay' = LockDelay(Head(queues[q])) /\ pc' = "adv" /\ onAir' = {q}
  BY <1>1, <1>6
<1> HIDE DEF q
<1> DEFINE item == Head(queues[q])
           ended == Tail(item.advs) = <<>> /\ item.delay_after # 0
<1>8. /\ Popped(queues[q]) =
           (IF Tail(item.advs) = <<>> THEN <<>>
            ELSE <<[item EXCEPT !.advs = Tail(item.advs)]>>) \o Tail(queues[q])
      /\ LockDelay(item) # 0 <=> ended
  BY <1>4, <1>5, <1>6, PoppedIsServed
<1>9. Hold' = ended
  <2>1. lockDelay' # 0 <=> ended BY <1>7, <1>8
  <2>2. processing' /\ pc' = "adv" BY <1>7
  <2> QED BY <2>1, <2>2 DEF Hold
<1>10. Phase = "up" /\ Phase' = "up" /\ Air' = {q} BY <1>7 DEF Phase, Air
<1>11. Service!Serve(q) BY <1>3, <1>4, <1>7, <1>8, <1>9, <1>10, ServiceServe
<1> QED BY <1>3, <1>11

\* The head of the loop, after a piece or not: the next piece, none, or nothing to see.
LEMMA LoopRefines ==
  ASSUME IInv, processing' = processing, order' = order, NEW ev \in BOOLEAN, Loop(Held, ev),
         locked' = Held, pc # "none", pc = "adv" => ev
  PROVE  Service!Next \/ UNCHANGED Service!vars
<1>1. TypeOK /\ IndexOK /\ TaskOK BY DEF IInv
<1>2. CASE ~ processing
  <2>1. pc' = "done" BY <1>2 DEF Loop
  <2>2. Phase' = Phase BY <1>2, <2>1 DEF Phase
  <2> QED BY <1>2, <2>2, EndedUnseen
<1>3. CASE processing /\ ~ ev
  BY <1>1, <1>3, UnseenStep DEF Loop, TaskOK, Unseen, Phase, Pend, Kept, Air, Hold, Held
<1>4. CASE processing /\ Serve(Held)
  BY <1>4, ServeRefines DEF Service!Next
<1>5. CASE processing /\ Rest(Held)
  <2>1. \A q \in QueueIds : q \in Held \/ queues[q] = <<>> BY <1>1, <1>5 DEF Rest, Ready, IndexOK
  <2>2. queues' = queues /\ onAir' = {} /\ pc' = "wait" BY <1>5 DEF Rest
  <2>3. CASE Air # {}
    <3>1. Phase = "up" /\ Phase' = "up" /\ Air' = {} /\ Hold' = FALSE
      BY <1>5, <2>2 DEF Phase, Air, Hold
    <3>2. Service!Settle BY <2>1, <2>2, <2>3, <3>1, ServiceSettle
    <3> QED BY <3>2 DEF Service!Next
  <2>4. CASE Air = {}
    BY <1>1, <1>5, <2>2, <2>4, UnseenStep DEF TaskOK, Unseen, Phase, Pend, Kept, Air, Hold, Held
  <2> QED BY <2>3, <2>4
<1> QED BY <1>2, <1>3, <1>4, <1>5 DEF Loop, Pass

-----------------------------------------------------------------------------
(* The steps of the adapter. *)

\* Outside of the advertising of a piece, nothing is on the air or to be held back.
LEMMA NoPiece ==
  ASSUME IInv, pc # "adv"
  PROVE  Air = {} /\ Hold = FALSE /\ Held = Kept
BY DEF IInv, TaskOK, Air, Hold, Held

\* async_init opens the service.
LEMMA InitOpens ==
  ASSUME IInv, AsyncInit
  PROVE  Service!Open
<1>1. /\ pc = "none" /\ processing' /\ pc' = "start" /\ ~ processing
      /\ UNCHANGED <<queues, locked, onAir>>
  BY DEF AsyncInit, IInv, TaskOK
<1>2. onAir = {} BY <1>1 DEF IInv, TaskOK
<1>3. queues = [q \in QueueIds |-> <<>>] /\ locked = {}
  <2>1. order = <<>> /\ Created = {} BY <1>1 DEF IInv, IndexOK, Created
  <2>2. queues \in [QueueIds -> Seq(Item(Keys))] BY DEF IInv, TypeOK
  <2> QED BY <2>1, <2>2 DEF IInv, IndexOK
<1>4. Pend' = Pend /\ Kept' = Kept BY <1>1, <1>3 DEF Pend, Kept
<1> QED BY <1>1, <1>2, <1>4 DEF Service!Open, Pend, Kept

\* enqueue submits a command, to an adapter that runs.
LEMMA EnqueueSubmits ==
  ASSUME NEW q \in QueueIds, NEW cmd \in Commands, Enqueue(q, cmd), processing
  PROVE  Service!Submit(q, cmd)
<1>1. Service!NewItem(cmd, Bunch) = NewItem(cmd, Bunch)
  BY Zenon DEF NewItem, Service!NewItem, Advs, Service!Advs, Repeats, Service!Repeats,
               Repeat, Service!Repeat, MaxRepeat, Service!MaxRepeat
<1>2. \A queue, item : Service!Enqueued(queue, item, NoKey) = Enqueued(queue, item, NoKey)
  BY Zenon DEF Enqueued, Service!Enqueued, Without, Service!Without
<1> QED BY <1>1, <1>2 DEF Enqueue, Service!Submit

\* An ended adapter keeps what it is given to itself.
LEMMA EnqueueEnded ==
  ASSUME NEW q \in QueueIds, NEW cmd \in Commands, Enqueue(q, cmd), ~ processing
  PROVE  UNCHANGED Service!vars
<1>1. processing' = processing /\ pc' = pc BY DEF Enqueue
<1>2. Phase' = Phase BY <1>1 DEF Phase
<1> QED BY <1>1, <1>2, EndedUnseen

\* The end of a piece, where its queue is held back for the delay of its item.
LEMMA DoneRefines ==
  ASSUME IInv, AdvertiseDone
  PROVE  Service!Next \/ UNCHANGED Service!vars
<1>1. /\ pc = "adv"
      /\ lockDelay # 0 => order # <<>>
      /\ locked' = LockedAfter /\ Loop(LockedAfter, TRUE)
      /\ processing' = processing /\ order' = order
  BY DEF AdvertiseDone, AdvertiseDoneWith
<1>2. CASE processing
  <2>1. curInd >= 0 /\ onAir = {order[curInd + 1]} BY <1>1, <1>2 DEF IInv, TaskOK
  <2>2. curInd \in Int BY DEF IInv, TypeOK
  <2>3. Current = order[curInd + 1] BY <2>1, <2>2 DEF Current
  <2>4. LockedAfter = Held BY <1>1, <1>2, <2>1, <2>3 DEF LockedAfter, Held, Hold, Kept, Air
  <2> QED BY <1>1, <1>2, <2>4, LoopRefines
<1>3. CASE ~ processing
  <2>1. pc' = "done" BY <1>1, <1>3 DEF Loop
  <2>2. Phase' = Phase BY <1>1, <1>3, <2>1 DEF Phase
  <2> QED BY <1>1, <1>3, <2>2, EndedUnseen
<1> QED BY <1>2, <1>3

\* The failure of a piece, or of the locking of its queue.
LEMMA FailRefines ==
  ASSUME IInv, AdvertiseFail
  PROVE  Service!Next \/ UNCHANGED Service!vars
<1>1. /\ pc = "adv" /\ pc' = "error" /\ onAir' = {}
      /\ UNCHANGED <<processing, queues, locked>>
  BY DEF AdvertiseFail
<1>2. CASE processing
  <2>1. onAir # {} BY <1>1, <1>2 DEF IInv, TaskOK
  <2>2. Service!Fault BY <1>1, <1>2, <2>1 DEF Service!Fault
  <2> QED BY <2>2 DEF Service!Next
<1>3. CASE ~ processing
  <2>1. Phase' = Phase BY <1>1, <1>3 DEF Phase
  <2> QED BY <1>1, <1>3, <2>1, EndedUnseen
<1> QED BY <1>2, <1>3

\* The task starts, or goes on after a failure.
LEMMA ResumeRefines ==
  ASSUME IInv, DequeueStart \/ ErrorHandled
  PROVE  Service!Next \/ UNCHANGED Service!vars
<1>1. /\ pc \in {"start", "error"} /\ Loop(locked, event)
      /\ UNCHANGED <<processing, order, locked>>
  BY DEF DequeueStart, ErrorHandled
<1>2. event \in BOOLEAN BY DEF IInv, TypeOK
<1>3. CASE processing
  <2>1. Held = locked BY <1>1, <1>3, NoPiece DEF Kept
  <2> QED BY <1>1, <1>2, <1>3, <2>1, LoopRefines
<1>4. CASE ~ processing
  <2>1. pc' = "done" BY <1>1, <1>4 DEF Loop
  <2>2. Phase' = Phase BY <1>1, <1>4, <2>1 DEF Phase
  <2> QED BY <1>1, <1>4, <2>2, EndedUnseen
<1> QED BY <1>3, <1>4

\* The task wakes up. What that of an adapter ended meanwhile does is not seen.
LEMMA WakeRefines ==
  ASSUME IInv, DequeueWake
  PROVE  Service!Next \/ UNCHANGED Service!vars
<1>1. /\ pc = "wait" /\ Pass(locked) /\ UNCHANGED <<processing, order, locked>>
  BY DEF DequeueWake
<1>2. CASE processing
  <2>1. Held = locked BY <1>1, <1>2, NoPiece DEF Kept
  <2>2. Loop(Held, TRUE) BY <1>1, <1>2, <2>1 DEF Loop
  <2> QED BY <1>1, <1>2, <2>1, <2>2, LoopRefines
<1>3. CASE ~ processing
  <2>1. pc' \in {"adv", "wait", "done"} BY <1>1 DEF Pass, Serve, Rest
  <2>2. Phase' = Phase BY <1>1, <1>3, <2>1 DEF Phase
  <2> QED BY <1>1, <1>3, <2>2, EndedUnseen
<1> QED BY <1>2, <1>3

\* async_final closes the service, unless it is closed already.
LEMMA FinalCloses ==
  ASSUME IInv, AsyncFinal
  PROVE  Service!Next \/ UNCHANGED Service!vars
<1>1. /\ ~ processing' /\ queues' = [q \in QueueIds |-> <<>>] /\ locked' = {}
      /\ pc' = IF pc = "none" THEN "done" ELSE pc
  BY DEF AsyncFinal, AsyncFinalWith
<1>2. Phase' = "closed" BY <1>1 DEF Phase
<1>3. /\ Air' = {} /\ Hold' = FALSE /\ Kept' = {} /\ Pend' = [q \in QueueIds |-> <<>>]
  BY <1>1 DEF Air, Hold, Kept, Pend
<1>4. CASE Phase # "closed"
  <2>1. Service!Close BY <1>2, <1>3, <1>4 DEF Service!Close, Phase, Pend, Kept, Air, Hold
  <2> QED BY <2>1 DEF Service!Next
<1>5. CASE Phase = "closed"
  <2>1. ~ processing BY <1>5 DEF Phase
  <2>2. processing' = processing BY <2>1 DEF AsyncFinal, AsyncFinalWith, IInv, TypeOK
  <2> QED BY <1>2, <1>5, <2>1, <2>2, EndedUnseen
<1> QED BY <1>4, <1>5

\* Each step of the adapter is a step of the service, or is not seen by it.
LEMMA StepRefines ==
  ASSUME IInv, [Next]_vars
  PROVE  [Service!Next]_(Service!vars)
<1>1. CASE AsyncInit BY <1>1, InitOpens DEF Service!Next
<1>2. ASSUME NEW q \in QueueIds, NEW cmd \in Commands, Enqueue(q, cmd)
      PROVE  Service!Next \/ UNCHANGED Service!vars
  BY <1>2, EnqueueSubmits, EnqueueEnded DEF Service!Next
<1>3. CASE DequeueStart \/ ErrorHandled BY <1>3, ResumeRefines
<1>4. CASE DequeueWake BY <1>4, WakeRefines
<1>5. CASE AdvertiseDone BY <1>5, DoneRefines
<1>6. CASE AdvertiseFail BY <1>6, FailRefines
<1>7. ASSUME NEW q \in QueueIds, UnlockQueue(q)
      PROVE  Service!Next \/ UNCHANGED Service!vars
  <2>1. CASE processing
    <3>1. Service!Release(q) BY <1>7, <2>1 DEF UnlockQueue, UnlockQueueWith, Service!Release
    <3> QED BY <3>1 DEF Service!Next
  <2>2. CASE ~ processing
    <3>1. processing' = processing /\ pc' = pc BY <1>7 DEF UnlockQueue, UnlockQueueWith
    <3>2. Phase' = Phase BY <3>1 DEF Phase
    <3> QED BY <2>2, <3>1, <3>2, EndedUnseen
  <2> QED BY <2>1, <2>2
<1>8. CASE AsyncFinal BY <1>8, FinalCloses
<1>9. CASE UNCHANGED vars
  BY <1>9, UnseenStep DEF vars, Unseen, Phase, Pend, Kept, Air, Hold
<1> QED BY <1>1, <1>2, <1>3, <1>4, <1>5, <1>6, <1>7, <1>8, <1>9 DEF Next

\* The adapter, new, is the service, new.
LEMMA InitRefines == Init => Service!Init
BY DEF Init, Service!Init

\* The adapter implements the service: the order of each queue, one piece at a time,
\* the delay of an item held against its own queue only, no idling between two pieces
\* (_dequeue, _lock_queue_for, _unlock_queue, enqueue, async_init, async_final).
THEOREM AdapterImplementsService == SafeSpec => Implements
<1>1. SafeSpec => []IInv BY InvariantHolds
<1>2. IInv /\ [Next]_vars => [Service!Next]_(Service!vars) BY StepRefines
<1> QED BY <1>1, <1>2, InitRefines, PTL DEF SafeSpec, Implements, Service!Spec
=============================================================================

---------------------------- MODULE ValuesProofs ----------------------------
(***************************************************************************)
(* The computations of Values, for all inputs that the assumptions on its  *)
(* constants allow. Each task has an inductive invariant of its own:       *)
(* SplitInv, CountInv, PressInv, LevelInv, FrameInv.                       *)
(***************************************************************************)
EXTENDS Values, WellFoundedInduction, SequenceTheorems, TLAPS

-----------------------------------------------------------------------------
(***************************************************************************)
(* Arithmetic.                                                             *)
(***************************************************************************)

\* A factor that is not 0 can be taken away from both sides.
LEMMA Cancel ==
  ASSUME NEW a \in Nat \ {0}, NEW x \in Int, NEW y \in Int, a * x <= a * y
  PROVE  x <= y
<1> SUFFICES ASSUME y + 1 <= x PROVE FALSE OBVIOUS
<1>1. a * (y + 1) <= a * x BY y + 1 \in Int
<1>2. a * (y + 1) = a * y + a OBVIOUS
<1>3. a * x \in Int /\ a * y \in Int OBVIOUS
<1> QED BY <1>1, <1>2, <1>3

\* A factor of Nat can be put on both sides.
LEMMA Scale ==
  ASSUME NEW a \in Nat, NEW x \in Int, NEW y \in Int, x <= y
  PROVE  a * x <= a * y
OBVIOUS

\* The quotient and the remainder.
LEMMA Division ==
  ASSUME NEW a \in Nat, NEW b \in Nat \ {0}
  PROVE  /\ a \div b \in Nat
         /\ a % b \in 0 .. (b - 1)
         /\ a = b * (a \div b) + (a % b)
OBVIOUS

\* What a float truncates is the quotient or less, by less than two divisors.
LEMMA TruncatedBounds ==
  ASSUME NEW num \in Nat, NEW den \in Nat \ {0}, NEW v \in Truncated(num, den)
  PROVE  v \in Nat /\ den * v <= num /\ num <= den * v + den
<1> DEFINE q == num \div den
           r == num % den
<1>1. q \in Nat /\ r \in 0 .. (den - 1) /\ num = den * q + r BY Division
<1>2. v = q \/ (v = q - 1 /\ r = 0 /\ num > 0) BY DEF Truncated
<1> HIDE DEF q, r
<1>3. den * q \in Nat BY <1>1
<1>4. CASE v = q BY <1>1, <1>3, <1>4
<1>5. CASE v = q - 1 /\ r = 0 /\ num > 0
  <2>1. q # 0 BY <1>1, <1>5
  <2>2. den * (q - 1) = den * q - den BY <1>1
  <2> QED BY <1>1, <1>3, <1>5, <2>1, <2>2
<1> QED BY <1>2, <1>4, <1>5

\* Induction, over the set of the numbers a fact holds for.
LEMMA Induction ==
  ASSUME NEW S \in SUBSET Nat, 0 \in S, \A n \in S : n + 1 \in S
  PROVE  S = Nat
<1> DEFINE R == {ss \in Nat \X Nat : ss[1] < ss[2]}
           T == Nat \ S
<1>1. IsWellFoundedOn(R, Nat) BY NatLessThanWellFounded DEF OpToRel
<1> SUFFICES ASSUME T # {} PROVE FALSE OBVIOUS
<1>2. PICK x \in T : \A y \in T : <<y, x>> \notin R
  <2> HIDE DEF R, T
  <2>1. T \subseteq Nat BY DEF T
  <2> QED BY <1>1, <2>1, WFMin
<1>3. x \in Nat /\ x # 0 /\ x \notin S OBVIOUS
<1>4. x - 1 \in Nat /\ <<x - 1, x>> \in R BY <1>3
<1>5. x - 1 \in S BY <1>2, <1>4
<1>6. (x - 1) + 1 \in S BY <1>5
<1> QED BY <1>3, <1>6

-----------------------------------------------------------------------------
(***************************************************************************)
(* split: the sum of the pieces of a command.                              *)
(***************************************************************************)

\* f gives the sums of the first pieces, up to the nth.
Summing(f, pieces, n) ==
  f = [k \in 0 .. n |-> IF k = 0 THEN 0 ELSE f[k - 1] + pieces[k]]

Sums(pieces) == CHOOSE f : Summing(f, pieces, Len(pieces))

LEMMA TotalIsLast ==
  ASSUME NEW pieces
  PROVE  Total(pieces) = Sums(pieces)[Len(pieces)]
BY DEF Total, Sums, Summing

LEMMA SumsExist ==
  ASSUME NEW pieces, Len(pieces) \in Nat
  PROVE  Summing(Sums(pieces), pieces, Len(pieces))
<1> DEFINE S == {n \in Nat : \E f : Summing(f, pieces, n)}
<1>1. 0 \in S
  <2>1. Summing([k \in 0 .. 0 |-> 0], pieces, 0) BY DEF Summing
  <2> QED BY <2>1
<1>2. ASSUME NEW n \in S PROVE n + 1 \in S
  <2>1. PICK f : Summing(f, pieces, n) BY <1>2
  <2> DEFINE g == [k \in 0 .. n + 1 |-> IF k <= n THEN f[k] ELSE f[n] + pieces[n + 1]]
  <2>2. Summing(g, pieces, n + 1) BY <2>1 DEF Summing
  <2>3. n + 1 \in Nat OBVIOUS
  <2> HIDE DEF g
  <2> QED BY <2>2, <2>3
<1>3. S = Nat
  <2>1. S \subseteq Nat OBVIOUS
  <2> HIDE DEF S
  <2> QED BY <1>1, <1>2, <2>1, Induction
<1>4. \E f : Summing(f, pieces, Len(pieces)) BY <1>3
<1> QED BY <1>4 DEF Sums

\* What grows by each piece is their sum.
LEMMA TotalIs ==
  ASSUME NEW pieces \in Seq(Nat), NEW g, g[0] = 0,
         \A n \in 1 .. Len(pieces) : g[n] = g[n - 1] + pieces[n]
  PROVE  Total(pieces) = g[Len(pieces)]
<1> DEFINE f == Sums(pieces)
           S == {n \in Nat : n <= Len(pieces) => f[n] = g[n]}
<1>1. Len(pieces) \in Nat OBVIOUS
<1>2. f[0] = 0 /\ \A n \in 1 .. Len(pieces) : f[n] = f[n - 1] + pieces[n]
  BY <1>1, SumsExist DEF Summing
<1> HIDE DEF f
<1>3. 0 \in S BY <1>2
<1>4. ASSUME NEW n \in S PROVE n + 1 \in S
  <2> SUFFICES ASSUME n + 1 <= Len(pieces) PROVE f[n + 1] = g[n + 1] OBVIOUS
  <2>1. n \in Nat /\ f[n] = g[n] BY <1>4
  <2>2. n + 1 \in 1 .. Len(pieces) /\ (n + 1) - 1 = n BY <1>1, <2>1
  <2> QED BY <1>2, <2>1, <2>2
<1>5. S = Nat
  <2>1. S \subseteq Nat OBVIOUS
  <2> HIDE DEF S
  <2> QED BY <1>3, <1>4, <2>1, Induction
<1>6. f[Len(pieces)] = g[Len(pieces)] BY <1>1, <1>5
<1> QED BY <1>6, TotalIsLast DEF f

\* A piece that is taken goes from one sum to the other.
LEMMA TotalOfEmpty == Total(<<>>) = 0
<1>1. Len(<<>>) = 0 /\ <<>> \in Seq(Nat) OBVIOUS
<1>2. [k \in 0 .. 0 |-> 0][0] = 0 OBVIOUS
<1>3. \A n \in 1 .. Len(<<>>) : FALSE BY <1>1
<1> QED BY <1>1, <1>2, <1>3, TotalIs

LEMMA SumsOf ==
  ASSUME NEW pieces \in Seq(Nat)
  PROVE  /\ Sums(pieces)[0] = 0
         /\ \A n \in 1 .. Len(pieces) : Sums(pieces)[n] = Sums(pieces)[n - 1] + pieces[n]
         /\ \A n \in 0 .. Len(pieces) : Sums(pieces)[n] \in Nat
<1> DEFINE f == Sums(pieces)
           S == {n \in Nat : n <= Len(pieces) => f[n] \in Nat}
<1>1. Len(pieces) \in Nat OBVIOUS
<1>2. f[0] = 0 /\ \A n \in 1 .. Len(pieces) : f[n] = f[n - 1] + pieces[n]
  BY <1>1, SumsExist DEF Summing
<1> HIDE DEF f
<1>3. 0 \in S BY <1>2
<1>4. ASSUME NEW n \in S PROVE n + 1 \in S
  <2> SUFFICES ASSUME n + 1 <= Len(pieces) PROVE f[n + 1] \in Nat OBVIOUS
  <2>1. n \in Nat /\ f[n] \in Nat BY <1>4
  <2>2. n + 1 \in 1 .. Len(pieces) /\ (n + 1) - 1 = n BY <1>1, <2>1
  <2>3. pieces[n + 1] \in Nat BY <2>2
  <2> QED BY <1>2, <2>1, <2>2, <2>3
<1>5. S = Nat
  <2>1. S \subseteq Nat OBVIOUS
  <2> HIDE DEF S
  <2> QED BY <1>3, <1>4, <2>1, Induction
<1>6. \A n \in 0 .. Len(pieces) : f[n] \in Nat BY <1>1, <1>5
<1> QED BY <1>2, <1>6 DEF f

LEMMA TotalType ==
  ASSUME NEW pieces \in Seq(Nat)
  PROVE  Total(pieces) \in Nat
<1>1. Len(pieces) \in 0 .. Len(pieces) OBVIOUS
<1> QED BY <1>1, SumsOf, TotalIsLast

LEMMA TotalAppend ==
  ASSUME NEW pieces \in Seq(Nat), NEW p \in Nat
  PROVE  Total(Append(pieces, p)) = Total(pieces) + p
<1> DEFINE f == Sums(pieces)
           l == Len(pieces)
           g == [n \in 0 .. l + 1 |-> IF n <= l THEN f[n] ELSE f[l] + p]
           s == Append(pieces, p)
<1>1. l \in Nat /\ s \in Seq(Nat) /\ Len(s) = l + 1
      /\ s[l + 1] = p /\ \A n \in 1 .. l : s[n] = pieces[n]
  OBVIOUS
<1>2. f[0] = 0 /\ \A n \in 1 .. l : f[n] = f[n - 1] + pieces[n] BY SumsOf
<1> HIDE DEF s, f
<1>3. g[0] = 0 /\ \A n \in 1 .. Len(s) : g[n] = g[n - 1] + s[n] BY <1>1, <1>2
<1>4. g[l + 1] = f[l] + p BY <1>1
<1> HIDE DEF g
<1>5. Total(s) = g[Len(s)] BY <1>1, <1>3, TotalIs
<1> QED BY <1>1, <1>4, <1>5, TotalIsLast DEF s, f

LEMMA TotalTail ==
  ASSUME NEW pieces \in Seq(Nat), pieces # <<>>
  PROVE  Total(pieces) = Head(pieces) + Total(Tail(pieces))
<1> DEFINE s == Tail(pieces)
           l == Len(s)
           f == Sums(s)
           h == Head(pieces)
           g == [n \in 0 .. l + 1 |-> IF n = 0 THEN 0 ELSE h + f[n - 1]]
<1>1. /\ s \in Seq(Nat) /\ l \in Nat /\ Len(pieces) = l + 1 /\ h \in Nat
      /\ pieces[1] = h /\ \A n \in 2 .. l + 1 : pieces[n] = s[n - 1]
  OBVIOUS
<1>2. /\ f[0] = 0 /\ \A n \in 1 .. l : f[n] = f[n - 1] + s[n]
      /\ \A n \in 0 .. l : f[n] \in Nat
  BY <1>1, SumsOf
<1>3. \A n \in 1 .. l : s[n] \in Nat BY <1>1
<1> HIDE DEF s, f, l, h
<1>4. g[0] = 0 /\ \A n \in 1 .. Len(pieces) : g[n] = g[n - 1] + pieces[n]
  <2>1. g[0] = 0 BY <1>1
  <2>2. g[1] = g[0] + pieces[1] BY <1>1, <1>2
  <2>3. ASSUME NEW n \in 2 .. l + 1 PROVE g[n] = g[n - 1] + pieces[n]
    <3>1. n - 1 \in 1 .. l /\ (n - 1) - 1 \in 0 .. l /\ n \in 1 .. l + 1 /\ n # 0 /\ n - 1 # 0
      BY <1>1
    <3>2. g[n] = h + f[n - 1] /\ g[n - 1] = h + f[(n - 1) - 1] BY <1>1, <3>1
    <3>3. f[n - 1] = f[(n - 1) - 1] + s[n - 1] BY <1>2, <3>1
    <3>4. f[(n - 1) - 1] \in Nat /\ s[n - 1] \in Nat BY <1>2, <1>3, <3>1
    <3>5. pieces[n] = s[n - 1] BY <1>1
    <3> HIDE DEF g
    <3> QED BY <1>1, <3>2, <3>3, <3>4, <3>5
  <2> HIDE DEF g
  <2>4. ASSUME NEW n \in 1 .. Len(pieces) PROVE g[n] = g[n - 1] + pieces[n]
    <3>1. n = 1 \/ n \in 2 .. l + 1 BY <1>1
    <3>2. CASE n = 1 BY <2>2, <3>2
    <3> QED BY <2>3, <3>1, <3>2
  <2> QED BY <2>1, <2>4
<1>5. g[l + 1] = h + f[l] BY <1>1
<1> HIDE DEF g
<1>6. Total(pieces) = g[Len(pieces)] BY <1>4, TotalIs
<1> QED BY <1>1, <1>5, <1>6, TotalIsLast DEF s, f, l, h

-----------------------------------------------------------------------------
(***************************************************************************)
(* split: the pieces of a new item.                                        *)
(***************************************************************************)

LEMMA MaxRepeatBound ==
  ASSUME NEW interval \in Nat \ {0}, NEW bunch \in Nat \ {0}
  PROVE  /\ MaxRepeat(interval, bunch) \in Nat \ {0}
         /\ \/ MaxRepeat(interval, bunch) = 1
            \/ MaxRepeat(interval, bunch) * interval <= bunch
<1> DEFINE d == bunch \div interval
<1>1. d \in Nat /\ bunch % interval \in Nat /\ bunch = interval * d + (bunch % interval)
  BY Division
<1>2. interval * d \in Int BY <1>1
<1>3. interval * d <= bunch BY <1>1, <1>2
<1>4. d * interval = interval * d BY <1>1
<1> QED BY <1>1, <1>3, <1>4 DEF MaxRepeat

\* The repetitions are cut without losing one.
LEMMA RepeatsAddUp ==
  ASSUME NEW repeat \in Nat \ {0}, NEW max \in Nat \ {0}
  PROVE  /\ Repeats(repeat, max) \in Seq(Nat \ {0})
         /\ Len(Repeats(repeat, max)) \in Nat \ {0}
         /\ \A i \in DOMAIN Repeats(repeat, max) : Repeats(repeat, max)[i] <= max
         /\ Total(Repeats(repeat, max)) = repeat
<1> DEFINE d == repeat \div max
           r == repeat % max
           n == d + (IF r > 0 THEN 1 ELSE 0)
           g == [k \in 0 .. n |-> IF k <= d THEN k * max ELSE repeat]
           s == Repeats(repeat, max)
<1>1. d \in Nat /\ r \in 0 .. (max - 1) /\ repeat = max * d + r BY Division
<1>2. n \in Nat /\ (r > 0 => n = d + 1) /\ (r = 0 => n = d) BY <1>1
<1>3. s = [i \in 1 .. n |-> IF i <= d THEN max ELSE r] BY DEF Repeats
<1> HIDE DEF n, d, r, s
<1>4. n # 0
  <2> SUFFICES ASSUME n = 0 PROVE FALSE OBVIOUS
  <2>1. d = 0 /\ r = 0 BY <1>1, <1>2
  <2>2. max * d = 0 BY <2>1
  <2> QED BY <1>1, <2>1, <2>2
<1>5. \A i \in 1 .. n : s[i] \in Nat \ {0} /\ s[i] <= max BY <1>1, <1>2, <1>3
<1>6. s \in Seq(Nat \ {0}) /\ s \in Seq(Nat) /\ Len(s) = n /\ DOMAIN s = 1 .. n BY <1>2, <1>3, <1>5
<1>7. g[0] = 0 BY <1>1, <1>2
<1>8. ASSUME NEW k \in 1 .. n PROVE g[k] = g[k - 1] + s[k]
  <2>1. k \in 0 .. n /\ k - 1 \in 0 .. n BY <1>2
  <2>2. CASE k <= d
    <3>1. g[k] = k * max /\ g[k - 1] = (k - 1) * max /\ s[k] = max
      BY <1>1, <1>3, <2>1, <2>2
    <3>2. k * max = (k - 1) * max + max BY <2>1
    <3> QED BY <3>1, <3>2
  <2>3. CASE ~(k <= d)
    <3>1. k = d + 1 /\ r > 0 /\ k - 1 = d BY <1>1, <1>2, <2>3
    <3>2. g[k] = repeat /\ g[k - 1] = d * max /\ s[k] = r
      BY <1>1, <1>3, <2>1, <3>1
    <3>3. d * max = max * d BY <1>1
    <3> QED BY <1>1, <3>2, <3>3
  <2> QED BY <2>2, <2>3
<1>9. g[n] = repeat
  <2>1. CASE r = 0
    <3>1. g[n] = d * max /\ d * max = max * d BY <1>1, <1>2, <2>1
    <3> QED BY <1>1, <2>1, <3>1
  <2>2. CASE r > 0 BY <1>1, <1>2, <2>2
  <2> QED BY <1>1, <2>1, <2>2
<1> HIDE DEF g
<1>10. Total(s) = g[Len(s)]
  <2>1. \A k \in 1 .. Len(s) : g[k] = g[k - 1] + s[k] BY <1>6, <1>8
  <2> QED BY <1>6, <1>7, <2>1, TotalIs
<1> QED BY <1>2, <1>4, <1>5, <1>6, <1>9, <1>10 DEF s

\* Below the divisor, the remainder is the number.
LEMMA SmallRemainder ==
  ASSUME NEW n \in Nat \ {0}, NEW a \in 0 .. (n - 1)
  PROVE  a % n = a
OBVIOUS

\* What is cut is what was asked: the repetitions of a single advertisement, or one of each.
LEMMA AdvsAddUp ==
  ASSUME NEW cmd, cmd.repeat \in Nat \ {0}, cmd.interval \in Nat \ {0},
         cmd.data \in Nat \ {0}, NEW bunch \in Nat \ {0}
  PROVE  /\ Advs(cmd, bunch) \in Seq(Nat \ {0})
         /\ Total(Advs(cmd, bunch)) = (IF cmd.data = 1 THEN cmd.repeat ELSE cmd.data)
         /\ \A i \in DOMAIN Advs(cmd, bunch) :
              Advs(cmd, bunch)[i] <= MaxRepeat(cmd.interval, bunch)
<1> DEFINE max  == MaxRepeat(cmd.interval, bunch)
           reps == Repeats(Repeat(cmd), max)
           l    == Len(reps)
           advs == [i \in 1 .. (cmd.data * l) |-> reps[((i - 1) % l) + 1]]
<1>1. max \in Nat \ {0} BY MaxRepeatBound
<1>2. Repeat(cmd) \in Nat \ {0} BY DEF Repeat
<1>3. Advs(cmd, bunch) = advs BY DEF Advs
<1> HIDE DEF max
<1>4. /\ reps \in Seq(Nat \ {0}) /\ l \in Nat \ {0}
      /\ \A i \in DOMAIN reps : reps[i] <= max
      /\ Total(reps) = Repeat(cmd)
  BY <1>1, <1>2, RepeatsAddUp
<1>5. CASE cmd.data = 1
  <2> HIDE DEF reps, l
  <2>1. cmd.data * l = l BY <1>4, <1>5
  <2>2. ASSUME NEW i \in 1 .. l PROVE (i - 1) % l = i - 1
    <3>1. i - 1 \in 0 .. (l - 1) BY <1>4
    <3> QED BY <1>4, <3>1, SmallRemainder
  <2>3. \A i \in 1 .. l : ((i - 1) % l) + 1 = i
    BY <1>4, <2>2
  <2>4. reps = [i \in 1 .. l |-> reps[i]] BY <1>4 DEF l
  <2>5. advs = [i \in 1 .. l |-> reps[i]] BY <2>1, <2>3
  <2>6. advs = reps BY <2>4, <2>5
  <2>7. Repeat(cmd) = cmd.repeat BY <1>5 DEF Repeat
  <2> HIDE DEF advs
  <2> QED BY <1>3, <1>4, <1>5, <2>6, <2>7 DEF max
<1>6. CASE cmd.data # 1
  <2>1. Repeat(cmd) = 1 BY <1>6 DEF Repeat
  <2>2. l = 1 /\ reps[1] = 1
    <3> DEFINE d == 1 \div max
               r == 1 % max
    <3>1. d \in Nat /\ r \in 0 .. (max - 1) /\ 1 = max * d + r BY <1>1, Division
    <3>2. CASE max = 1
      <4>1. d = 1 /\ r = 0 BY <3>1, <3>2
      <4> HIDE DEF d, r
      <4>2. reps = [i \in 1 .. (d + (IF r > 0 THEN 1 ELSE 0)) |-> IF i <= d THEN max ELSE r]
        BY <2>1 DEF Repeats, d, r
      <4>3. reps = [i \in 1 .. 1 |-> IF i <= 1 THEN 1 ELSE 0] BY <3>2, <4>1, <4>2
      <4> HIDE DEF reps
      <4> QED BY <4>3
    <3>3. CASE max > 1
      <4> HIDE DEF d, r
      <4>1. d = 0
        <5> SUFFICES ASSUME d >= 1 PROVE FALSE BY <3>1
        <5>1. max * d >= max BY <1>1, <3>1
        <5>2. max * d \in Nat BY <1>1, <3>1
        <5> QED BY <1>1, <3>1, <3>3, <5>1, <5>2
      <4>2. max * d = 0 BY <1>1, <4>1
      <4>3. r = 1 BY <3>1, <4>2
      <4>4. reps = [i \in 1 .. (d + (IF r > 0 THEN 1 ELSE 0)) |-> IF i <= d THEN max ELSE r]
        BY <2>1 DEF Repeats, d, r
      <4>5. reps = [i \in 1 .. 1 |-> IF i <= 0 THEN max ELSE 1] BY <4>1, <4>3, <4>4
      <4> HIDE DEF reps
      <4> QED BY <4>5
    <3> QED BY <1>1, <3>2, <3>3
  <2> HIDE DEF reps, l
  <2>3. cmd.data * l = cmd.data BY <2>2
  <2>4. \A i \in 1 .. cmd.data : i - 1 \in Nat /\ (i - 1) % 1 = 0 BY Division
  <2>5. \A i \in 1 .. cmd.data : reps[((i - 1) % l) + 1] = 1
    <3> SUFFICES ASSUME NEW i \in 1 .. cmd.data PROVE reps[((i - 1) % l) + 1] = 1 OBVIOUS
    <3>1. (i - 1) % l = 0 BY <2>2, <2>4
    <3> QED BY <2>2, <3>1
  <2>6. advs = [i \in 1 .. cmd.data |-> 1] BY <2>3, <2>5
  <2> HIDE DEF advs
  <2>7. advs \in Seq(Nat \ {0}) /\ advs \in Seq(Nat) /\ Len(advs) = cmd.data /\ DOMAIN advs = 1 .. cmd.data
    BY <2>6
  <2> DEFINE g == [k \in 0 .. cmd.data |-> k]
  <2>8. g[0] = 0 /\ g[cmd.data] = cmd.data /\ \A k \in 1 .. Len(advs) : g[k] = g[k - 1] + advs[k]
    BY <2>6, <2>7
  <2> HIDE DEF g
  <2>9. Total(advs) = cmd.data BY <2>7, <2>8, TotalIs
  <2>10. \A i \in DOMAIN advs : advs[i] <= max BY <1>1, <2>6
  <2> QED BY <1>3, <1>6, <2>7, <2>9, <2>10 DEF max
<1> QED BY <1>5, <1>6

-----------------------------------------------------------------------------
(***************************************************************************)
(* split: the invariant.                                                   *)
(***************************************************************************)

\* What a piece of the command may be.
Fits(piece, cmd, bunch) ==
  /\ piece = 1 \/ piece * cmd.interval <= bunch
  /\ 9 * piece * cmd.interval < 5 * MaxAdvWait

LEMMA PiecesFit ==
  ASSUME NEW interval \in Nat \ {0}, NEW bunch \in Nat \ {0},
         9 * interval < 5 * MaxAdvWait, 9 * bunch < 5 * MaxAdvWait,
         NEW piece \in Nat \ {0}, piece <= MaxRepeat(interval, bunch)
  PROVE  /\ piece = 1 \/ piece * interval <= bunch
         /\ 9 * piece * interval < 5 * MaxAdvWait
<1> DEFINE max == MaxRepeat(interval, bunch)
<1>1. max \in Nat \ {0} /\ (max = 1 \/ max * interval <= bunch) BY MaxRepeatBound
<1> HIDE DEF max
<1>2. piece <= max BY DEF max
<1>3. CASE max = 1
  <2>1. piece = 1 BY <1>2, <1>3
  <2> QED BY <2>1 DEF MaxAdvWait
<1>4. CASE max * interval <= bunch
  <2> DEFINE p == piece * interval
             q == max * interval
  <2>1. p \in Nat /\ q \in Nat /\ p <= q BY <1>1, <1>2
  <2>2. 9 * piece * interval = 9 * p OBVIOUS
  <2>3. q <= bunch BY <1>4
  <2> HIDE DEF p, q
  <2>4. p <= bunch /\ 9 * p < 5 * MaxAdvWait BY <2>1, <2>3 DEF MaxAdvWait
  <2> QED BY <2>2, <2>4 DEF p
<1> QED BY <1>1, <1>3, <1>4

SplitInv ==
  task = "split" =>
    /\ input \in SplitInputs
    /\ out \in Seq(Nat) /\ work.advs \in Seq(Nat \ {0})
    /\ Total(out) + Total(work.advs)
         = (IF input.cmd.data = 1 THEN input.cmd.repeat ELSE input.cmd.data)
    /\ \A i \in DOMAIN work.advs : Fits(work.advs[i], input.cmd, input.bunch)

LEMMA InputTypes ==
  ASSUME NEW i \in SplitInputs
  PROVE  /\ i.cmd.repeat \in Nat \ {0} /\ i.cmd.data \in Nat \ {0}
         /\ i.cmd.interval \in Nat \ {0} /\ i.bunch \in Nat \ {0}
         /\ 9 * i.cmd.interval < 5 * MaxAdvWait /\ 9 * i.bunch < 5 * MaxAdvWait
<1>1. i.cmd.interval \in Intervals \cup Bunches /\ i.bunch \in Intervals \cup Bunches
  BY DEF SplitInputs
<1>2. i.cmd.repeat \in 1 .. MaxInputRepeat /\ i.cmd.data \in 1 .. MaxInputData
  BY DEF SplitInputs
<1> QED BY <1>1, <1>2, SplitAssumption

LEMMA SplitInvInit == Init => SplitInv
<1> SUFFICES ASSUME Init, task = "split" PROVE SplitInv BY DEF SplitInv
<1>1. InitSplit BY DEF Init, InitSplit, InitCount, InitPress, InitLevel, InitFrame
<1> DEFINE cmd == input.cmd
           advs == Advs(cmd, input.bunch)
<1>2. input \in SplitInputs /\ out = <<>> /\ work.advs = advs
  BY <1>1 DEF InitSplit, NewItem
<1>3. /\ cmd.repeat \in Nat \ {0} /\ cmd.data \in Nat \ {0}
      /\ cmd.interval \in Nat \ {0} /\ input.bunch \in Nat \ {0}
      /\ 9 * cmd.interval < 5 * MaxAdvWait /\ 9 * input.bunch < 5 * MaxAdvWait
  BY <1>2, InputTypes
<1>4. /\ advs \in Seq(Nat \ {0})
      /\ Total(advs) = (IF cmd.data = 1 THEN cmd.repeat ELSE cmd.data)
      /\ \A i \in DOMAIN advs : advs[i] <= MaxRepeat(cmd.interval, input.bunch)
  BY <1>3, AdvsAddUp
<1>5. Total(out) + Total(work.advs) = (IF cmd.data = 1 THEN cmd.repeat ELSE cmd.data)
  <2>1. Total(out) = 0 BY <1>2, TotalOfEmpty
  <2>2. Total(work.advs) \in Nat BY <1>2, <1>3, <1>4
  <2> QED BY <1>2, <1>4, <2>1, <2>2
<1>6. ASSUME NEW i \in DOMAIN work.advs PROVE Fits(work.advs[i], cmd, input.bunch)
  <2>1. work.advs[i] \in Nat \ {0} /\ work.advs[i] <= MaxRepeat(cmd.interval, input.bunch)
    BY <1>2, <1>4
  <2> QED BY <1>3, <2>1, PiecesFit DEF Fits
<1>7. out \in Seq(Nat) BY <1>2
<1> QED BY <1>2, <1>4, <1>5, <1>6, <1>7 DEF SplitInv

LEMMA SplitInvNext == SplitInv /\ [Next]_vars => SplitInv'
<1> SUFFICES ASSUME SplitInv, [Next]_vars, (task = "split")' PROVE SplitInv'
  BY DEF SplitInv
<1>1. CASE UNCHANGED vars BY <1>1 DEF SplitInv, vars, Fits
<1>2. CASE TakeNext
  <2> DEFINE advs == work.advs
             asked == IF input.cmd.data = 1 THEN input.cmd.repeat ELSE input.cmd.data
  <2>1. /\ input \in SplitInputs /\ out \in Seq(Nat) /\ advs \in Seq(Nat \ {0})
        /\ Total(out) + Total(advs) = asked
        /\ \A i \in DOMAIN advs : Fits(advs[i], input.cmd, input.bunch)
    BY <1>2 DEF SplitInv, TakeNext
  <2>2. advs # <<>> /\ work'.advs = Tail(advs) /\ out' = Append(out, Head(advs)) /\ input' = input
    BY <1>2 DEF TakeNext, HasNext, AfterNext
  <2> HIDE DEF advs
  <2>3. Head(advs) \in Nat /\ advs \in Seq(Nat) /\ Tail(advs) \in Seq(Nat \ {0})
        /\ Tail(advs) \in Seq(Nat)
    BY <2>1, <2>2
  <2>4. out' \in Seq(Nat) BY <2>1, <2>2, <2>3
  <2>5. Total(out') + Total(Tail(advs)) = asked
    <3>1. Total(out') = Total(out) + Head(advs) BY <2>1, <2>2, <2>3, TotalAppend
    <3>2. Total(advs) = Head(advs) + Total(Tail(advs)) BY <2>2, <2>3, TotalTail
    <3>3. Total(out) \in Nat /\ Total(Tail(advs)) \in Nat BY <2>1, <2>3, TotalType
    <3> DEFINE a == Total(out)
               b == Total(Tail(advs))
               c == Total(advs)
               d == Total(out')
    <3> HIDE DEF a, b, c, d, asked
    <3>4. a \in Nat /\ b \in Nat /\ d = a + Head(advs) /\ c = Head(advs) + b /\ a + c = asked
      BY <2>1, <3>1, <3>2, <3>3 DEF a, b, c, d
    <3>5. d + b = asked BY <2>3, <3>4
    <3> QED BY <3>5 DEF b, d
  <2>6. ASSUME NEW i \in DOMAIN Tail(advs) PROVE Fits(Tail(advs)[i], input.cmd, input.bunch)
    <3>1. i + 1 \in DOMAIN advs /\ Tail(advs)[i] = advs[i + 1] BY <2>1, <2>2
    <3> QED BY <2>1, <3>1
  <2>7. \A i \in DOMAIN work'.advs : Fits(work'.advs[i], input'.cmd, input'.bunch)
    BY <2>2, <2>6, Zenon
  <2>8. Total(out') + Total(work'.advs) = (IF input'.cmd.data = 1 THEN input'.cmd.repeat
                                           ELSE input'.cmd.data)
    BY <2>2, <2>5
  <2>9. input' \in SplitInputs /\ work'.advs \in Seq(Nat \ {0}) BY <2>1, <2>2, <2>3
  <2> QED BY <2>4, <2>7, <2>8, <2>9 DEF SplitInv, Fits
<1>3. CASE EncodeAdvs \/ Press \/ Hear \/ Hold \/ Release \/ Show \/ SendAgain \/ ReadBack
  BY <1>3 DEF EncodeAdvs, Press, Hear, Hold, Release, Show, SendAgain, ReadBack
<1> QED BY <1>1, <1>2, <1>3 DEF Next

\* The pieces taken and left are the repetitions asked for, and each fits (SplitSound).
THEOREM PiecesAreSound == Spec => []SplitSound
<1>1. SplitInv => SplitSound
  BY DEF SplitInv, SplitSound, Fits
<1> QED BY <1>1, SplitInvInit, SplitInvNext, PTL DEF Spec

-----------------------------------------------------------------------------
(***************************************************************************)
(* count: a turn of both counters.                                         *)
(***************************************************************************)

\* The commands after which the first count comes back, and its value after n of a turn.
Turn(k) == IF k.max = 254 THEN 127 ELSE 125
Tx(k, n) == (k.step * n) % k.max

\* The first count of the next command, and when it comes back.
LEMMA NextTx ==
  ASSUME NEW k \in Counting, NEW n \in 0 .. Turn(k) - 1
  PROVE  /\ k.pairs = Turn(k) * RestartMax
         /\ (Tx(k, n) + k.step) % k.max = IF n + 1 = Turn(k) THEN 0 ELSE Tx(k, n + 1)
         /\ Tx(k, n) = 0 <=> n = 0
<1>1. CASE k = [step |-> 1, max |-> 125, pairs |-> 125 * RestartMax]
  <2>1. k.step = 1 /\ k.max = 125 /\ k.pairs = 125 * RestartMax BY <1>1
  <2>2. Turn(k) = 125 /\ n \in 0 .. 124 BY <2>1 DEF Turn
  <2>3. /\ (((1 * n) % 125) + 1) % 125 = IF n = 124 THEN 0 ELSE (1 * (n + 1)) % 125
        /\ (1 * n) % 125 = 0 <=> n = 0
    BY <2>2
  <2> QED BY <2>1, <2>2, <2>3 DEF Tx
<1>2. CASE k = [step |-> 2, max |-> 125, pairs |-> 125 * RestartMax]
  <2>1. k.step = 2 /\ k.max = 125 /\ k.pairs = 125 * RestartMax BY <1>2
  <2>2. Turn(k) = 125 /\ n \in 0 .. 124 BY <2>1 DEF Turn
  <2>3. /\ (((2 * n) % 125) + 2) % 125 = IF n = 124 THEN 0 ELSE (2 * (n + 1)) % 125
        /\ (2 * n) % 125 = 0 <=> n = 0
    BY <2>2
  <2> QED BY <2>1, <2>2, <2>3 DEF Tx
<1>3. CASE k = [step |-> 2, max |-> 254, pairs |-> 127 * RestartMax]
  <2>1. k.step = 2 /\ k.max = 254 /\ k.pairs = 127 * RestartMax BY <1>3
  <2>2. Turn(k) = 127 /\ n \in 0 .. 126 BY <2>1 DEF Turn
  <2>3. /\ (((2 * n) % 254) + 2) % 254 = IF n = 126 THEN 0 ELSE (2 * (n + 1)) % 254
        /\ (2 * n) % 254 = 0 <=> n = 0
    BY <2>2
  <2> QED BY <2>1, <2>2, <2>3 DEF Tx
<1> QED BY <1>1, <1>2, <1>3 DEF Counting

\* The counts after q turns of the first one and r more commands.
CountsAre(q, r) ==
  /\ q \in 0 .. RestartMax /\ r \in 0 .. Turn(input) - 1 /\ (q = RestartMax => r = 0)
  /\ out = <<Turn(input) * q + r>>
  /\ work = [tx |-> Tx(input, r), restart |-> (1 + q) % RestartMax]

\* The inductive invariant of the counts: where they are in the turn of each.
CountInv == task = "count" => input \in Counting /\ \E q, r \in Nat : CountsAre(q, r)

LEMMA CountInit == Init => CountInv
<1> SUFFICES ASSUME InitCount PROVE CountInv
  BY DEF Init, InitSplit, InitPress, InitLevel, InitFrame, CountInv
<1>1. input \in Counting /\ work = FirstCount /\ out = <<0>> BY DEF InitCount
<1>2. Turn(input) \in {125, 127} BY DEF Turn
<1>3. Tx(input, 0) = 0 BY <1>1, <1>2, NextTx
<1>4. (1 + 0) % RestartMax = 1 BY DEF RestartMax
<1>5. CountsAre(0, 0) BY <1>1, <1>2, <1>3, <1>4 DEF CountsAre, FirstCount, RestartMax
<1> QED BY <1>1, <1>5 DEF CountInv

LEMMA CountStep == CountInv /\ [Next]_vars => CountInv'
<1> SUFFICES ASSUME CountInv, [Next]_vars, task = "count", task' = "count" PROVE CountInv'
  <2>1. [Next]_vars => task' = task
    BY DEF Next, vars, TakeNext, EncodeAdvs, Press, Hear, Hold, Release, Show, SendAgain,
           ReadBack
  <2> QED BY <2>1 DEF CountInv
<1>1. input \in Counting BY DEF CountInv
<1>2. PICK q, r \in Nat : CountsAre(q, r) BY DEF CountInv
<1> DEFINE t == Turn(input)
<1>3. t \in {125, 127} /\ RestartMax = 255 BY DEF Turn, RestartMax
<1>4. CASE EncodeAdvs
  <2>1. /\ out[1] < input.pairs /\ work' = NextCount(work, input.step, input.max)
        /\ out' = <<out[1] + 1>> /\ input' = input
    BY <1>4 DEF EncodeAdvs
  <2>2. /\ q \in 0 .. 255 /\ r \in 0 .. t - 1 /\ (q = 255 => r = 0) /\ out[1] = t * q + r
        /\ work.tx = Tx(input, r) /\ work.restart = (1 + q) % 255
    BY <1>2, <1>3 DEF CountsAre
  <2>3. /\ input.pairs = t * 255
        /\ (work.tx + input.step) % input.max = IF r + 1 = t THEN 0 ELSE Tx(input, r + 1)
        /\ r + 1 < t => Tx(input, r + 1) # 0
    <3>1. r + 1 < t => r + 1 \in 0 .. t - 1 BY <1>3, <2>2
    <3> QED BY <1>1, <1>3, <2>2, <3>1, NextTx
  <2> HIDE DEF t
  <2>4. q < 255
    <3>1. CASE t = 125 BY <2>1, <2>2, <2>3, <3>1
    <3>2. CASE t = 127 BY <2>1, <2>2, <2>3, <3>2
    <3> QED BY <1>3, <3>1, <3>2
  <2>5. CASE r + 1 = t
    <3>1. work' = [tx |-> 0, restart |-> (1 + (q + 1)) % 255]
      <4>1. work' = [tx |-> 0, restart |-> (((1 + q) % 255) + 1) % 255]
        BY <1>3, <2>1, <2>2, <2>3, <2>5 DEF NextCount
      <4>2. (((1 + q) % 255) + 1) % 255 = (1 + (q + 1)) % 255 BY <2>2
      <4> QED BY <4>1, <4>2
    <3>2. t * q + r + 1 = t * (q + 1) + 0
      <4>1. CASE t = 125 BY <2>2, <2>5, <4>1
      <4>2. CASE t = 127 BY <2>2, <2>5, <4>2
      <4> QED BY <1>3, <4>1, <4>2
    <3>3. Tx(input, 0) = 0 BY <1>1, <1>3, NextTx DEF t
    <3>4. q + 1 \in Nat /\ 0 \in Nat /\ CountsAre(q + 1, 0)'
      BY <1>3, <2>1, <2>2, <2>4, <3>1, <3>2, <3>3 DEF CountsAre, t
    <3> QED BY <1>1, <2>1, <3>4 DEF CountInv
  <2>6. CASE r + 1 < t
    <3>1. work' = [tx |-> Tx(input, r + 1), restart |-> (1 + q) % 255]
      BY <1>3, <2>1, <2>2, <2>3, <2>6 DEF NextCount
    <3>2. t * q + r + 1 = t * q + (r + 1) BY <1>3, <2>2
    <3>3. r + 1 \in Nat /\ CountsAre(q, r + 1)'
      BY <1>3, <2>1, <2>2, <2>4, <2>6, <3>1, <3>2 DEF CountsAre, t
    <3> QED BY <1>1, <2>1, <3>3 DEF CountInv
  <2> QED BY <1>3, <2>2, <2>5, <2>6
<1>5. CASE UNCHANGED vars BY <1>1, <1>2, <1>5 DEF vars, CountInv, CountsAre
<1> QED
  BY <1>4, <1>5 DEF Next, TakeNext, Press, Hear, Hold, Release, Show, SendAgain, ReadBack

\* Two commands have the same counts only when all the pairs of counts lie between them,
\* for each way in which the codecs count.
THEOREM CountsAreFresh == Spec => []CountsFresh
<1>1. CountInv => CountsFresh
  <2> SUFFICES ASSUME CountInv, task = "count" PROVE work = FirstCount <=> out[1] \in {0, input.pairs}
    BY DEF CountsFresh
  <2>1. input \in Counting BY DEF CountInv
  <2>2. PICK q, r \in Nat : CountsAre(q, r) BY DEF CountInv
  <2> DEFINE t == Turn(input)
  <2>3. t \in {125, 127} /\ RestartMax = 255 BY DEF Turn, RestartMax
  <2>4. /\ q \in 0 .. 255 /\ r \in 0 .. t - 1 /\ (q = 255 => r = 0) /\ out[1] = t * q + r
        /\ work = [tx |-> Tx(input, r), restart |-> (1 + q) % 255]
    BY <2>2, <2>3 DEF CountsAre
  <2>5. input.pairs = t * 255 /\ (Tx(input, r) = 0 <=> r = 0) BY <2>1, <2>3, <2>4, NextTx
  <2>6. work = FirstCount <=> r = 0 /\ (1 + q) % 255 = 1
    BY <2>4, <2>5 DEF FirstCount
  <2>7. (1 + q) % 255 = 1 <=> q \in {0, 255} BY <2>4
  <2> HIDE DEF t
  <2>8. out[1] \in {0, input.pairs} <=> r = 0 /\ q \in {0, 255}
    <3>1. CASE t = 125 BY <2>4, <2>5, <3>1
    <3>2. CASE t = 127 BY <2>4, <2>5, <3>2
    <3> QED BY <2>3, <3>1, <3>2
  <2> QED BY <2>6, <2>7, <2>8
<1> QED BY <1>1, CountInit, CountStep, PTL DEF Spec

-----------------------------------------------------------------------------
(***************************************************************************)
(* press: what is heard of a button held.                                  *)
(***************************************************************************)

\* A command heard, and the presses of a remote.
Heards == [button : Buttons \cup {"none"}, ramp : BOOLEAN, count : Nat]
Pressing == [prev : Heards, button : Buttons \cup {"none"}, at : Nat, last : Heards]

\* What is known of the press that goes on: nothing was heard of it, and the command
\* before is that of the last press, or what was heard last of it is the command before,
\* and what was applied adds up.
Quiet == out = <<0, -1, -1>> /\ work.prev = work.last
Held ==
  \E applied \in Int, first, now \in Nat :
    /\ out = <<applied, first, now>>
    /\ first <= now /\ now <= work.at
    /\ work.prev = Heard(work.button, work.button \in Ramps, now)

\* The inductive invariant of the presses.
PressInv ==
  task = "press" =>
    /\ work \in Pressing
    /\ work.button # "none" => (Quiet \/ Held) /\ RampInStep

LEMMA PressInit == Init => PressInv
<1> SUFFICES ASSUME InitPress PROVE PressInv
  BY DEF Init, InitSplit, InitCount, InitLevel, InitFrame, PressInv
<1> QED BY DEF InitPress, PressInv, Pressing, Heards, NoneHeard, Heard

\* What is heard of a press is kept, and adds up.
LEMMA HearStep ==
  ASSUME PressInv, task = "press", Hear
  PROVE  PressInv'
<1> DEFINE b == work.button
           ramp == b \in Ramps
           at == work.at
           cmd == Heard(b, ramp, at)
           prev == work.prev
           cons == Consolidated(cmd, prev)
           gain == IF cons = Discarded THEN 0 ELSE IF ramp THEN cons.count ELSE 1
<1>1. /\ work \in Pressing /\ b # "none" /\ (Quiet \/ Held) /\ RampInStep
  BY DEF PressInv, Hear
<1>2. /\ b \in Buttons /\ at \in Nat /\ prev \in Heards /\ work.last \in Heards
      /\ b # "discarded"
  BY <1>1, PressAssumption DEF Pressing
<1>3. /\ out[3] < at
      /\ out' = <<out[1] + gain, IF out[2] = -1 THEN at ELSE out[2], at>>
      /\ work' = [work EXCEPT !.prev = cmd] /\ task' = task
  BY DEF Hear, PrevCmd
<1>4. cmd \in Heards /\ cmd.button = b /\ cmd.count = at /\ (cmd.ramp <=> ramp) /\ cmd # Discarded
  <2>1. cmd = [button |-> b, ramp |-> ramp, count |-> at] BY DEF Heard
  <2>2. cmd.button = b /\ cmd.count = at BY <2>1
  <2>3. (cmd.ramp <=> ramp) /\ cmd.ramp \in BOOLEAN
    <3>1. CASE ramp
      <4>1. ramp = TRUE BY <3>1
      <4>2. cmd = [button |-> b, ramp |-> TRUE, count |-> at] BY <2>1, <4>1, Zenon
      <4>3. cmd.ramp = TRUE BY <4>2
      <4> QED BY <3>1, <4>3
    <3>2. CASE ~ ramp
      <4>1. ramp = FALSE BY <3>2
      <4>2. cmd = [button |-> b, ramp |-> FALSE, count |-> at] BY <2>1, <4>1, Zenon
      <4>3. cmd.ramp = FALSE BY <4>2
      <4> QED BY <3>2, <4>3
    <3> QED BY <3>1, <3>2
  <2>4. cmd # Discarded
    <3>1. Discarded.button = "discarded" BY DEF Discarded, Heard
    <3> QED BY <1>2, <2>2, <3>1
  <2>5. cmd \in Heards BY <1>2, <2>1, <2>2, <2>3 DEF Heards
  <2> QED BY <2>2, <2>3, <2>4, <2>5
<1>5. /\ work' \in Pressing /\ work'.button = b /\ work'.at = at /\ work'.last = work.last
      /\ work'.prev = cmd
  BY <1>1, <1>3, <1>4 DEF Pressing
<1>6. prev.button # b => gain = (IF ramp THEN at ELSE 1) BY <1>4 DEF Consolidated
<1>7. prev.button = b /\ at < prev.count => gain = (IF ramp THEN at ELSE 1)
  BY <1>2, <1>4 DEF Consolidated, Heards
<1>8. prev.button = b /\ ~ ramp /\ at <= prev.count => gain = 1
  BY <1>2, <1>4 DEF Consolidated, Heards
<1>9. prev.button = b /\ ~ ramp /\ prev.count < at => gain = 0
  BY <1>2, <1>4 DEF Consolidated, Heards
<1>10. prev.button = b /\ ramp /\ prev.count < at => gain = at - prev.count
  <2> SUFFICES ASSUME prev.button = b, ramp, prev.count < at PROVE gain = at - prev.count
    OBVIOUS
  <2>1. cons = [cmd EXCEPT !.count = at - prev.count]
    BY <1>2, <1>4 DEF Consolidated, Heards
  <2>2. cons.count = at - prev.count /\ cons.button = b
    BY <1>4, <2>1 DEF Heards
  <2>3. cons # Discarded BY <1>2, <2>2 DEF Discarded, Heard
  <2> QED BY <2>2, <2>3
<1>11. gain \in Int
  BY <1>2, <1>6, <1>7, <1>8, <1>9, <1>10, <1>4 DEF Heards, Consolidated
<1> HIDE DEF gain, cmd
<1>12. CASE Quiet
  <2>1. out = <<0, -1, -1>> /\ prev = work.last BY <1>12 DEF Quiet
  <2>2. out' = <<gain, at, at>> BY <1>3, <1>11, <2>1
  <2>3. Held'
    <3>1. gain \in Int /\ at \in Nat BY <1>2, <1>11
    <3>2. work'.prev = Heard(work'.button, work'.button \in Ramps, at) BY <1>5 DEF cmd
    <3> QED BY <1>5, <2>2, <3>1, <3>2 DEF Held
  <2>4. RampInStep'
    BY <1>2, <1>3, <1>5, <1>6, <1>7, <1>8, <2>1, <2>2 DEF RampInStep, Heards
  <2> QED BY <1>5, <2>3, <2>4 DEF PressInv
<1>13. CASE Held
  <2>1. PICK applied \in Int, first \in Nat, now \in Nat :
          /\ out = <<applied, first, now>> /\ first <= now /\ now <= at
          /\ prev = Heard(b, ramp, now)
    BY <1>13 DEF Held
  <2>2. prev.button = b /\ prev.count = now /\ now < at BY <1>3, <2>1 DEF Heard
  <2>3. gain = IF ramp THEN at - now ELSE 0 BY <1>9, <1>10, <2>2
  <2>4. out' = <<applied + gain, first, at>> BY <1>3, <2>1
  <2>5. Held'
    <3>1. applied + gain \in Int /\ first \in Nat /\ at \in Nat /\ first <= at
      BY <1>2, <1>11, <2>1
    <3>2. work'.prev = Heard(work'.button, work'.button \in Ramps, at) BY <1>5 DEF cmd
    <3> QED BY <1>2, <1>5, <2>4, <3>1, <3>2 DEF Held
  <2>6. RampInStep'
    BY <1>1, <1>2, <1>3, <1>5, <2>1, <2>2, <2>3, <2>4 DEF RampInStep
  <2> QED BY <1>5, <2>5, <2>6 DEF PressInv
<1> QED BY <1>1, <1>12, <1>13

LEMMA PressStep == PressInv /\ [Next]_vars => PressInv'
<1> SUFFICES ASSUME PressInv, [Next]_vars, task = "press", task' = "press" PROVE PressInv'
  <2>1. [Next]_vars => task' = task
    BY DEF Next, vars, TakeNext, EncodeAdvs, Press, Hear, Hold, Release, Show, SendAgain,
           ReadBack
  <2> QED BY <2>1 DEF PressInv
<1>1. work \in Pressing BY DEF PressInv
<1>2. CASE Press
  <2>1. PICK b \in Buttons :
          work' = [prev |-> work.prev, button |-> b, at |-> IF b \in Ramps THEN 1 ELSE 0,
                   last |-> work.prev]
    BY <1>2 DEF Press
  <2>2. out' = <<0, -1, -1>> BY <1>2 DEF Press
  <2>3. work' \in Pressing BY <1>1, <2>1 DEF Pressing
  <2>4. Quiet' BY <2>1, <2>2 DEF Quiet
  <2>5. RampInStep' BY <2>2 DEF RampInStep
  <2> QED BY <2>3, <2>4, <2>5 DEF PressInv
<1>3. CASE Hear BY <1>3, HearStep
<1>4. CASE Hold
  <2>1. /\ work' = [work EXCEPT !.at = work.at + 1] /\ out' = out /\ work.button # "none"
    BY <1>4 DEF Hold
  <2>2. /\ work' \in Pressing /\ work'.prev = work.prev /\ work'.last = work.last
        /\ work'.button = work.button /\ work'.at = work.at + 1 /\ work.at \in Nat
    BY <1>1, <2>1 DEF Pressing
  <2>3. Quiet => Quiet' BY <2>1, <2>2 DEF Quiet
  <2>4. Held => Held' BY <2>1, <2>2 DEF Held
  <2>5. RampInStep' BY <2>1, <2>2 DEF PressInv, RampInStep
  <2> QED BY <2>1, <2>2, <2>3, <2>4, <2>5 DEF PressInv
<1>5. CASE Release
  <2>1. work' = [work EXCEPT !.button = "none"] BY <1>5 DEF Release
  <2>2. work' \in Pressing /\ work'.button = "none" BY <1>1, <2>1 DEF Pressing
  <2> QED BY <2>2 DEF PressInv
<1>6. CASE UNCHANGED vars BY <1>6 DEF vars, PressInv, Quiet, Held, RampInStep
<1> QED
  BY <1>2, <1>3, <1>4, <1>5, <1>6 DEF Next, TakeNext, EncodeAdvs, Show, SendAgain, ReadBack

\* Whatever is lost, what was applied of a press adds up to what was heard of it, for any
\* remote and any number of presses.
THEOREM PressesAddUp == Spec => []RampInStep
<1>1. PressInv => RampInStep BY DEF PressInv, RampInStep
<1> QED BY <1>1, PressInit, PressStep, PTL DEF Spec

-----------------------------------------------------------------------------
(***************************************************************************)
(* level: shown and sent again.                                            *)
(***************************************************************************)

\* A brightness is never shown below two steps, and is the level it was received for when
\* that is not below the least brightness (_set_br).
LEMMA ShownBounds ==
  ASSUME NEW f \in Nat \ {0}, NEW level \in 0 .. f, NEW b \in Shown(level, f)
  PROVE  /\ b \in Nat /\ b >= 2
         /\ 100 * level >= MinBrightness * f => f * b <= 255 * level /\ 255 * level <= f * b + f
<1>1. MinBrightness \in 1 .. 100 BY MinBrightnessAssumption
<1>2. CASE 100 * level < MinBrightness * f
  <2>1. b \in Truncated(255 * MinBrightness, 100) BY <1>2 DEF Shown
  <2>2. b \in Nat /\ 255 * MinBrightness <= 100 * b + 100 BY <1>1, <2>1, TruncatedBounds
  <2>3. MinBrightness * f \in Int BY <1>1
  <2> QED BY <1>1, <1>2, <2>2, <2>3
<1>3. CASE ~ (100 * level < MinBrightness * f)
  <2>1. PICK c \in Truncated(255 * level, f) : b = Least(255, c) BY <1>3 DEF Shown
  <2>2. c \in Nat /\ f * c <= 255 * level /\ 255 * level <= f * c + f BY <2>1, TruncatedBounds
  <2>3. f * c \in Nat BY <2>2
  <2>4. c <= 255
    <3>1. f * c <= f * 255 BY <2>2, <2>3
    <3> QED BY <2>2, <3>1, Cancel
  <2>5. b = c BY <2>1, <2>2, <2>4 DEF Least
  <2>6. MinBrightness * f \in Int /\ f <= MinBrightness * f BY <1>1
  <2>7. c >= 2
    <3>1. f <= 100 * level BY <1>3, <2>6
    <3>2. f * 155 <= f * (100 * c)
      <4>1. f * (100 * c) = 100 * (f * c) BY <2>2
      <4> QED BY <2>2, <2>3, <3>1, <4>1
    <3> QED BY <2>2, <3>2, Cancel
  <2> QED BY <2>2, <2>5, <2>7
<1> QED BY <1>2, <1>3

\* The two parts of a white light: the strong one is whole, to two units of KelvinRange,
\* and the weak one is to the strong one what it was, to as much. u counts from the side
\* of the weak one.
LEMMA PartsKept ==
  ASSUME NEW s \in 1 .. 255, NEW w \in 0 .. s, NEW reverse \in BOOLEAN,
         NEW t \in Truncated(KelvinRange * (IF reverse THEN w ELSE 2 * s - w), 2 * s),
         NEW u, u = IF reverse THEN KelvinRange - t ELSE t
  PROVE  /\ Least(KelvinRange, 2 * u) \in KelvinRange - 2 .. KelvinRange
         /\ Least(KelvinRange, 2 * (KelvinRange - u)) \in Nat
         /\ s * Least(KelvinRange, 2 * (KelvinRange - u)) <= KelvinRange * w + 2 * s
         /\ KelvinRange * w <= s * Least(KelvinRange, 2 * (KelvinRange - u)) + 2 * s
<1>1. KelvinRange = 4535 BY DEF KelvinRange, MinKelvin, MaxKelvin
<1> DEFINE p == s * t
<1>2. CASE reverse
  <2>1. t \in Nat /\ (2 * s) * t <= 4535 * w /\ 4535 * w <= (2 * s) * t + 2 * s
    BY <1>1, <1>2, TruncatedBounds
  <2>2. (2 * s) * t = 2 * p /\ p \in Nat /\ s * (2 * t) = 2 * p BY <2>1
  <2>3. 2 * t <= 4535
    <3>1. s * (2 * t) <= s * 4535 BY <2>1, <2>2
    <3> QED BY <2>1, <3>1, Cancel
  <2>4. u = 4535 - t /\ 4535 - u = t BY <1>1, <1>2, <2>1
  <2>5. Least(KelvinRange, 2 * u) = 4535 BY <1>1, <2>1, <2>3, <2>4 DEF Least
  <2>6. Least(KelvinRange, 2 * (KelvinRange - u)) = 2 * t BY <1>1, <2>1, <2>3, <2>4 DEF Least
  <2> QED BY <1>1, <2>1, <2>2, <2>5, <2>6
<1>3. CASE ~ reverse
  <2>1. /\ t \in Nat /\ (2 * s) * t <= 4535 * (2 * s - w)
        /\ 4535 * (2 * s - w) <= (2 * s) * t + 2 * s
    BY <1>1, <1>3, TruncatedBounds
  <2>2. (2 * s) * t = 2 * p /\ p \in Nat BY <2>1
  <2>3. u = t BY <1>3
  <2>4. 4533 <= 2 * t
    <3>1. s * (2 * t) = 2 * p BY <2>1
    <3>2. s * 4533 <= s * (2 * t) BY <2>1, <2>2, <3>1
    <3> QED BY <2>1, <3>2, Cancel
  <2>5. t <= 4535
    <3>1. s * (2 * t) <= s * 9070 BY <2>1, <2>2
    <3>2. 2 * t <= 9070 BY <2>1, <3>1, Cancel
    <3> QED BY <2>1, <3>2
  <2>6. Least(KelvinRange, 2 * u) \in 4533 .. 4535 BY <1>1, <2>1, <2>3, <2>4 DEF Least
  <2>7. s * (2 * (4535 - t)) = 9070 * s - 2 * p BY <2>1
  <2>8. CASE 4535 < 2 * (4535 - t)
    <3>1. Least(KelvinRange, 2 * (KelvinRange - u)) = 4535 BY <1>1, <2>1, <2>3, <2>8 DEF Least
    <3>2. s * 4535 <= s * (2 * (4535 - t)) BY <2>1, <2>8
    <3> QED BY <1>1, <2>1, <2>2, <2>6, <2>7, <3>1, <3>2
  <2>9. CASE ~ (4535 < 2 * (4535 - t))
    <3>1. Least(KelvinRange, 2 * (KelvinRange - u)) = 2 * (4535 - t)
      BY <1>1, <2>1, <2>3, <2>9 DEF Least
    <3> QED BY <1>1, <2>1, <2>2, <2>5, <2>6, <2>7, <3>1
  <2> QED BY <2>8, <2>9
<1> QED BY <1>2, <1>3
\* What is sent for the strong part: n is the level and the part in one number.
LEMMA StrongKept ==
  ASSUME NEW s \in 1 .. 255, NEW f \in 128 .. 255, NEW n \in Nat,
         n <= 255 * s, 255 * s <= n + f,
         NEW p \in KelvinRange - 2 .. KelvinRange, NEW v \in Truncated(n * p, 255 * KelvinRange)
  PROVE  Near(v, s)
<1>1. KelvinRange = 4535 BY DEF KelvinRange, MinKelvin, MaxKelvin
<1> DEFINE m == n * p
<1>2. n * 4533 <= m /\ m <= n * 4535 /\ m \in Nat BY <1>1
<1>3. v \in Nat /\ 1156425 * v <= m /\ m <= 1156425 * v + 1156425
  <2>1. 255 * KelvinRange = 1156425 BY <1>1
  <2> QED BY <1>2, <2>1, TruncatedBounds
<1> HIDE DEF m
<1>4. v - s \in -2 .. 2 BY <1>2, <1>3
<1> QED BY <1>4 DEF Near

\* What is sent for the weak part.
LEMMA WeakKept ==
  ASSUME NEW s \in 1 .. 255, NEW w \in 0 .. s, NEW f \in 128 .. 255, NEW n \in Nat,
         n <= 255 * s, 255 * s <= n + f, NEW p \in Nat,
         s * p <= KelvinRange * w + 2 * s, KelvinRange * w <= s * p + 2 * s,
         NEW v \in Truncated(n * p, 255 * KelvinRange)
  PROVE  Near(v, w)
<1>1. KelvinRange = 4535 BY DEF KelvinRange, MinKelvin, MaxKelvin
<1> DEFINE m == n * p
           x == s * p
<1>2. m \in Nat /\ x \in Nat /\ x <= 4535 * w + 2 * s /\ 4535 * w <= x + 2 * s BY <1>1
<1>3. v \in Nat /\ 1156425 * v <= m /\ m <= 1156425 * v + 1156425
  <2>1. 255 * KelvinRange = 1156425 BY <1>1
  <2> QED BY <1>2, <2>1, TruncatedBounds
\* Multiplied by s, both bounds of n * p are those of n times a part.
<1>4. s * m <= 255 * (s * x) /\ 255 * (s * x) <= s * m + f * x
  <2>1. s * m = n * x OBVIOUS
  <2>2. n * x <= (255 * s) * x /\ (255 * s) * x <= (n + f) * x BY <1>2
  <2>3. (255 * s) * x = 255 * (s * x) /\ (n + f) * x = n * x + f * x BY <1>2
  <2> QED BY <2>1, <2>2, <2>3
<1>5. f * x <= 255 * x BY <1>2
<1> HIDE DEF m, x
<1>6. v <= w + 2
  <2>1. s * (1156425 * v) <= s * m BY <1>2, <1>3
  <2>2. s * x <= s * (4535 * w + 2 * s) BY <1>2
  <2>3. 255 * (s * (4535 * w + 2 * s)) = s * (1156425 * w + 510 * s) OBVIOUS
  <2>4. s * (1156425 * v) <= s * (1156425 * w + 510 * s)
    <3>1. s * (1156425 * v) \in Int /\ s * m \in Int /\ s * x \in Int
          /\ s * (4535 * w + 2 * s) \in Int
      BY <1>2, <1>3
    <3> QED BY <1>4, <2>1, <2>2, <2>3, <3>1
  <2>5. 1156425 * v <= 1156425 * w + 510 * s BY <1>3, <2>4, Cancel
  <2> QED BY <1>3, <2>5
<1>7. w <= v + 2
  <2>1. s * m <= s * (1156425 * v + 1156425) BY <1>2, <1>3
  <2>2. s * (4535 * w - 2 * s) <= s * x BY <1>2
  <2>3. 255 * (s * (4535 * w - 2 * s)) = s * (1156425 * w - 510 * s) OBVIOUS
  <2>4. 255 * x <= s * 1156935
    <3>1. x <= 4537 * s BY <1>2
    <3> QED BY <1>2, <3>1
  <2>5. s * (1156425 * w - 510 * s) <= s * (1156425 * v + 1156425 + 1156935)
    <3>1. s * (1156425 * v + 1156425 + 1156935) = s * (1156425 * v + 1156425) + s * 1156935
      BY <1>3
    <3>2. /\ s * m \in Int /\ s * x \in Int /\ f * x \in Int
          /\ s * (1156425 * v + 1156425) \in Int /\ s * (4535 * w - 2 * s) \in Int
      BY <1>2, <1>3
    <3> QED BY <1>2, <1>4, <1>5, <2>1, <2>2, <2>3, <2>4, <3>1, <3>2
  <2>6. 1156425 * w - 510 * s <= 1156425 * v + 1156425 + 1156935 BY <1>3, <2>5, Cancel
  <2> QED BY <1>3, <2>6
<1>8. v - w \in -2 .. 2 BY <1>3, <1>6, <1>7
<1> QED BY <1>8 DEF Near

\* A light that is shown is not sent as dark.
LEMMA NotDark ==
  ASSUME NEW f \in 128 .. 255, NEW b \in Nat, b >= 2,
         NEW p \in KelvinRange - 2 .. KelvinRange, NEW v \in SentPart(b, p, f)
  PROVE  v \in Nat \ {0}
<1>1. KelvinRange = 4535 BY DEF KelvinRange, MinKelvin, MaxKelvin
<1>2. f * b \in Nat /\ 256 <= f * b
  <2>1. f * 2 <= f * b BY Scale
  <2> QED BY <2>1
<1>3. (f * b) * p \in Nat /\ (f * b) * 4533 <= (f * b) * p BY <1>1, <1>2
<1>4. v \in Nat /\ (f * b) * p <= 1156425 * v + 1156425
  <2>1. 255 * KelvinRange = 1156425 BY <1>1
  <2> QED BY <1>3, <2>1, TruncatedBounds DEF SentPart
<1> QED BY <1>2, <1>3, <1>4

\* A white light that is received, shown and sent again.
LEMMA WhiteKept ==
  ASSUME NEW f \in 128 .. 255, NEW cold \in 0 .. 255, NEW warm \in 0 .. 255,
         NEW reversed \in BOOLEAN, {cold, warm} # {0}, Most(cold, warm) <= f,
         NEW b \in Shown(Most(cold, warm), f), NEW k \in Kelvins(cold, warm, reversed),
         NEW c \in SentPart(b, ColdPart(k, reversed), f),
         NEW w \in SentPart(b, WarmPart(k, reversed), f)
  PROVE  /\ <<c, w>> # <<0, 0>>
         /\ 100 * Most(cold, warm) >= MinBrightness * f => Near(c, cold) /\ Near(w, warm)
<1> DEFINE top == Most(cold, warm)
           low == Least(cold, warm)
           toward == (cold < warm) # reversed
           part == IF toward THEN low ELSE 2 * top - low
<1>1. top \in 1 .. 255 /\ low \in 0 .. top BY DEF Most, Least
<1>2. PICK t \in Truncated(KelvinRange * part, 2 * top) : k = MinKelvin + t BY DEF Kelvins
<1>3. toward \in BOOLEAN OBVIOUS
<1> DEFINE u == IF toward THEN KelvinRange - t ELSE t
           strong == Least(KelvinRange, 2 * u)
           weak   == Least(KelvinRange, 2 * (KelvinRange - u))
<1>4. KelvinRange = 4535 /\ MinKelvin = 2000 /\ MaxKelvin = 6535
  BY DEF KelvinRange, MinKelvin, MaxKelvin
<1>5. t \in Nat
  <2>1. KelvinRange * part \in Nat /\ 2 * top \in Nat \ {0} BY <1>1, <1>4
  <2> HIDE DEF part, top
  <2> QED BY <1>2, <2>1, TruncatedBounds
<1>6. /\ strong \in KelvinRange - 2 .. KelvinRange /\ weak \in Nat
      /\ top * weak <= KelvinRange * low + 2 * top
      /\ KelvinRange * low <= top * weak + 2 * top
  <2> HIDE DEF top, low, toward
  <2> QED BY <1>1, <1>2, <1>3, PartsKept
<1>7. IF cold < warm THEN WarmPart(k, reversed) = strong /\ ColdPart(k, reversed) = weak
      ELSE ColdPart(k, reversed) = strong /\ WarmPart(k, reversed) = weak
  <2>1. KelvinRange - (KelvinRange - t) = t BY <1>4, <1>5
  <2>2. k - MinKelvin = t /\ MaxKelvin - k = KelvinRange - t BY <1>2, <1>4, <1>5
  <2>3. CASE cold < warm /\ reversed BY <2>1, <2>2, <2>3 DEF WarmPart, ColdPart
  <2>4. CASE cold < warm /\ ~ reversed BY <2>1, <2>2, <2>4 DEF WarmPart, ColdPart
  <2>5. CASE ~ (cold < warm) /\ reversed BY <2>1, <2>2, <2>5 DEF WarmPart, ColdPart
  <2>6. CASE ~ (cold < warm) /\ ~ reversed BY <2>1, <2>2, <2>6 DEF WarmPart, ColdPart
  <2> QED BY <2>3, <2>4, <2>5, <2>6
<1> HIDE DEF strong, weak, u, part
<1>8. /\ b \in Nat /\ b >= 2
      /\ 100 * top >= MinBrightness * f => f * b <= 255 * top /\ 255 * top <= f * b + f
  <2>1. top \in 0 .. f
    <3>1. top <= f OBVIOUS
    <3> HIDE DEF top
    <3> QED BY <1>1, <3>1
  <2>2. b \in Shown(top, f) OBVIOUS
  <2> HIDE DEF top
  <2> QED BY <2>1, <2>2, ShownBounds
<1>9. ASSUME NEW v \in SentPart(b, strong, f) PROVE v \in Nat \ {0}
  BY <1>6, <1>8, NotDark
<1>10. ASSUME 100 * top >= MinBrightness * f, NEW v \in SentPart(b, strong, f) PROVE Near(v, top)
  <2>1. f * b \in Nat BY <1>8
  <2>2. v \in Truncated((f * b) * strong, 255 * KelvinRange) BY DEF SentPart
  <2> HIDE DEF top
  <2> QED BY <1>1, <1>6, <1>8, <1>10, <2>1, <2>2, StrongKept
<1>11. ASSUME 100 * top >= MinBrightness * f, NEW v \in SentPart(b, weak, f) PROVE Near(v, low)
  <2>1. f * b \in Nat BY <1>8
  <2>2. v \in Truncated((f * b) * weak, 255 * KelvinRange) BY DEF SentPart
  <2> HIDE DEF top, low
  <2> QED BY <1>1, <1>6, <1>8, <1>11, <2>1, <2>2, WeakKept
<1>12. CASE cold < warm
  <2>1. top = warm /\ low = cold BY <1>12 DEF Most, Least
  <2> HIDE DEF top, low
  <2>2. w \in SentPart(b, strong, f) /\ c \in SentPart(b, weak, f) BY <1>7, <1>12
  <2>3. w # 0 BY <1>9, <2>2
  <2>4. 100 * top >= MinBrightness * f => Near(c, cold) /\ Near(w, warm)
    BY <1>10, <1>11, <2>1, <2>2
  <2> QED BY <2>3, <2>4 DEF top
<1>13. CASE ~ (cold < warm)
  <2>1. top = cold /\ low = warm BY <1>13 DEF Most, Least
  <2> HIDE DEF top, low
  <2>2. c \in SentPart(b, strong, f) /\ w \in SentPart(b, weak, f) BY <1>7, <1>13
  <2>3. c # 0 BY <1>9, <2>2
  <2>4. 100 * top >= MinBrightness * f => Near(c, cold) /\ Near(w, warm)
    BY <1>10, <1>11, <2>1, <2>2
  <2> QED BY <2>3, <2>4 DEF top
<1> QED BY <1>12, <1>13
\* A level of one part that is received, shown and sent again.
LEMMA LevelKept ==
  ASSUME NEW f \in Nat \ {0}, NEW level \in 0 .. f, NEW b \in Shown(level, f), NEW v \in Sent(b, f),
         100 * level >= MinBrightness * f
  PROVE  v <= level /\ 255 * (level - v) <= f + 255
<1>1. b \in Nat /\ f * b <= 255 * level /\ 255 * level <= f * b + f BY ShownBounds
<1>2. f * b \in Nat BY <1>1
<1>3. v \in Nat /\ 255 * v <= f * b /\ f * b <= 255 * v + 255
  BY <1>2, TruncatedBounds DEF Sent
<1> QED BY <1>1, <1>2, <1>3

\* The percentage of a speed gives this speed, up to a hundred of them.
LEMMA SpeedKept ==
  ASSUME NEW n \in 1 .. 100, NEW v \in 1 .. n
  PROVE  Speed(Percentage(v, n), n) = v
<1> DEFINE p == (100 * v) \div n
           r == (100 * v) % n
           q == (n * p + 99) \div 100
           m == (n * p + 99) % 100
<1>1. p \in Nat /\ r \in 0 .. (n - 1) /\ 100 * v = n * p + r
  <2>1. 100 * v \in Nat /\ n \in Nat \ {0} OBVIOUS
  <2> QED BY ONLY <2>1, Division
<1>2. n * p \in Nat BY <1>1
<1>3. q \in Nat /\ m \in 0 .. 99 /\ n * p + 99 = 100 * q + m
  <2>1. n * p + 99 \in Nat /\ 100 \in Nat \ {0} BY <1>2
  <2>2. q \in Nat /\ m \in 0 .. (100 - 1) /\ n * p + 99 = 100 * q + m
    BY ONLY <2>1, Division
  <2> QED BY <2>2
<1>4. Speed(Percentage(v, n), n) = q BY DEF Speed, Percentage
<1> HIDE DEF p, r, q, m
<1>5. q = v BY <1>1, <1>2, <1>3
<1> QED BY <1>4, <1>5

WhiteInput ==
  /\ input \in White
  /\ {input.cold, input.warm} # {0} /\ Most(input.cold, input.warm) <= input.factor
LevelInput == \E f \in Factors : \E v \in 0 .. f : input = [kind |-> "br", factor |-> f, level |-> v]
SpeedInput == \E n \in SpeedCounts : \E v \in 1 .. n : input = [kind |-> "speed", speeds |-> n, level |-> v]

WhiteShown ==
  \E b \in Shown(Most(input.cold, input.warm), input.factor),
     k \in Kelvins(input.cold, input.warm, input.reversed) : work = <<b, k>>
LevelShown == \E b \in Shown(input.level, input.factor) : work = <<b>>
SpeedShown == work = <<Percentage(input.level, input.speeds)>>

WhiteSent ==
  /\ out # <<0, 0>>
  /\ 100 * Most(input.cold, input.warm) >= MinBrightness * input.factor
       => Near(out[1], input.cold) /\ Near(out[2], input.warm)
LevelSent ==
  100 * input.level >= MinBrightness * input.factor
    => out[1] <= input.level /\ 255 * (input.level - out[1]) <= input.factor + 255
SpeedSent == out[1] = input.level

\* The inductive invariant of a level: what is shown comes from what was received, and
\* what was sent from what is shown.
LevelInv ==
  task = "level" =>
    /\ work = <<>> => out = <<>>
    /\ \/ WhiteInput /\ (work # <<>> => WhiteShown) /\ (out # <<>> => WhiteSent)
       \/ LevelInput /\ (work # <<>> => LevelShown) /\ (out # <<>> => LevelSent)
       \/ SpeedInput /\ (work # <<>> => SpeedShown) /\ (out # <<>> => SpeedSent)

LEMMA InputKinds ==
  /\ WhiteInput => input.kind = "cww"
  /\ LevelInput => input.kind = "br"
  /\ SpeedInput => input.kind = "speed"
BY DEF WhiteInput, LevelInput, SpeedInput, White

LEMMA LevelInit == Init => LevelInv
<1> SUFFICES ASSUME InitLevel PROVE LevelInv
  BY DEF Init, InitSplit, InitCount, InitPress, InitFrame, LevelInv
<1> QED BY DEF InitLevel, LevelInv, WhiteInput, LevelInput, SpeedInput

LEMMA LevelStep == LevelInv /\ [Next]_vars => LevelInv'
<1> SUFFICES ASSUME LevelInv, [Next]_vars, task = "level", task' = "level" PROVE LevelInv'
  <2>1. [Next]_vars => task' = task
    BY DEF Next, vars, TakeNext, EncodeAdvs, Press, Hear, Hold, Release, Show, SendAgain,
           ReadBack
  <2> QED BY <2>1 DEF LevelInv
<1>1. CASE Show
  <2>1. work = <<>> /\ out = <<>> /\ input' = input /\ out' = <<>> BY <1>1 DEF Show, LevelInv
  <2>2. CASE WhiteInput
    <3>1. WhiteShown' BY <1>1, <2>1, <2>2, InputKinds DEF Show, WhiteShown
    <3> QED BY <2>1, <2>2, <3>1 DEF LevelInv, WhiteInput
  <2>3. CASE LevelInput
    <3>1. LevelShown' BY <1>1, <2>1, <2>3, InputKinds DEF Show, LevelShown
    <3> QED BY <2>1, <2>3, <3>1 DEF LevelInv, LevelInput
  <2>4. CASE SpeedInput
    <3>1. SpeedShown' BY <1>1, <2>1, <2>4, InputKinds DEF Show, SpeedShown
    <3> QED BY <2>1, <2>4, <3>1 DEF LevelInv, SpeedInput
  <2> QED BY <2>2, <2>3, <2>4 DEF LevelInv
<1>2. CASE SendAgain
  <2>1. work # <<>> /\ input' = input /\ work' = work BY <1>2 DEF SendAgain
  <2>2. CASE WhiteInput /\ WhiteShown
    <3>1. /\ input.factor \in 128 .. 255 /\ input.cold \in 0 .. 255 /\ input.warm \in 0 .. 255
          /\ input.reversed \in BOOLEAN
          /\ {input.cold, input.warm} # {0} /\ Most(input.cold, input.warm) <= input.factor
      <4>1. /\ input.factor \in WhiteFactors /\ input.cold \in 0 .. 255 /\ input.warm \in Warms
            /\ input.reversed \in BOOLEAN
        BY <2>2 DEF WhiteInput, White
      <4>2. input.factor \in 128 .. 255 BY <4>1, LevelAssumption, Zenon
      <4>3. input.warm \in 0 .. 255 BY <4>1, LevelAssumption, Zenon
      <4>4. {input.cold, input.warm} # {0} /\ Most(input.cold, input.warm) <= input.factor
        BY <2>2 DEF WhiteInput
      <4> QED BY <4>1, <4>2, <4>3, <4>4
    <3>2. PICK b \in Shown(Most(input.cold, input.warm), input.factor),
               k \in Kelvins(input.cold, input.warm, input.reversed) : work = <<b, k>>
      BY <2>2 DEF WhiteShown
    <3>3. PICK c \in SentPart(b, ColdPart(k, input.reversed), input.factor),
               w \in SentPart(b, WarmPart(k, input.reversed), input.factor) : out' = <<c, w>>
      BY <1>2, <2>2, <3>2, InputKinds DEF SendAgain
    <3>4. /\ <<c, w>> # <<0, 0>>
          /\ 100 * Most(input.cold, input.warm) >= MinBrightness * input.factor
               => Near(c, input.cold) /\ Near(w, input.warm)
      BY <3>1, WhiteKept
    <3>5. WhiteSent' BY <2>1, <3>3, <3>4 DEF WhiteSent
    <3> QED BY <2>1, <2>2, <3>5 DEF LevelInv, WhiteInput, WhiteShown
  <2>3. CASE LevelInput /\ LevelShown
    <3>1. PICK f \in Factors : \E v \in 0 .. f : input = [kind |-> "br", factor |-> f, level |-> v]
      BY <2>3 DEF LevelInput
    <3>2. PICK v \in 0 .. f : input = [kind |-> "br", factor |-> f, level |-> v] BY <3>1
    <3>3. f \in Nat \ {0} /\ input.factor = f /\ input.level = v BY <3>2, LevelAssumption
    <3>4. PICK b \in Shown(v, f) : work = <<b>> BY <2>3, <3>3 DEF LevelShown
    <3>5. PICK a \in Sent(b, f) : out' = <<a>>
      BY <1>2, <2>3, <3>3, <3>4, InputKinds DEF SendAgain
    <3>6. 100 * v >= MinBrightness * f => a <= v /\ 255 * (v - a) <= f + 255
      BY <3>3, LevelKept
    <3>7. LevelSent' BY <2>1, <3>3, <3>5, <3>6 DEF LevelSent
    <3> QED BY <2>1, <2>3, <3>7 DEF LevelInv, LevelInput, LevelShown
  <2>4. CASE SpeedInput /\ SpeedShown
    <3>1. PICK n \in SpeedCounts : \E v \in 1 .. n : input = [kind |-> "speed", speeds |-> n, level |-> v]
      BY <2>4 DEF SpeedInput
    <3>2. PICK v \in 1 .. n : input = [kind |-> "speed", speeds |-> n, level |-> v] BY <3>1
    <3>3. n \in 1 .. 100 /\ input.speeds = n /\ input.level = v BY <3>2, LevelAssumption
    <3>4. out' = <<Speed(Percentage(v, n), n)>>
      BY <1>2, <2>4, <3>3, InputKinds DEF SendAgain, SpeedShown
    <3>5. SpeedSent' BY <2>1, <3>3, <3>4, SpeedKept DEF SpeedSent
    <3> QED BY <2>1, <2>4, <3>5 DEF LevelInv, SpeedInput, SpeedShown
  <2> QED BY <2>1, <2>2, <2>3, <2>4 DEF LevelInv
<1>3. CASE UNCHANGED vars
  BY <1>3 DEF vars, LevelInv, WhiteInput, LevelInput, SpeedInput, WhiteShown, LevelShown, SpeedShown,
              WhiteSent, LevelSent, SpeedSent
<1> QED
  BY <1>1, <1>2, <1>3 DEF Next, TakeNext, EncodeAdvs, Press, Hear, Hold, Release, ReadBack

\* What is received, shown and sent again is what was received, for every level, every
\* brightness of a light and every number of speeds up to a hundred.
THEOREM LevelsAreKept == Spec => []LevelsKept
<1>1. LevelInv => LevelsKept
  <2> SUFFICES ASSUME LevelInv, task = "level", out # <<>> PROVE LevelsKept
    BY DEF LevelsKept
  <2>1. CASE WhiteInput /\ WhiteSent BY <2>1, InputKinds DEF LevelsKept, WhiteSent
  <2>2. CASE LevelInput /\ LevelSent BY <2>2, InputKinds DEF LevelsKept, LevelSent
  <2>3. CASE SpeedInput /\ SpeedSent BY <2>3, InputKinds DEF LevelsKept, SpeedSent
  <2> QED BY <2>1, <2>2, <2>3 DEF LevelInv
<1> QED BY <1>1, LevelInit, LevelStep, PTL DEF Spec

-----------------------------------------------------------------------------
(***************************************************************************)
(* frame: the exclusive and the inclusive or of bytes.                     *)
(***************************************************************************)

\* The weights of the bits of a byte.
Weights == {1, 2, 4, 8, 16, 32, 64, 128}

\* A byte is the sum of its bits.
LEMMA BitsOf ==
  ASSUME NEW a \in Byte
  PROVE  /\ a = Bit(a, 1) + 2 * Bit(a, 2) + 4 * Bit(a, 4) + 8 * Bit(a, 8) + 16 * Bit(a, 16)
               + 32 * Bit(a, 32) + 64 * Bit(a, 64) + 128 * Bit(a, 128)
         /\ \A w \in Weights : Bit(a, w) \in {0, 1}
BY DEF Byte, Bit, Weights

LEMMA SumOfBits ==
  ASSUME NEW b1 \in {0, 1}, NEW b2 \in {0, 1}, NEW b4 \in {0, 1}, NEW b8 \in {0, 1},
         NEW b16 \in {0, 1}, NEW b32 \in {0, 1}, NEW b64 \in {0, 1}, NEW b128 \in {0, 1},
         NEW a, a = b1 + 2 * b2 + 4 * b4 + 8 * b8 + 16 * b16 + 32 * b32 + 64 * b64 + 128 * b128
  PROVE  /\ a \in Byte
         /\ Bit(a, 1) = b1 /\ Bit(a, 2) = b2 /\ Bit(a, 4) = b4 /\ Bit(a, 8) = b8
         /\ Bit(a, 16) = b16 /\ Bit(a, 32) = b32 /\ Bit(a, 64) = b64 /\ Bit(a, 128) = b128
BY DEF Byte, Bit

LEMMA XorBits ==
  ASSUME NEW a \in Byte, NEW b \in Byte
  PROVE  /\ a (+) b \in Byte
         /\ \A w \in Weights : Bit(a (+) b, w) = (Bit(a, w) + Bit(b, w)) % 2
<1> DEFINE x(w) == (Bit(a, w) + Bit(b, w)) % 2
           X(w) == XorBit(a, b, w)
<1>1. \A w \in Weights : Bit(a, w) \in {0, 1} /\ Bit(b, w) \in {0, 1} BY BitsOf
<1>2. \A w \in Weights : x(w) \in {0, 1} BY <1>1
<1>3. \A w \in Weights : X(w) = w * x(w) BY <1>1 DEF Weights, XorBit
<1>4. a (+) b = X(1) + X(2) + X(4) + X(8) + X(16) + X(32) + X(64) + X(128)
  BY DEF (+), Xor
<1> HIDE DEF x, X
<1>5. a (+) b = x(1) + 2 * x(2) + 4 * x(4) + 8 * x(8) + 16 * x(16) + 32 * x(32)
                + 64 * x(64) + 128 * x(128)
  BY <1>2, <1>3, <1>4 DEF Weights
<1>6. /\ a (+) b \in Byte
      /\ \A w \in Weights : Bit(a (+) b, w) = x(w)
  BY <1>2, <1>5, SumOfBits DEF Weights
<1> QED BY <1>6 DEF x

\* Bytes with the same bits are the same.
LEMMA SameBits ==
  ASSUME NEW a \in Byte, NEW b \in Byte, \A w \in Weights : Bit(a, w) = Bit(b, w)
  PROVE  a = b
<1>1. /\ a = Bit(a, 1) + 2 * Bit(a, 2) + 4 * Bit(a, 4) + 8 * Bit(a, 8) + 16 * Bit(a, 16)
             + 32 * Bit(a, 32) + 64 * Bit(a, 64) + 128 * Bit(a, 128)
      /\ b = Bit(b, 1) + 2 * Bit(b, 2) + 4 * Bit(b, 4) + 8 * Bit(b, 8) + 16 * Bit(b, 16)
             + 32 * Bit(b, 32) + 64 * Bit(b, 64) + 128 * Bit(b, 128)
  BY BitsOf
<1> QED BY <1>1, Zenon DEF Weights

LEMMA XorType ==
  ASSUME NEW a \in Byte, NEW b \in Byte
  PROVE  a (+) b \in Byte
BY XorBits

LEMMA XorCommutes ==
  ASSUME NEW a \in Byte, NEW b \in Byte
  PROVE  a (+) b = b (+) a
<1>1. \A w \in Weights : Bit(a, w) \in {0, 1} /\ Bit(b, w) \in {0, 1} BY BitsOf
<1>2. \A w \in Weights : Bit(a (+) b, w) = Bit(b (+) a, w) BY <1>1, XorBits
<1> QED BY <1>2, XorBits, SameBits

LEMMA XorAssociates ==
  ASSUME NEW a \in Byte, NEW b \in Byte, NEW c \in Byte
  PROVE  (a (+) b) (+) c = a (+) (b (+) c)
<1>1. \A w \in Weights : Bit(a, w) \in {0, 1} /\ Bit(b, w) \in {0, 1} /\ Bit(c, w) \in {0, 1}
  BY BitsOf
<1>2. a (+) b \in Byte /\ b (+) c \in Byte BY XorBits
<1>3. ASSUME NEW w \in Weights
      PROVE  Bit((a (+) b) (+) c, w) = Bit(a (+) (b (+) c), w)
  <2>1. Bit((a (+) b) (+) c, w) = (((Bit(a, w) + Bit(b, w)) % 2) + Bit(c, w)) % 2
    BY <1>2, XorBits
  <2>2. Bit(a (+) (b (+) c), w) = (Bit(a, w) + ((Bit(b, w) + Bit(c, w)) % 2)) % 2
    BY <1>2, XorBits
  <2> QED BY <1>1, <2>1, <2>2
<1>4. (a (+) b) (+) c \in Byte /\ a (+) (b (+) c) \in Byte BY <1>2, XorBits
<1> QED BY <1>3, <1>4, SameBits

LEMMA XorSelf ==
  ASSUME NEW a \in Byte
  PROVE  a (+) a = 0 /\ a (+) 0 = a /\ 0 (+) a = a
<1>1. 0 \in Byte /\ \A w \in Weights : Bit(0, w) = 0 BY DEF Byte, Bit, Weights
<1>2. \A w \in Weights : Bit(a, w) \in {0, 1} BY BitsOf
<1>3. \A w \in Weights : /\ Bit(a (+) a, w) = Bit(0, w)
                         /\ Bit(a (+) 0, w) = Bit(a, w)
  BY <1>1, <1>2, XorBits
<1>4. a (+) a = 0 /\ a (+) 0 = a BY <1>1, <1>3, XorBits, SameBits
<1> QED BY <1>1, <1>4, XorCommutes

\* What is masked twice is as it was.
LEMMA Undone ==
  ASSUME NEW a \in Byte, NEW b \in Byte
  PROVE  (a (+) b) (+) b = a /\ (a (+) b) (+) a = b /\ b (+) (a (+) b) = a /\ a (+) (a (+) b) = b
<1>1. (a (+) b) (+) b = a (+) (b (+) b) /\ a (+) (a (+) b) = (a (+) a) (+) b
  BY XorAssociates
<1>2. (a (+) b) (+) b = a /\ a (+) (a (+) b) = b BY <1>1, XorSelf
<1> QED BY <1>2, XorCommutes, XorType

\* Two bytes under a mask are together as without it.
LEMMA PairUnmasked ==
  ASSUME NEW a \in Byte, NEW b \in Byte, NEW p \in Byte
  PROVE  (a (+) p) (+) (b (+) p) = a (+) b
<1>1. a (+) p \in Byte /\ b (+) p \in Byte BY XorType
<1>2. (a (+) p) (+) (b (+) p) = a (+) (p (+) (b (+) p)) BY <1>1, XorAssociates
<1> QED BY <1>2, Undone

Six(s) == s[1] (+) s[2] (+) s[3] (+) s[4] (+) s[5] (+) s[6]

\* Six bytes under a mask are together as without it.
LEMMA SixUnmasked ==
  ASSUME NEW s \in [1 .. 6 -> Byte], NEW t, NEW p \in Byte,
         \A k \in 1 .. 6 : t[k] = s[k] (+) p
  PROVE  Six(s) \in Byte /\ Six(t) = Six(s)
<1> DEFINE a == s[1]
           b == s[2]
           c == s[3]
           d == s[4]
           e == s[5]
           f == s[6]
<1>0. /\ a \in Byte /\ b \in Byte /\ c \in Byte /\ d \in Byte /\ e \in Byte /\ f \in Byte
      /\ t[1] = a (+) p /\ t[2] = b (+) p /\ t[3] = c (+) p /\ t[4] = d (+) p
      /\ t[5] = e (+) p /\ t[6] = f (+) p
  OBVIOUS
<1> HIDE DEF a, b, c, d, e, f
<1> DEFINE M(x) == x (+) p
           q    == a (+) b
           r    == q (+) c (+) d
<1>1. /\ q \in Byte /\ q (+) c \in Byte /\ r \in Byte /\ r (+) e \in Byte
      /\ M(c) \in Byte /\ M(d) \in Byte /\ M(e) \in Byte /\ M(f) \in Byte
  BY <1>0, XorType
<1>2. M(a) (+) M(b) = q BY <1>0, PairUnmasked
<1>3. q (+) M(c) (+) M(d) = r
  <2>1. q (+) M(c) (+) M(d) = q (+) (M(c) (+) M(d)) BY <1>0, <1>1, XorAssociates
  <2>2. M(c) (+) M(d) = c (+) d BY <1>0, PairUnmasked
  <2>3. q (+) (c (+) d) = r BY <1>0, <1>1, XorAssociates
  <2> QED BY <2>1, <2>2, <2>3
<1>4. r (+) M(e) (+) M(f) = r (+) e (+) f
  <2>1. r (+) M(e) (+) M(f) = r (+) (M(e) (+) M(f)) BY <1>0, <1>1, XorAssociates
  <2>2. M(e) (+) M(f) = e (+) f BY <1>0, PairUnmasked
  <2>3. r (+) (e (+) f) = r (+) e (+) f BY <1>0, <1>1, XorAssociates
  <2> QED BY <2>1, <2>2, <2>3
<1>5. Six(t) = M(a) (+) M(b) (+) M(c) (+) M(d) (+) M(e) (+) M(f) BY <1>0 DEF Six
<1>6. Six(s) = r (+) e (+) f BY DEF Six, a, b, c, d, e, f
<1>7. r (+) e (+) f \in Byte BY <1>0, <1>1, XorType
<1> QED BY <1>2, <1>3, <1>4, <1>5, <1>6, <1>7

-----------------------------------------------------------------------------
\* A record with the fields of a command.
Whole(a) == a = [f \in Fields |-> a[f]]

\* The bytes that only the remote of agarce has are not set.
Short(a) == a.id4 = 0 /\ a.id5 = 0 /\ a.seed2 = 0 /\ a.seed3 = 0

\* Two commands with the same fields are the same.
LEMMA SameFields ==
  ASSUME NEW a, NEW b, Whole(a), Whole(b),
         a.cmd = b.cmd, a.param = b.param, a.arg0 = b.arg0, a.arg1 = b.arg1,
         a.arg2 = b.arg2, a.arg3 = b.arg3, a.id0 = b.id0, a.id1 = b.id1, a.id2 = b.id2,
         a.id3 = b.id3, a.index = b.index, a.tx = b.tx, a.restart = b.restart,
         a.seed0 = b.seed0, a.seed1 = b.seed1,
         \/ Short(a) /\ Short(b)
         \/ a.id4 = b.id4 /\ a.id5 = b.id5 /\ a.seed2 = b.seed2 /\ a.seed3 = b.seed3
  PROVE  a = b
<1>1. a.id4 = b.id4 /\ a.id5 = b.id5 /\ a.seed2 = b.seed2 /\ a.seed3 = b.seed3 BY DEF Short
<1>2. \A f \in Fields : a[f] = b[f] BY <1>1 DEF Fields
<1> QED BY <1>2 DEF Whole

LEMMA CommandWhole ==
  ASSUME NEW c \in EncCmd
  PROVE  Whole(c)
BY DEF Whole, Fields, EncCmd

\* The bytes of a command.
LEMMA CommandBytes ==
  ASSUME NEW codec, NEW c \in Commands(codec)
  PROVE  /\ c \in EncCmd
         /\ c.cmd \in Byte /\ c.param \in Byte /\ c.arg0 \in Byte /\ c.arg1 \in Byte
         /\ c.arg2 \in Byte /\ c.arg3 \in Byte /\ c.id0 \in Byte /\ c.id1 \in Byte
         /\ c.id2 \in Byte /\ c.id3 \in Byte /\ c.index \in Byte /\ c.tx \in Byte
         /\ c.restart \in Byte /\ c.seed0 \in Byte /\ c.seed1 \in Byte
         /\ c.id4 \in Byte /\ c.id5 \in Byte /\ c.seed2 \in Byte /\ c.seed3 \in Byte
<1>1. c \in EncCmd BY DEF Commands
<1> QED BY <1>1 DEF EncCmd

-----------------------------------------------------------------------------
\* A buffer of n + 1 bytes under a mask.
LEMMA MaskedTwice ==
  ASSUME NEW n \in Nat, NEW buf \in [0 .. n -> Byte], NEW p \in Byte
  PROVE  /\ Masked(buf, p) \in [0 .. n -> Byte]
         /\ \A i \in 0 .. n : Masked(buf, p)[i] = buf[i] (+) p
         /\ Masked(Masked(buf, p), p) = buf
<1>1. \A i \in 0 .. n : buf[i] (+) p \in Byte /\ (buf[i] (+) p) (+) p = buf[i]
  BY XorType, Undone
<1> QED BY <1>1 DEF Masked

\* A pivot is the same once the buffer is masked with it, and so unmasks it.
LEMMA Pivoted0Twice ==
  ASSUME NEW n \in Nat, n >= 7, NEW buf \in [0 .. n -> Byte]
  PROVE  Pivoted0(Pivoted0(buf)) = buf
<1> DEFINE p == Pivot0(buf)
           m == Masked(buf, p)
<1>1. p \in Byte BY XorType DEF Pivot0
<1>2. /\ m \in [0 .. n -> Byte] /\ \A i \in 0 .. n : m[i] = buf[i] (+) p
      /\ Masked(m, p) = buf
  BY <1>1, MaskedTwice
<1>3. Pivot0(m) = p
  <2>1. buf[0] \in Byte /\ buf[1] \in Byte /\ buf[6] \in Byte /\ buf[7] \in Byte OBVIOUS
  <2>2. Pivot0(m) = (((buf[0] (+) p) (+) (buf[1] (+) p)) (+) (buf[6] (+) p)) (+) (buf[7] (+) p)
    BY <1>2 DEF Pivot0
  <2> HIDE DEF p
  <2>3. (buf[0] (+) p) (+) (buf[1] (+) p) = buf[0] (+) buf[1] BY <1>1, <2>1, PairUnmasked
  <2>4. buf[0] (+) buf[1] \in Byte /\ buf[6] (+) p \in Byte /\ buf[7] (+) p \in Byte
    BY <1>1, <2>1, XorType
  <2>5. Pivot0(m) = (buf[0] (+) buf[1]) (+) ((buf[6] (+) p) (+) (buf[7] (+) p))
    BY <2>2, <2>3, <2>4, XorAssociates
  <2>6. Pivot0(m) = (buf[0] (+) buf[1]) (+) (buf[6] (+) buf[7])
    BY <1>1, <2>1, <2>5, PairUnmasked
  <2>7. Pivot0(m) = ((buf[0] (+) buf[1]) (+) buf[6]) (+) buf[7]
    BY <2>1, <2>4, <2>6, XorAssociates
  <2> QED BY <2>7 DEF p, Pivot0
<1> QED BY <1>2, <1>3 DEF Pivoted0

LEMMA PivotedTwice ==
  ASSUME NEW n \in Nat, NEW buf \in [0 .. n -> Byte], NEW places,
         \A k \in 1 .. 6 : places[k] \in 0 .. n
  PROVE  Pivoted(Pivoted(buf, places), places) = buf
<1> DEFINE At(b) == [k \in 1 .. 6 |-> b[places[k]]]
           p     == Pivot(buf, places)
           m     == Masked(buf, p)
<1>1. At(buf) \in [1 .. 6 -> Byte] OBVIOUS
<1>2. \A b : Pivot(b, places) = IF Six(At(b)) % 2 = 0 THEN Six(At(b)) (+) 255 ELSE Six(At(b))
  BY DEF Pivot, Six
<1> HIDE DEF p
<1>3. p \in Byte
  <2>1. 0 \in Byte /\ 255 \in Byte BY DEF Byte
  <2>2. Six(At(buf)) \in Byte
    <3>1. \A k \in 1 .. 6 : At(buf)[k] (+) 0 = [j \in 1 .. 6 |-> At(buf)[j] (+) 0][k]
      OBVIOUS
    <3> HIDE DEF At
    <3> QED BY <1>1, <2>1, <3>1, SixUnmasked
  <2> HIDE DEF At
  <2> QED BY <1>2, <2>1, <2>2, XorType DEF p
<1>4. /\ m \in [0 .. n -> Byte] /\ \A i \in 0 .. n : m[i] = buf[i] (+) p
      /\ Masked(m, p) = buf
  BY <1>3, MaskedTwice
<1> HIDE DEF m
<1>5. \A k \in 1 .. 6 : At(m)[k] = At(buf)[k] (+) p BY <1>4
<1>6. Six(At(m)) = Six(At(buf))
  <2> HIDE DEF At
  <2> QED BY <1>1, <1>3, <1>5, SixUnmasked
<1>7. Pivot(m, places) = p
  <2> HIDE DEF At
  <2> QED BY <1>2, <1>6 DEF p
<1> QED BY <1>4, <1>7 DEF Pivoted, p, m

-----------------------------------------------------------------------------
\* Bytes without a bit in common are added.
LEMMA OrAdds ==
  ASSUME NEW a \in Byte, NEW b \in Byte,
         \A w \in Weights : Bit(a, w) = 0 \/ Bit(b, w) = 0
  PROVE  a | b = a + b
<1> DEFINE A(w) == Bit(a, w)
           B(w) == Bit(b, w)
           O(w) == OrBit(a, b, w)
<1>1. \A w \in Weights : A(w) \in {0, 1} /\ B(w) \in {0, 1} BY BitsOf
<1>2. \A w \in Weights : O(w) = w * (A(w) + B(w)) BY <1>1 DEF Weights, OrBit
<1>3. a | b = O(1) + O(2) + O(4) + O(8) + O(16) + O(32) + O(64) + O(128)
  BY DEF |, Or
<1>4. /\ a = A(1) + 2 * A(2) + 4 * A(4) + 8 * A(8) + 16 * A(16) + 32 * A(32) + 64 * A(64)
             + 128 * A(128)
      /\ b = B(1) + 2 * B(2) + 4 * B(4) + 8 * B(8) + 16 * B(16) + 32 * B(32) + 64 * B(64)
             + 128 * B(128)
  BY BitsOf
<1> HIDE DEF A, B, O
<1>5. /\ O(1) = A(1) + B(1) /\ O(2) = 2 * A(2) + 2 * B(2) /\ O(4) = 4 * A(4) + 4 * B(4)
      /\ O(8) = 8 * A(8) + 8 * B(8) /\ O(16) = 16 * A(16) + 16 * B(16)
      /\ O(32) = 32 * A(32) + 32 * B(32) /\ O(64) = 64 * A(64) + 64 * B(64)
      /\ O(128) = 128 * A(128) + 128 * B(128)
  BY <1>1, <1>2 DEF Weights
<1>6. /\ A(1) \in Int /\ A(2) \in Int /\ A(4) \in Int /\ A(8) \in Int /\ A(16) \in Int
      /\ A(32) \in Int /\ A(64) \in Int /\ A(128) \in Int
      /\ B(1) \in Int /\ B(2) \in Int /\ B(4) \in Int /\ B(8) \in Int /\ B(16) \in Int
      /\ B(32) \in Int /\ B(64) \in Int /\ B(128) \in Int
  BY <1>1 DEF Weights
<1> QED BY ONLY <1>3, <1>4, <1>5, <1>6

\* The high half of a byte and the low half of another.
LEMMA HalvesAdd ==
  ASSUME NEW a \in Byte, NEW b \in Byte, a % 16 = 0, b < 16
  PROVE  /\ a | b = a + b /\ b | a = a + b /\ a + b \in Byte
         /\ 16 * High(a + b) = a /\ Low(a + b) = b
<1>1. \A w \in Weights : Bit(a, w) = 0 \/ Bit(b, w) = 0
  BY DEF Weights, Bit, Byte
<1>2. a | b = a + b BY <1>1, OrAdds
<1>3. b | a = b + a BY <1>1, OrAdds
<1>4. a + b \in Byte /\ 16 * High(a + b) = a /\ Low(a + b) = b BY DEF Byte, High, Low
<1>5. b + a = a + b BY DEF Byte
<1> QED BY <1>2, <1>3, <1>4, <1>5

\* The two high bits of a byte and the six low ones of another.
LEMMA SixBitsAdd ==
  ASSUME NEW a \in Byte, NEW b \in Byte, a % 64 = 0, b < 64
  PROVE  /\ b | a = b + a /\ b + a \in Byte
         /\ 64 * ((b + a) \div 64) = a /\ (b + a) % 64 = b
<1>1. \A w \in Weights : Bit(b, w) = 0 \/ Bit(a, w) = 0
  BY DEF Weights, Bit, Byte
<1>2. b | a = b + a BY <1>1, OrAdds
<1>3. b + a \in Byte /\ 64 * ((b + a) \div 64) = a /\ (b + a) % 64 = b BY DEF Byte
<1> QED BY <1>2, <1>3

\* What a codec has no room for is not set.
LEMMA NotSet ==
  ASSUME NEW codec, NEW c \in Commands(codec)
  PROVE  /\ "param" \notin Room(codec) => c.param = 0
         /\ "arg0" \notin Room(codec) => c.arg0 = 0
         /\ "arg1" \notin Room(codec) => c.arg1 = 0
         /\ "arg2" \notin Room(codec) => c.arg2 = 0
         /\ "arg3" \notin Room(codec) => c.arg3 = 0
         /\ "id2" \notin Room(codec) => c.id2 = 0
         /\ "id3" \notin Room(codec) => c.id3 = 0
         /\ "index" \notin Room(codec) => c.index = 0
         /\ "tx" \notin Room(codec) => c.tx = 0
         /\ "restart" \notin Room(codec) => c.restart = 1
         /\ "seed0" \notin Room(codec) => c.seed0 = 0
         /\ "seed1" \notin Room(codec) => c.seed1 = 0
<1>1. \A f \in Fields \ ({"cmd"} \cup Room(codec)) : c[f] = Nothing[f] BY DEF Commands
<1> QED BY <1>1 DEF Fields, Nothing

\* Only the remote of agarce sets them.
LEMMA CommandShort ==
  ASSUME NEW codec \in Codecs, codec # "agarce_vr", NEW c \in Commands(codec)
  PROVE  Short(c)
<1>1. {"id4", "id5", "seed2", "seed3"} \cap Room(codec) = {}
  BY DEF Codecs, Room, V1Codecs, Args3, Id4
<1>2. \A f \in Fields \ ({"cmd"} \cup Room(codec)) : c[f] = Nothing[f] BY DEF Commands
<1> QED BY <1>1, <1>2 DEF Fields, Nothing, Short

-----------------------------------------------------------------------------
\* A command that a codec writes and reads back.
ReadsBack(codec, c) ==
  /\ To(codec, From(codec, c)) = Carried(codec, c)
  /\ From(codec, Carried(codec, c)) = From(codec, c)

LEMMA SmartElfinBack ==
  ASSUME NEW c \in Commands("smartelfin")
  PROVE  ReadsBack("smartelfin", c)
<1> DEFINE d == SmartElfinFrom(c)
           b == SmartElfinTo(d)
<1>1. c.arg2 = 0 /\ c.arg3 = 0 /\ c.id3 = 0 /\ c.index = 0 /\ c.restart = 1 /\ c.seed0 = 0
      /\ c.seed1 = 0
  <2>1. Room("smartelfin") = {"param", "arg0", "arg1", "id0", "id1", "id2", "tx"}
    BY DEF Room, V1Codecs, Args3, Id4
  <2> QED BY <2>1, NotSet
<1>2. /\ d[0] = c.id0 /\ d[1] = c.id1 /\ d[2] = c.id2 /\ d[3] = c.tx /\ d[4] = c.param
      /\ d[5] = c.cmd /\ d[6] = c.arg0 /\ d[7] = c.arg1
  BY DEF SmartElfinFrom, Buffer
<1> HIDE DEF d
<1>3. Whole(b) BY ZenonT(60) DEF Whole, Fields, Nothing, SmartElfinTo
<1>4. b = c
  <2>1. /\ b.cmd = d[5] /\ b.param = d[4] /\ b.arg0 = d[6] /\ b.arg1 = d[7] /\ b.arg2 = 0
        /\ b.arg3 = 0 /\ b.id0 = d[0] /\ b.id1 = d[1] /\ b.id2 = d[2] /\ b.id3 = 0
        /\ b.index = 0 /\ b.tx = d[3] /\ b.restart = 1 /\ b.seed0 = 0 /\ b.seed1 = 0
        /\ Short(b)
    BY DEF SmartElfinTo, Nothing, Short
  <2>2. Whole(c) /\ Short(c) BY CommandBytes, CommandWhole, CommandShort DEF Codecs
  <2> HIDE DEF b
  <2> QED BY <1>1, <1>2, <1>3, <2>1, <2>2, SameFields
<1>5. /\ From("smartelfin", c) = d /\ To("smartelfin", d) = b /\ Carried("smartelfin", c) = c
  BY DEF From, To, Carried, V1Codecs, d
<1> QED BY <1>4, <1>5 DEF ReadsBack

LEMMA ZhijiaV0Back ==
  ASSUME NEW c \in Commands("zhijia_v0")
  PROVE  ReadsBack("zhijia_v0", c)
<1> DEFINE d == Buffer(<<c.id0, c.arg0, c.index, c.arg1, c.cmd, c.id1,
                         c.id0 (+) c.tx, c.arg0 (+) c.arg2>>)
           b == ZhijiaV0To(ZhijiaV0From(c))
<1>1. c.param = 0 /\ c.arg3 = 0 /\ c.id2 = 0 /\ c.id3 = 0 /\ c.restart = 1 /\ c.seed0 = 0
      /\ c.seed1 = 0
  <2>1. Room("zhijia_v0") = {"arg0", "arg1", "arg2", "id0", "id1", "index", "tx"}
    BY DEF Room, V1Codecs, Args3, Id4
  <2> QED BY <2>1, NotSet
<1>2. /\ c.id0 (+) c.tx \in Byte /\ c.arg0 (+) c.arg2 \in Byte
      /\ c.id0 (+) (c.id0 (+) c.tx) = c.tx /\ c.arg0 (+) (c.arg0 (+) c.arg2) = c.arg2
  BY CommandBytes, XorType, Undone
<1>3. /\ d \in [0 .. 7 -> Byte]
      /\ d[0] = c.id0 /\ d[1] = c.arg0 /\ d[2] = c.index /\ d[3] = c.arg1
      /\ d[4] = c.cmd /\ d[5] = c.id1 /\ d[6] = c.id0 (+) c.tx /\ d[7] = c.arg0 (+) c.arg2
  BY <1>2, CommandBytes DEF Buffer
<1>4. ZhijiaV0From(c) = Pivoted0(d) BY DEF ZhijiaV0From
<1> HIDE DEF d
<1>5. Pivoted0(ZhijiaV0From(c)) = d
  <2>1. 7 \in Nat /\ 7 >= 7 OBVIOUS
  <2> QED BY <1>3, <1>4, <2>1, Pivoted0Twice
<1>6. Whole(b) BY ZenonT(60) DEF Whole, Fields, Nothing, ZhijiaV0To
<1>7. b = c
  <2>1. /\ b.cmd = d[4] /\ b.param = 0 /\ b.arg0 = d[1] /\ b.arg1 = d[3]
        /\ b.arg2 = d[1] (+) d[7] /\ b.arg3 = 0 /\ b.id0 = d[0] /\ b.id1 = d[5] /\ b.id2 = 0
        /\ b.id3 = 0 /\ b.index = d[2] /\ b.tx = d[0] (+) d[6] /\ b.restart = 1
        /\ b.seed0 = 0 /\ b.seed1 = 0 /\ Short(b)
    BY <1>5 DEF ZhijiaV0To, Nothing, Short
  <2>2. Whole(c) /\ Short(c) BY CommandBytes, CommandWhole, CommandShort DEF Codecs
  <2> HIDE DEF b
  <2> QED BY <1>1, <1>2, <1>3, <1>6, <2>1, <2>2, SameFields
<1>8. /\ To("zhijia_v0", From("zhijia_v0", c)) = b /\ Carried("zhijia_v0", c) = c
  BY DEF From, To, Carried, V1Codecs
<1> QED BY <1>7, <1>8 DEF ReadsBack

\* What ZhijiaTo reads in a buffer, and where ZhijiaFrom puts it.
ZhijiaHolds(d, c, mac) ==
  /\ d[0] = c.arg0 /\ d[2] = c.id0 /\ d[3] = c.arg1 /\ d[4] = c.tx /\ d[5] = c.arg2
  /\ d[6] = c.index /\ d[7] = mac[1] /\ d[9] = c.cmd /\ d[10] = mac[2]
  /\ d[12] = c.id1 (+) c.id0 /\ d[13] = mac[3] (+) c.tx /\ d[15] = c.id2 (+) c.cmd

LEMMA MacBytes ==
  ASSUME NEW mac \in {Mac, RemoteMac}
  PROVE  /\ mac[1] \in Byte /\ mac[2] \in Byte /\ mac[3] \in Byte
         /\ mac = <<mac[1], mac[2], mac[3]>>
BY DEF Mac, RemoteMac, Byte

LEMMA ZhijiaWritten ==
  ASSUME NEW codec, NEW c \in Commands(codec), NEW mac \in {Mac, RemoteMac}
  PROVE  LET d == ZhijiaFrom(c, mac)
         IN  /\ d \in [0 .. 16 -> Byte] /\ ZhijiaHolds(d, c, mac) /\ d[8] = 0 /\ d[11] = 0
<1> DEFINE key == c.cmd (+) c.arg0 (+) c.arg1 (+) c.arg2 (+) c.id0 (+) c.id1 (+) c.id2
                  (+) c.tx (+) c.index (+) mac[1] (+) mac[2] (+) mac[3]
           d   == ZhijiaFrom(c, mac)
<1>1. key \in Byte
  <2>1. c.cmd (+) c.arg0 (+) c.arg1 (+) c.arg2 (+) c.id0 (+) c.id1 \in Byte
    BY CommandBytes, XorType
  <2>2. \A x \in Byte : x (+) c.id2 (+) c.tx (+) c.index (+) mac[1] (+) mac[2] (+) mac[3] \in Byte
    BY CommandBytes, MacBytes, XorType
  <2> QED BY <2>1, <2>2
<1>2. /\ c.id1 (+) c.id0 \in Byte /\ mac[3] (+) c.tx \in Byte /\ c.id2 (+) c.cmd \in Byte
      /\ 0 \in Byte
  <2>1. 0 \in Byte BY DEF Byte
  <2> QED BY <2>1, CommandBytes, MacBytes, XorType
<1>3. d = Buffer(<<c.arg0, key, c.id0, c.arg1, c.tx, c.arg2, c.index, mac[1], 0, c.cmd,
                   mac[2], 0, c.id1 (+) c.id0, mac[3] (+) c.tx, 0, c.id2 (+) c.cmd, 0>>)
  BY DEF ZhijiaFrom
<1> HIDE DEF key, d
<1>4. d \in [0 .. 16 -> Byte]
  BY <1>1, <1>2, <1>3, CommandBytes, MacBytes DEF Buffer
<1>5. ZhijiaHolds(d, c, mac) /\ d[8] = 0 /\ d[11] = 0
  BY <1>3 DEF Buffer, ZhijiaHolds
<1> QED BY <1>4, <1>5 DEF d

LEMMA ZhijiaRead ==
  ASSUME NEW codec \in {"zhijia_v1", "zhijia_v2", "zhijia_vr1"}, NEW c \in Commands(codec),
         NEW mac \in {Mac, RemoteMac}, NEW d, ZhijiaHolds(d, c, mac)
  PROVE  ZhijiaTo(d, mac) = c
<1> DEFINE b == ZhijiaTo(d, mac)
<1>1. c.param = 0 /\ c.arg3 = 0 /\ c.id3 = 0 /\ c.restart = 1 /\ c.seed0 = 0 /\ c.seed1 = 0
  <2>1. /\ "param" \notin Room(codec) /\ "arg3" \notin Room(codec) /\ "id3" \notin Room(codec)
        /\ "restart" \notin Room(codec) /\ "seed0" \notin Room(codec)
        /\ "seed1" \notin Room(codec)
    BY DEF Room, V1Codecs, Args3, Id4
  <2> QED BY <2>1, NotSet
<1>2. /\ d[12] (+) d[2] = c.id1 /\ d[13] (+) d[4] = mac[3] /\ d[15] (+) d[9] = c.id2
  BY CommandBytes, MacBytes, Undone DEF ZhijiaHolds
<1>3. b = [Nothing EXCEPT !.cmd = d[9], !.arg0 = d[0], !.arg1 = d[3], !.arg2 = d[5],
                          !.id0 = d[2], !.id1 = d[12] (+) d[2], !.id2 = d[15] (+) d[9],
                          !.index = d[6], !.tx = d[4]]
  BY <1>2, MacBytes DEF ZhijiaTo, ZhijiaHolds
<1> HIDE DEF b
<1>4. Whole(b) BY <1>3, ZenonT(60) DEF Whole, Fields, Nothing
<1>5. /\ b.cmd = d[9] /\ b.param = 0 /\ b.arg0 = d[0] /\ b.arg1 = d[3] /\ b.arg2 = d[5]
      /\ b.arg3 = 0 /\ b.id0 = d[2] /\ b.id1 = d[12] (+) d[2] /\ b.id2 = d[15] (+) d[9]
      /\ b.id3 = 0 /\ b.index = d[6] /\ b.tx = d[4] /\ b.restart = 1 /\ b.seed0 = 0
      /\ b.seed1 = 0 /\ Short(b)
  BY <1>3 DEF Nothing, Short
<1>6. Whole(c) /\ Short(c) BY CommandBytes, CommandWhole, CommandShort DEF Codecs
<1> QED BY <1>1, <1>2, <1>4, <1>5, <1>6, SameFields DEF ZhijiaHolds, b

LEMMA ZhijiaV1Back ==
  ASSUME NEW c \in Commands("zhijia_v1")
  PROVE  ReadsBack("zhijia_v1", c)
<1> DEFINE e == ZhijiaFrom(c, Mac)
           d == [e EXCEPT ![14] = e[7]]
<1>1. /\ e \in [0 .. 16 -> Byte] /\ ZhijiaHolds(e, c, Mac) /\ e[8] = 0 /\ e[11] = 0
  BY ZhijiaWritten
<1> HIDE DEF e
<1>2. /\ d \in [0 .. 16 -> Byte] /\ d[8] = 0 /\ d[11] = 0 /\ d[14] = d[7]
      /\ \A i \in (0 .. 16) \ {14} : d[i] = e[i]
  BY <1>1
<1>3. ZhijiaV1From(c, Mac) = Pivoted(d, V1Places) BY DEF ZhijiaV1From, e
<1> HIDE DEF d
<1>4. Pivoted(Pivoted(d, V1Places), V1Places) = d
  <2>1. 16 \in Nat /\ \A k \in 1 .. 6 : V1Places[k] \in 0 .. 16 BY DEF V1Places
  <2> QED BY <1>2, <2>1, PivotedTwice
<1>5. ZhijiaHolds(d, c, Mac) BY <1>1, <1>2 DEF ZhijiaHolds
<1>6. ZhijiaV1To(ZhijiaV1From(c, Mac), Mac) = c
  BY <1>2, <1>3, <1>4, <1>5, ZhijiaRead DEF ZhijiaV1To
<1>7. /\ To("zhijia_v1", From("zhijia_v1", c)) = ZhijiaV1To(ZhijiaV1From(c, Mac), Mac)
      /\ Carried("zhijia_v1", c) = c
  BY DEF From, To, Carried, V1Codecs
<1> QED BY <1>6, <1>7 DEF ReadsBack

LEMMA ZhijiaV2Back ==
  ASSUME NEW c \in Commands("zhijia_v2")
  PROVE  ReadsBack("zhijia_v2", c)
<1> DEFINE e == ZhijiaFrom(c, Mac)
           x == e[1] (+) e[9]
           y == e[2] (+) e[3] (+) e[4] (+) e[7]
           z == e[2] (+) e[3] (+) e[4] (+) e[9]
           d == [e EXCEPT ![1] = x, ![8] = y, ![14] = z]
<1>1. /\ e \in [0 .. 16 -> Byte] /\ ZhijiaHolds(e, c, Mac) /\ e[11] = 0
  BY ZhijiaWritten
<1> HIDE DEF e
<1>2. x \in Byte /\ y \in Byte /\ z \in Byte
  <2>1. /\ e[1] \in Byte /\ e[2] \in Byte /\ e[3] \in Byte /\ e[4] \in Byte
        /\ e[7] \in Byte /\ e[9] \in Byte
    BY <1>1
  <2> QED BY <2>1, XorType
<1>3. /\ d \in [0 .. 16 -> Byte] /\ d[8] = y /\ d[11] = 0 /\ d[14] = z
      /\ \A i \in (0 .. 16) \ {1, 8, 14} : d[i] = e[i]
  <2> HIDE DEF x, y, z
  <2> QED BY <1>1, <1>2
<1>4. ZhijiaV2From(c, Mac) = Pivoted(d, V2Places) BY DEF ZhijiaV2From, e
<1> HIDE DEF d
<1>5. Pivoted(Pivoted(d, V2Places), V2Places) = d
  <2>1. 16 \in Nat /\ \A k \in 1 .. 6 : V2Places[k] \in 0 .. 16 BY DEF V2Places
  <2> QED BY <1>3, <2>1, PivotedTwice
<1>6. ZhijiaHolds(d, c, Mac) BY <1>1, <1>3 DEF ZhijiaHolds
<1>7. /\ d[8] = d[2] (+) d[3] (+) d[4] (+) d[7] /\ d[11] = 0
      /\ d[14] = d[2] (+) d[3] (+) d[4] (+) d[9]
  <2>1. /\ d[2] = e[2] /\ d[3] = e[3] /\ d[4] = e[4] /\ d[7] = e[7] /\ d[9] = e[9]
    BY <1>3
  <2> QED BY <1>3, <2>1
<1>8. ZhijiaV2To(ZhijiaV2From(c, Mac), Mac) = c
  BY <1>4, <1>5, <1>6, <1>7, ZhijiaRead DEF ZhijiaV2To
<1>9. /\ To("zhijia_v2", From("zhijia_v2", c)) = ZhijiaV2To(ZhijiaV2From(c, Mac), Mac)
      /\ Carried("zhijia_v2", c) = c
  BY DEF From, To, Carried, V1Codecs
<1> QED BY <1>8, <1>9 DEF ReadsBack

\* The mask of the remote, 201 (+) 6, is the byte of arg2 under the mask.
LEMMA ZhijiaRemoteBack ==
  ASSUME NEW c \in Commands("zhijia_vr1")
  PROVE  ReadsBack("zhijia_vr1", c)
<1> DEFINE p == 201 (+) 6
           e == ZhijiaFrom(c, RemoteMac)
           d == [e EXCEPT ![1] = e[1] (+) 4, ![8] = 1, ![11] = 2, ![14] = e[2], ![16] = 6]
<1>1. /\ e \in [0 .. 16 -> Byte] /\ ZhijiaHolds(e, c, RemoteMac)
  BY ZhijiaWritten
<1>2. p \in Byte /\ 1 \in Byte /\ 2 \in Byte /\ 4 \in Byte /\ 6 \in Byte
  <2>1. 201 \in Byte /\ 1 \in Byte /\ 2 \in Byte /\ 4 \in Byte /\ 6 \in Byte BY DEF Byte
  <2> QED BY <2>1, XorType
<1> HIDE DEF e, p
<1>3. e[1] (+) 4 \in Byte
  <2>1. e[1] \in Byte BY <1>1
  <2> QED BY <1>2, <2>1, XorType
<1>4. /\ d \in [0 .. 16 -> Byte] /\ d[8] = 1 /\ d[11] = 2 /\ d[14] = d[2]
      /\ \A i \in (0 .. 16) \ {1, 8, 11, 14, 16} : d[i] = e[i]
  BY <1>1, <1>2, <1>3
<1>5. ZhijiaRemoteFrom(c, RemoteMac) = Masked(d, p) BY DEF ZhijiaRemoteFrom, e, p
<1> HIDE DEF d
<1>6. /\ Masked(d, p)[5] = d[5] (+) p /\ Masked(Masked(d, p), p) = d
  <2>1. 16 \in Nat /\ 5 \in 0 .. 16 OBVIOUS
  <2>2. d \in [0 .. 16 -> Byte] BY <1>4
  <2>3. /\ \A i \in 0 .. 16 : Masked(d, p)[i] = d[i] (+) p
        /\ Masked(Masked(d, p), p) = d
    <3>1. p \in Byte BY <1>2
    <3> QED BY ONLY <2>1, <2>2, <3>1, MaskedTwice
  <2> QED BY <2>1, <2>3
<1>7. Masked(d, p)[5] = p
  <2>1. Room("zhijia_vr1") = {"arg0", "arg1", "id0", "id1", "id2", "index", "tx"}
    BY DEF Room, V1Codecs, Args3, Id4
  <2>2. c.arg2 = 0 BY <2>1, NotSet
  <2>3. d[5] = 0 BY <1>1, <1>4, <2>2 DEF ZhijiaHolds
  <2> QED BY <1>2, <1>6, <2>3, XorSelf
<1>8. ZhijiaHolds(d, c, RemoteMac) BY <1>1, <1>4 DEF ZhijiaHolds
<1>9. ZhijiaRemoteTo(ZhijiaRemoteFrom(c, RemoteMac), RemoteMac) = c
  BY <1>4, <1>5, <1>6, <1>7, <1>8, ZhijiaRead DEF ZhijiaRemoteTo
<1>10. /\ To("zhijia_vr1", From("zhijia_vr1", c))
             = ZhijiaRemoteTo(ZhijiaRemoteFrom(c, RemoteMac), RemoteMac)
       /\ Carried("zhijia_vr1", c) = c
  BY DEF From, To, Carried, V1Codecs
<1> QED BY <1>9, <1>10 DEF ReadsBack

LEMMA FanLampV2Back ==
  ASSUME NEW c \in Commands("fanlamp_v2")
  PROVE  ReadsBack("fanlamp_v2", c)
<1> DEFINE d == FanLampV2From(c, Device)
           b == FanLampV2To(d, Device)
<1>1. /\ c.arg3 = 0 /\ c.restart = 1
  <2>1. Room("fanlamp_v2")
          = {"param", "arg0", "arg1", "arg2", "id0", "id1", "id2", "id3", "index", "tx", "seed0", "seed1"}
    BY DEF Room, V1Codecs, Args3, Id4
  <2> QED BY <2>1, NotSet
<1>2. /\ Device = 256 * d[2] + d[1] /\ d[0] = c.tx /\ d[3] = c.id0 /\ d[4] = c.id1
      /\ d[5] = c.id2 /\ d[6] = c.id3 /\ d[7] = c.index /\ d[8] = c.cmd
      /\ d[10] = c.param /\ d[11] = c.arg0 /\ d[12] = c.arg1 /\ d[13] = c.arg2
      /\ d[15] = c.seed0 /\ d[16] = c.seed1
  BY DEF FanLampV2From, Buffer, Device
<1> HIDE DEF d
<1>3. Whole(b) BY <1>2, ZenonT(150) DEF Whole, Fields, Nothing, FanLampV2To
<1>4. b = c
  <2>1. /\ b.cmd = d[8] /\ b.param = d[10] /\ b.arg0 = d[11] /\ b.arg1 = d[12]
        /\ b.arg2 = d[13] /\ b.arg3 = 0 /\ b.id0 = d[3] /\ b.id1 = d[4] /\ b.id2 = d[5]
        /\ b.id3 = d[6] /\ b.index = d[7] /\ b.tx = d[0] /\ b.restart = 1
        /\ b.seed0 = d[15] /\ b.seed1 = d[16] /\ Short(b)
    BY <1>2 DEF FanLampV2To, Nothing, Short
  <2>2. Whole(c) /\ Short(c) BY CommandBytes, CommandWhole, CommandShort DEF Codecs
  <2> HIDE DEF b
  <2> QED BY <1>1, <1>2, <1>3, <2>1, <2>2, SameFields
<1>5. /\ From("fanlamp_v2", c) = d /\ To("fanlamp_v2", d) = b /\ Carried("fanlamp_v2", c) = c
  BY DEF From, To, Carried, V1Codecs, d
<1> QED BY <1>4, <1>5 DEF ReadsBack

LEMMA ZhimeiV2Back ==
  ASSUME NEW c \in Commands("zhimei_v2")
  PROVE  ReadsBack("zhimei_v2", c)
<1> DEFINE d == Buffer(<<c.id1, c.arg0, c.index, c.arg1, c.cmd, c.id0,
                         c.tx (+) c.id1, c.arg0 (+) c.arg2>>)
           b == ZhimeiV2To(ZhimeiV2From(c))
<1>1. /\ c.param = 0 /\ c.arg3 = 0 /\ c.id2 = 0 /\ c.id3 = 0 /\ c.restart = 1
      /\ c.seed0 = 0 /\ c.seed1 = 0
  <2>1. Room("zhimei_v2") = {"arg0", "arg1", "arg2", "id0", "id1", "index", "tx"}
    BY DEF Room, V1Codecs, Args3, Id4
  <2> QED BY <2>1, NotSet
<1>2. /\ c.tx (+) c.id1 \in Byte /\ c.arg0 (+) c.arg2 \in Byte
      /\ (c.tx (+) c.id1) (+) c.id1 = c.tx /\ (c.arg0 (+) c.arg2) (+) c.arg0 = c.arg2
  BY CommandBytes, XorType, Undone
<1>3. /\ d \in [0 .. 7 -> Byte]
      /\ d[0] = c.id1 /\ d[1] = c.arg0 /\ d[2] = c.index /\ d[3] = c.arg1
      /\ d[4] = c.cmd /\ d[5] = c.id0 /\ d[6] = c.tx (+) c.id1 /\ d[7] = c.arg0 (+) c.arg2
  BY <1>2, CommandBytes DEF Buffer
<1>4. ZhimeiV2From(c) = Pivoted0(d) BY DEF ZhimeiV2From
<1> HIDE DEF d
<1>5. Pivoted0(ZhimeiV2From(c)) = d
  <2>1. 7 \in Nat /\ 7 >= 7 OBVIOUS
  <2> QED BY <1>3, <1>4, <2>1, Pivoted0Twice
<1>6. Whole(b) BY <1>5, ZenonT(150) DEF Whole, Fields, Nothing, ZhimeiV2To
<1>7. b = c
  <2>1. /\ b.cmd = d[4] /\ b.param = 0 /\ b.arg0 = d[1] /\ b.arg1 = d[3]
        /\ b.arg2 = d[7] (+) d[1] /\ b.arg3 = 0 /\ b.id0 = d[5] /\ b.id1 = d[0]
        /\ b.id2 = 0 /\ b.id3 = 0 /\ b.index = d[2] /\ b.tx = d[6] (+) d[0]
        /\ b.restart = 1 /\ b.seed0 = 0 /\ b.seed1 = 0 /\ Short(b)
    BY <1>5 DEF ZhimeiV2To, Nothing, Short
  <2>2. Whole(c) /\ Short(c) BY CommandBytes, CommandWhole, CommandShort DEF Codecs
  <2> HIDE DEF b
  <2> QED BY <1>1, <1>2, <1>3, <1>6, <2>1, <2>2, SameFields
<1>8. /\ To("zhimei_v2", From("zhimei_v2", c)) = b /\ Carried("zhimei_v2", c) = c
  BY DEF From, To, Carried, V1Codecs
<1> QED BY <1>7, <1>8 DEF ReadsBack

LEMMA RemoteBack ==
  ASSUME NEW c \in Commands("remote")
  PROVE  ReadsBack("remote", c)
<1> DEFINE e == Buffer(<<c.arg0, c.id0, c.id1, c.id2, c.id3, c.cmd | c.arg1, c.tx, 0>>)
           d == RemoteFrom(c)
           b == RemoteTo(d)
<1>1. /\ c.param = 0 /\ c.arg2 = 0 /\ c.arg3 = 0 /\ c.index = 0 /\ c.restart = 1
      /\ c.seed0 = 0 /\ c.seed1 = 0
  <2>1. Room("remote") = {"arg0", "arg1", "id0", "id1", "id2", "id3", "tx"}
    BY DEF Room, V1Codecs, Args3, Id4
  <2> QED BY <2>1, NotSet
<1>2. /\ c.cmd | c.arg1 = c.cmd + c.arg1 /\ 64 * ((c.cmd + c.arg1) \div 64) = c.arg1
      /\ (c.cmd + c.arg1) % 64 = c.cmd
  <2>1. c.cmd < 64 /\ c.arg1 % 64 = 0 BY DEF Commands
  <2> QED BY <2>1, CommandBytes, SixBitsAdd
<1>3. /\ DOMAIN e = 0 .. 7 /\ e = [i \in 0 .. 7 |-> e[i]]
      /\ e[0] = c.arg0 /\ e[1] = c.id0 /\ e[2] = c.id1 /\ e[3] = c.id2 /\ e[4] = c.id3
      /\ e[5] = c.cmd + c.arg1 /\ e[6] = c.tx
  BY <1>2 DEF Buffer
<1>4. d = [e EXCEPT ![7] = SumOf(e, 0, 6)] BY DEF RemoteFrom
<1> HIDE DEF e, d
<1>5. d[7] = SumOf(e, 0, 6) /\ \A i \in 0 .. 6 : d[i] = e[i] BY <1>3, <1>4
<1>6. SumOf(d, 0, 6) = SumOf(e, 0, 6)
  <2>1. [n \in 1 .. 6 - 0 + 1 |-> d[0 + n - 1]] = [n \in 1 .. 6 - 0 + 1 |-> e[0 + n - 1]]
    BY <1>5
  <2> QED BY <2>1 DEF SumOf
<1>7. b = [Nothing EXCEPT !.cmd = d[5] % 64, !.arg0 = d[0], !.arg1 = 64 * (d[5] \div 64),
                          !.id0 = d[1], !.id1 = d[2], !.id2 = d[3], !.id3 = d[4], !.tx = d[6]]
  BY <1>5, <1>6 DEF RemoteTo
<1> HIDE DEF b
<1>8. Whole(b) BY <1>7, ZenonT(150) DEF Whole, Fields, Nothing
<1>9. /\ b.cmd = d[5] % 64 /\ b.param = 0 /\ b.arg0 = d[0]
      /\ b.arg1 = 64 * (d[5] \div 64) /\ b.arg2 = 0 /\ b.arg3 = 0 /\ b.id0 = d[1]
      /\ b.id1 = d[2] /\ b.id2 = d[3] /\ b.id3 = d[4] /\ b.index = 0 /\ b.tx = d[6]
      /\ b.restart = 1 /\ b.seed0 = 0 /\ b.seed1 = 0 /\ Short(b)
  BY <1>7 DEF Nothing, Short
<1>10. b = c
  <2>1. /\ d[0] = c.arg0 /\ d[1] = c.id0 /\ d[2] = c.id1 /\ d[3] = c.id2 /\ d[4] = c.id3
        /\ d[5] = c.cmd + c.arg1 /\ d[6] = c.tx
    BY <1>3, <1>5
  <2>2. Whole(c) /\ Short(c) BY CommandBytes, CommandWhole, CommandShort DEF Codecs
  <2> QED BY <1>1, <1>2, <1>8, <1>9, <2>1, <2>2, SameFields
<1>11. /\ From("remote", c) = d /\ To("remote", d) = b /\ Carried("remote", c) = c
  BY DEF From, To, Carried, V1Codecs, d, b
<1> QED BY <1>10, <1>11 DEF ReadsBack

\* An argument at 0 is read as what stands for it.
LEMMA AgarceRemoteBack ==
  ASSUME NEW c \in Commands("agarce_vr")
  PROVE  ReadsBack("agarce_vr", c)
<1> DEFINE x == IF c.arg0 # 0 THEN c.arg0 ELSE c.tx (+) c.cmd
           y == IF c.arg1 # 0 THEN c.arg1 ELSE 255
           a == [c EXCEPT !.arg0 = x, !.arg1 = y]
           d == AgarceRemoteFrom(c)
           b == AgarceRemoteTo(d)
<1>1. /\ c.param = 0 /\ c.arg3 = 0 /\ c.index = 0
  <2>1. Room("agarce_vr")
          = {"arg0", "arg1", "arg2", "id0", "id1", "id2", "id3", "tx", "restart", "seed0", "seed1",
              "id4", "id5", "seed2", "seed3"}
    BY DEF Room, V1Codecs, Args3, Id4
  <2> QED BY <2>1, NotSet
<1>2. d = Buffer(<<c.seed0, c.seed1, c.seed2, c.seed3, c.tx, c.restart, 0, 0,
                   c.id0, c.id1, c.id2, c.id3, c.id4, c.id5, 0, c.cmd, x, y, c.arg2>>)
  BY DEF AgarceRemoteFrom
<1>3. Whole(c) BY CommandBytes, CommandWhole
<1>4. /\ Whole(a) /\ a.arg0 = x /\ a.arg1 = y /\ a.cmd = c.cmd /\ a.param = c.param
      /\ a.arg2 = c.arg2 /\ a.arg3 = c.arg3 /\ a.id0 = c.id0 /\ a.id1 = c.id1
      /\ a.id2 = c.id2 /\ a.id3 = c.id3 /\ a.index = c.index /\ a.tx = c.tx
      /\ a.restart = c.restart /\ a.seed0 = c.seed0 /\ a.seed1 = c.seed1
      /\ a.id4 = c.id4 /\ a.id5 = c.id5 /\ a.seed2 = c.seed2 /\ a.seed3 = c.seed3
  <2> HIDE DEF x, y
  <2> QED BY <1>3 DEF Whole, Fields
<1>5. AgarceRemoteFrom(a) = d
  <2>1. x = (IF a.arg0 # 0 THEN a.arg0 ELSE a.tx (+) a.cmd) /\ y = (IF a.arg1 # 0 THEN a.arg1 ELSE 255)
    <3> HIDE DEF a
    <3> QED BY <1>4
  <2> HIDE DEF a, x, y, d
  <2> QED BY <1>2, <1>4, <2>1 DEF AgarceRemoteFrom
<1>6. /\ d[0] = c.seed0 /\ d[1] = c.seed1 /\ d[4] = c.tx /\ d[5] = c.restart /\ d[8] = c.id0
      /\ d[9] = c.id1 /\ d[10] = c.id2 /\ d[11] = c.id3 /\ d[15] = c.cmd /\ d[16] = x
      /\ d[17] = y /\ d[18] = c.arg2 /\ d[12] = c.id4 /\ d[13] = c.id5 /\ d[2] = c.seed2
      /\ d[3] = c.seed3
  <2> HIDE DEF x, y, d
  <2> QED BY <1>2 DEF Buffer
<1> HIDE DEF x, y, a, d
<1>7. Whole(b) BY ZenonT(150) DEF Whole, Fields, Nothing, AgarceRemoteTo
<1>8. b = a
  <2>1. /\ b.cmd = d[15] /\ b.param = 0 /\ b.arg0 = d[16] /\ b.arg1 = d[17]
        /\ b.arg2 = d[18] /\ b.arg3 = 0 /\ b.id0 = d[8] /\ b.id1 = d[9] /\ b.id2 = d[10]
        /\ b.id3 = d[11] /\ b.index = 0 /\ b.tx = d[4] /\ b.restart = d[5]
        /\ b.seed0 = d[0] /\ b.seed1 = d[1] /\ b.id4 = d[12] /\ b.id5 = d[13]
        /\ b.seed2 = d[2] /\ b.seed3 = d[3]
    BY DEF AgarceRemoteTo, Nothing
  <2> HIDE DEF b
  <2> QED BY <1>1, <1>4, <1>6, <1>7, <2>1, SameFields
<1>9. /\ From("agarce_vr", c) = d /\ To("agarce_vr", d) = b
      /\ From("agarce_vr", a) = AgarceRemoteFrom(a)
  BY DEF From, To, V1Codecs, d
<1>10. Carried("agarce_vr", c) = a
  <2>1. /\ x = IF c.arg0 = 0 THEN c.tx (+) c.cmd ELSE c.arg0
        /\ y = IF c.arg1 = 0 THEN 255 ELSE c.arg1
    BY DEF x, y
  <2>2. Carried("agarce_vr", c)
          = [c EXCEPT !.arg0 = IF c.arg0 = 0 THEN c.tx (+) c.cmd ELSE c.arg0,
                      !.arg1 = IF c.arg1 = 0 THEN 255 ELSE c.arg1]
    BY DEF Carried, V1Codecs
  <2> QED BY <2>1, <2>2 DEF a
<1> QED BY <1>5, <1>8, <1>9, <1>10 DEF ReadsBack

\* A buffer of two lists of bytes.
LEMMA TwoLists ==
  ASSUME NEW s \in Seq(Byte), NEW t \in Seq(Byte), Len(s) = 8, Len(t) = 6
  PROVE  /\ \A i \in 0 .. 7 : Buffer(s \o t)[i] = s[i + 1]
         /\ \A i \in 8 .. 13 : Buffer(s \o t)[i] = t[i - 7]
<1> DEFINE u == s \o t
           d == Buffer(u)
<1>1. Len(u) = Len(s) + Len(t) BY ConcatProperties
<1>2. \A i \in 1 .. Len(s) + Len(t) : u[i] = IF i <= Len(s) THEN s[i] ELSE t[i - Len(s)]
  BY ConcatProperties, Zenon
<1>3. Len(s) + Len(t) = 14 OBVIOUS
<1> HIDE DEF u
<1>4. Len(u) = 14 BY <1>1, <1>3
<1>5. \A i \in 1 .. 14 : u[i] = IF i <= 8 THEN s[i] ELSE t[i - 8]
  BY <1>2, <1>3, Zenon
<1>6. \A i \in 0 .. 13 : d[i] = u[i + 1] BY <1>4 DEF Buffer
<1> HIDE DEF d
<1>7. ASSUME NEW i \in 0 .. 7 PROVE d[i] = s[i + 1]
  <2>1. i + 1 \in 1 .. 14 /\ i + 1 <= 8 /\ i \in 0 .. 13 OBVIOUS
  <2>2. d[i] = u[i + 1] BY <1>6, <2>1, Zenon
  <2>3. u[i + 1] = s[i + 1] BY <1>5, <2>1, Zenon
  <2> QED BY <2>2, <2>3, Zenon
<1>8. ASSUME NEW i \in 8 .. 13 PROVE d[i] = t[i - 7]
  <2>1. i + 1 \in 1 .. 14 /\ ~(i + 1 <= 8) /\ (i + 1) - 8 = i - 7 /\ i \in 0 .. 13 OBVIOUS
  <2>2. d[i] = u[i + 1] BY <1>6, <2>1, Zenon
  <2>3. u[i + 1] = t[(i + 1) - 8] BY <1>5, <2>1, Zenon
  <2> QED BY <2>1, <2>2, <2>3, Zenon
<1> QED BY <1>7, <1>8 DEF d, u

R0Plain(c) ==
  <<c.cmd, c.id0, c.id1 | c.index, c.arg0, c.arg1, c.arg2, c.arg3, c.param>>

R0Answer(d) ==
  [Nothing EXCEPT !.cmd = d[0], !.param = d[7], !.arg0 = d[3], !.arg1 = d[4],
                  !.arg2 = d[5], !.arg3 = d[6], !.id0 = d[1],
                  !.id1 = 16 * High(d[2]), !.index = Low(d[2])]

\* The fields of R0 and R1 are read whatever is in their trailers.
LEMMA FanLampR0Read ==
  ASSUME NEW codec \in {"fanlamp_r0", "fanlamp_r1"}, NEW c \in Commands(codec),
         NEW t \in Seq(Byte), Len(t) = 6, NEW d,
         d = Buffer(R0Plain(c) \o t)
  PROVE  /\ \A i \in 8 .. 13 : d[i] = t[i - 7]
         /\ c = R0Answer(d)
<1> DEFINE s == R0Plain(c)
           b == R0Answer(d)
<1>1. c.id2 = 0 /\ c.id3 = 0 /\ c.tx = 0 /\ c.restart = 1 /\ c.seed0 = 0 /\ c.seed1 = 0
  <2>1. Room(codec) = {"param", "arg0", "arg1", "arg2", "arg3", "id0", "id1", "index"}
    BY DEF Room, V1Codecs, Args3, Id4
  <2> QED BY <2>1, NotSet
<1>2. /\ c.id1 | c.index \in Byte /\ 16 * High(c.id1 | c.index) = c.id1
      /\ Low(c.id1 | c.index) = c.index
  <2>1. c.index < 16 /\ c.id1 % 16 = 0 BY DEF Commands, Low
  <2> QED BY <2>1, CommandBytes, HalvesAdd
<1>3. s \in Seq(Byte) /\ Len(s) = 8 BY <1>2, CommandBytes DEF R0Plain
<1>4. /\ s[1] = c.cmd /\ s[2] = c.id0 /\ s[3] = c.id1 | c.index /\ s[4] = c.arg0
      /\ s[5] = c.arg1 /\ s[6] = c.arg2 /\ s[7] = c.arg3 /\ s[8] = c.param
  BY DEF R0Plain
<1>5. d = Buffer(s \o t) OBVIOUS
<1> HIDE DEF s
<1>6. /\ \A i \in 0 .. 7 : d[i] = s[i + 1]
      /\ \A i \in 8 .. 13 : d[i] = t[i - 7]
  BY ONLY <1>3, <1>5, t \in Seq(Byte), Len(t) = 6, TwoLists
<1>7. /\ d[0] = c.cmd /\ d[1] = c.id0 /\ d[2] = c.id1 | c.index /\ d[3] = c.arg0
      /\ d[4] = c.arg1 /\ d[5] = c.arg2 /\ d[6] = c.arg3 /\ d[7] = c.param
  BY ONLY <1>4, <1>6
<1>8. Whole(b) BY ZenonT(150) DEF R0Answer, Whole, Fields, Nothing
<1>9. c = b
  <2>1. /\ b.cmd = d[0] /\ b.param = d[7] /\ b.arg0 = d[3] /\ b.arg1 = d[4]
        /\ b.arg2 = d[5] /\ b.arg3 = d[6] /\ b.id0 = d[1] /\ b.id1 = 16 * High(d[2])
        /\ b.id2 = 0 /\ b.id3 = 0 /\ b.index = Low(d[2]) /\ b.tx = 0 /\ b.restart = 1
        /\ b.seed0 = 0 /\ b.seed1 = 0 /\ Short(b)
    BY DEF R0Answer, Nothing, Short
  <2>2. Whole(c) /\ Short(c) BY CommandBytes, CommandWhole, CommandShort DEF Codecs
  <2> HIDE DEF b
  <2> QED BY <1>1, <1>2, <1>7, <1>8, <2>1, <2>2, SameFields
<1> QED BY <1>6, <1>9

LEMMA FanLampR0Back ==
  ASSUME NEW c \in Commands("fanlamp_r0")
  PROVE  ReadsBack("fanlamp_r0", c)
<1> DEFINE t == IF c.arg3 = 0
                THEN <<IF c.arg2 # 0 THEN 5 ELSE 2, 0, 0, 0, IF c.arg2 # 0 THEN 2 ELSE 1, 0>>
                ELSE <<c.id1, c.id0, 0, 0, c.arg3, IF c.arg3 = 1 THEN 1 ELSE 0>>
           d == FanLampR0From(c, FALSE)
<1>1. t \in Seq(Byte) /\ Len(t) = 6
  <2> DEFINE x == IF c.arg3 = 1 THEN 1 ELSE 0
             y == IF c.arg2 # 0 THEN 5 ELSE 2
             z == IF c.arg2 # 0 THEN 2 ELSE 1
  <2>1. 0 \in Byte /\ x \in Byte /\ y \in Byte /\ z \in Byte BY DEF Byte
  <2>2. t = IF c.arg3 = 0 THEN <<y, 0, 0, 0, z, 0>> ELSE <<c.id1, c.id0, 0, 0, c.arg3, x>>
    OBVIOUS
  <2> HIDE DEF t, x, y, z
  <2> QED BY <2>1, <2>2, CommandBytes
<1>2. d = Buffer(R0Plain(c) \o t)
  BY DEF FanLampR0From, R0Plain
<1> HIDE DEF t, d
<1>3. c = R0Answer(d) BY <1>1, <1>2, FanLampR0Read
<1>4. /\ From("fanlamp_r0", c) = d /\ To("fanlamp_r0", d) = R0Answer(d)
      /\ Carried("fanlamp_r0", c) = c
  BY DEF From, To, Carried, V1Codecs, FanLampR0To, R0Answer, d
<1> QED BY <1>3, <1>4 DEF ReadsBack

LEMMA FanLampR1Back ==
  ASSUME NEW c \in Commands("fanlamp_r1")
  PROVE  ReadsBack("fanlamp_r1", c)
<1> DEFINE t == <<0, 0, 0, 0, 0, 0>>
           d == FanLampR0From(c, TRUE)
<1>1. t \in Seq(Byte) /\ Len(t) = 6 /\ \A i \in 1 .. 6 : t[i] = 0 BY DEF Byte
<1>2. d = Buffer(R0Plain(c) \o t)
  BY DEF FanLampR0From, R0Plain
<1> HIDE DEF t, d
<1>3. /\ \A i \in 8 .. 13 : d[i] = t[i - 7]
      /\ c = R0Answer(d)
  BY <1>1, <1>2, FanLampR0Read
<1>4. \A i \in 8 .. 13 : d[i] = 0
  <2>1. \A i \in 8 .. 13 : i - 7 \in 1 .. 6 OBVIOUS
  <2> QED BY <1>1, <1>3, <2>1
<1>5. FanLampR0To(d, TRUE) = c BY <1>3, <1>4 DEF FanLampR0To, R0Answer
<1>6. /\ From("fanlamp_r1", c) = d /\ To("fanlamp_r1", d) = FanLampR0To(d, TRUE)
      /\ Carried("fanlamp_r1", c) = c
  BY DEF From, To, Carried, V1Codecs, d
<1> QED BY <1>5, <1>6 DEF ReadsBack

\* The nibbles of a pairing and of another command, moved and put back.
LEMMA AgarceBack ==
  ASSUME NEW c \in Commands("agarce")
  PROVE  ReadsBack("agarce", c)
<1> DEFINE e == AgarcePlain(c, 131)
           d == AgarceFrom(c, 131)
           b == AgarceTo(d, 131)
           pairing == c.cmd = 0
           a == IF pairing THEN [c EXCEPT !.arg1 = 0, !.arg2 = 0] ELSE c
           Answer(f) ==
             [Nothing EXCEPT !.cmd = 16 * High(f[11]), !.arg0 = f[12], !.arg1 = f[13],
                             !.arg2 = f[14], !.tx = f[3], !.restart = f[4], !.id0 = f[7],
                             !.id1 = f[8], !.id2 = f[9], !.id3 = f[10], !.index = f[15],
                             !.seed0 = f[1], !.seed1 = f[2]]
           Together(f) ==
             /\ f[11] = (IF pairing THEN 0 ELSE c.cmd + Low(c.index)) /\ f[15] = c.index
             /\ f[13] = (IF pairing THEN 0 ELSE c.arg1)
             /\ f[14] = (IF pairing THEN 0 ELSE c.arg2)
             /\ \A i \in (1 .. 10) \cup {12} : f[i] = e[i]
<1>1. /\ c.param = 0 /\ c.arg3 = 0
  <2>1. Room("agarce")
          = {"arg0", "arg1", "arg2", "id0", "id1", "id2", "id3", "index", "tx", "restart", "seed0", "seed1"}
    BY DEF Room, V1Codecs, Args3, Id4
  <2> QED BY <2>1, NotSet
<1>2. /\ e = [i \in 0 .. 15 |-> e[i]] /\ DOMAIN e = 0 .. 15
      /\ e[0] = 131 /\ e[1] = c.seed0 /\ e[2] = c.seed1 /\ e[3] = c.tx /\ e[4] = c.restart
      /\ e[7] = c.id0 /\ e[8] = c.id1 /\ e[9] = c.id2 /\ e[10] = c.id3 /\ e[11] = c.cmd
      /\ e[12] = c.arg0 /\ e[13] = c.arg1 /\ e[14] = c.arg2 /\ e[15] = c.index
  BY DEF AgarcePlain, Buffer
<1>3. c.cmd % 16 = 0 BY DEF Commands, Low
<1>4. /\ Low(c.index) < 16 /\ Low(c.index) \in Byte /\ 16 * High(c.index) + Low(c.index) = c.index
      /\ High(c.index) \in 0 .. 15
  BY CommandBytes DEF Low, High, Byte
<1>5. /\ c.cmd | Low(c.index) = c.cmd + Low(c.index)
      /\ 16 * High(c.cmd + Low(c.index)) = c.cmd /\ Low(c.cmd + Low(c.index)) = Low(c.index)
  BY <1>3, <1>4, CommandBytes, HalvesAdd
<1>6. Low(131) | (16 * Low(High(131))) = 131
  <2>1. 3 \in Byte /\ 128 \in Byte /\ 128 % 16 = 0 /\ 3 < 16 BY DEF Byte
  <2>2. 3 | 128 = 128 + 3 BY <2>1, HalvesAdd
  <2> QED BY <2>2 DEF Low, High
<1>7. Whole(c) /\ Short(c) BY CommandBytes, CommandWhole, CommandShort DEF Codecs
<1>8. /\ Whole(a) /\ a.arg1 = (IF pairing THEN 0 ELSE c.arg1)
      /\ a.arg2 = (IF pairing THEN 0 ELSE c.arg2) /\ a.arg0 = c.arg0 /\ a.cmd = c.cmd
      /\ a.param = c.param /\ a.arg3 = c.arg3 /\ a.id0 = c.id0 /\ a.id1 = c.id1
      /\ a.id2 = c.id2 /\ a.id3 = c.id3 /\ a.index = c.index /\ a.tx = c.tx
      /\ a.restart = c.restart /\ a.seed0 = c.seed0 /\ a.seed1 = c.seed1 /\ Short(a)
  BY <1>7 DEF Whole, Fields, Short
<1> HIDE DEF e, Answer
\* What the decoder puts together, of a pairing and of another command.
<1>9. \E f : b = Answer(f) /\ Together(f)
  <2>1. CASE pairing
    <3>1. d = [e EXCEPT ![13] = High(131), ![14] = Low(c.index),
                        ![15] = High(c.index) + 192, ![0] = Low(131)]
      BY <1>2, <2>1 DEF AgarceFrom, e
    <3> HIDE DEF d
    <3>2. /\ DOMAIN d = 0 .. 15
          /\ d[0] = Low(131) /\ d[13] = High(131) /\ d[14] = Low(c.index)
          /\ d[15] = High(c.index) + 192 /\ \A i \in 1 .. 12 : d[i] = e[i]
      BY <1>2, <3>1
    <3> DEFINE f == [d EXCEPT ![0] = d[0] | (16 * Low(d[13])),
                              ![15] = 16 * Low(d[15]) + d[14], ![14] = 0, ![13] = 0]
    <3>3. High(d[11]) = 0 /\ d[15] # 0
      BY <1>2, <1>4, <2>1, <3>2 DEF High
    <3>4. Low(d[15]) = High(c.index) BY <1>4, <3>2 DEF Low
    <3>5. f[0] = 131 BY <1>6, <3>2
    <3>6. /\ f[15] = c.index /\ f[13] = 0 /\ f[14] = 0 /\ f[11] = 0
          /\ \A i \in (1 .. 10) \cup {12} : f[i] = e[i]
      BY <1>2, <1>4, <2>1, <3>2, <3>4
    <3>7. b = Answer(f)
      BY <3>3, <3>5 DEF AgarceTo, Answer
    <3> HIDE DEF f, b
    <3> QED BY <2>1, <3>6, <3>7
  <2>2. CASE ~pairing
    <3>1. d = [e EXCEPT ![11] = c.cmd + Low(c.index), ![15] = High(c.index)]
      BY <1>2, <1>5, <2>2 DEF AgarceFrom, e
    <3> HIDE DEF d
    <3>2. /\ DOMAIN d = 0 .. 15
          /\ d[11] = c.cmd + Low(c.index)
          /\ d[15] = High(c.index) /\ \A i \in (0 .. 14) \ {11} : d[i] = e[i]
      BY <1>2, <3>1
    <3> DEFINE f == [d EXCEPT ![15] = 16 * Low(d[15]) + Low(d[11])]
    <3>3. High(d[11]) # 0
      <4>1. 16 * High(d[11]) = c.cmd BY <1>5, <3>2
      <4> QED BY <2>2, <4>1, CommandBytes DEF Byte
    <3>4. Low(d[15]) = High(c.index) BY <1>4, <3>2 DEF Low
    <3>5. f[0] = 131 BY <1>2, <3>2
    <3>6. /\ f[15] = c.index /\ f[13] = c.arg1 /\ f[14] = c.arg2 /\ f[11] = c.cmd + Low(c.index)
          /\ \A i \in (1 .. 10) \cup {12} : f[i] = e[i]
      BY <1>2, <1>4, <1>5, <3>2, <3>4
    <3>7. b = Answer(f)
      BY <3>3, <3>5 DEF AgarceTo, Answer
    <3> HIDE DEF f, b
    <3> QED BY <2>2, <3>6, <3>7
  <2> QED BY <2>1, <2>2
<1>10. PICK f : b = Answer(f) /\ Together(f)
  BY <1>9
<1> HIDE DEF a, b, d
<1>11. Whole(b) BY <1>10, ZenonT(60) DEF Answer, Whole, Fields, Nothing
<1>12. b = a
  <2>1. /\ b.cmd = 16 * High(f[11]) /\ b.param = 0 /\ b.arg0 = f[12] /\ b.arg1 = f[13]
        /\ b.arg2 = f[14] /\ b.arg3 = 0 /\ b.id0 = f[7] /\ b.id1 = f[8] /\ b.id2 = f[9]
        /\ b.id3 = f[10] /\ b.index = f[15] /\ b.tx = f[3] /\ b.restart = f[4]
        /\ b.seed0 = f[1] /\ b.seed1 = f[2] /\ Short(b)
    BY <1>10 DEF Answer, Nothing, Short
  <2>2. 16 * High(f[11]) = c.cmd
    <3>1. CASE pairing BY <1>10, <3>1 DEF High
    <3>2. CASE ~pairing BY <1>5, <1>10, <3>2
    <3> QED BY <3>1, <3>2
  <2>3. /\ f[12] = c.arg0 /\ f[3] = c.tx /\ f[4] = c.restart /\ f[7] = c.id0 /\ f[8] = c.id1
        /\ f[9] = c.id2 /\ f[10] = c.id3 /\ f[1] = c.seed0 /\ f[2] = c.seed1
    BY <1>2, <1>10
  <2> QED BY <1>1, <1>8, <1>10, <1>11, <2>1, <2>2, <2>3, SameFields
<1>13. AgarceFrom(a, 131) = d
  <2>1. CASE pairing
    <3> DEFINE g == AgarcePlain(a, 131)
    <3>1. /\ g = [i \in 0 .. 15 |-> g[i]] /\ DOMAIN g = 0 .. 15
          /\ \A i \in (0 .. 15) \ {13, 14} : g[i] = e[i]
      BY <1>8 DEF AgarcePlain, Buffer, e
    <3> HIDE DEF g
    <3> DEFINE Paired(h) == [h EXCEPT ![13] = High(h[0]), ![14] = Low(h[15]),
                                     ![15] = High(h[15]) + 192, ![0] = Low(h[0])]
    <3>2. Paired(g) = Paired(e)
      <4>1. g[0] = e[0] /\ g[15] = e[15] BY <3>1
      <4>2. /\ Paired(g) = [i \in 0 .. 15 |-> Paired(g)[i]]
            /\ Paired(e) = [i \in 0 .. 15 |-> Paired(e)[i]]
        BY <1>2, <3>1
      <4>3. \A i \in 0 .. 15 : Paired(g)[i] = Paired(e)[i] BY <1>2, <3>1, <4>1
      <4> HIDE DEF Paired
      <4> QED BY <4>2, <4>3
    <3> QED BY <1>8, <2>1, <3>2 DEF AgarceFrom, d, e, g
  <2>2. CASE ~pairing
    BY <2>2 DEF a, d
  <2> QED BY <2>1, <2>2
<1>14. /\ From("agarce", c) = d /\ To("agarce", d) = b /\ Carried("agarce", c) = a
       /\ From("agarce", a) = AgarceFrom(a, 131)
  BY DEF From, To, Carried, V1Codecs, a, b, d
<1> QED BY <1>12, <1>13, <1>14 DEF ReadsBack

LEMMA RwBack ==
  ASSUME NEW c \in Commands("rw")
  PROVE  ReadsBack("rw", c)
<1> DEFINE s   == c.seed0
           b12 == c.tx (+) c.id0
           d   == RwFrom(c)
           b   == RwTo(d)
           p   == d[11] (+) d[13] (+) d[15]
           By(i, j) == d[i] (+) p (+) d[j]
<1>1. /\ c.param = 0 /\ c.arg3 = 0 /\ c.id3 = 0 /\ c.restart = 1 /\ c.seed1 = 0
  <2>1. Room("rw")
          = {"arg0", "arg1", "arg2", "id0", "id1", "id2", "index", "tx", "seed0"}
    BY DEF Room, V1Codecs, Args3, Id4
  <2> QED BY <2>1, NotSet
<1>2. /\ d[0] = c.cmd (+) s /\ d[1] = c.tx (+) s /\ d[2] = c.id0 (+) c.tx
      /\ d[3] = c.id1 (+) c.tx /\ d[4] = c.id2 (+) c.tx /\ d[5] = c.id3 (+) b12 (+) s
      /\ d[6] = c.index (+) b12 (+) s /\ d[7] = c.arg0 (+) b12 (+) s
      /\ d[8] = 76 /\ d[9] = 255 /\ d[10] = 0 /\ d[11] = c.arg1 (+) b12 /\ d[12] = 1
      /\ d[13] = c.arg2 (+) b12 /\ d[14] = 2 /\ d[15] = c.arg1 (+) c.arg2 (+) s
  <2> DEFINE e == Buffer(<<c.cmd, c.tx, c.id0, c.id1, c.id2, c.id3, c.index,
                           c.arg0, c.arg1, c.arg2, c.seed0>>)
  <2>1. /\ e[0] = c.cmd /\ e[1] = c.tx /\ e[2] = c.id0 /\ e[3] = c.id1 /\ e[4] = c.id2
        /\ e[5] = c.id3 /\ e[6] = c.index /\ e[7] = c.arg0 /\ e[8] = c.arg1
        /\ e[9] = c.arg2 /\ e[10] = c.seed0
    BY DEF Buffer
  <2> DEFINE f == e[1] (+) e[2]
  <2>2. d = Buffer(<<e[0] (+) e[10], e[1] (+) e[10], e[2] (+) e[1], e[3] (+) e[1], e[4] (+) e[1],
                     e[5] (+) f (+) e[10], e[6] (+) f (+) e[10], e[7] (+) f (+) e[10],
                     76, 255, 0, e[8] (+) f, 1, e[9] (+) f, 2, e[8] (+) e[9] (+) e[10]>>)
    BY DEF RwFrom
  <2>3. f = b12 BY <2>1
  <2> HIDE DEF d, e, f
  <2>4. /\ d[0] = e[0] (+) e[10] /\ d[1] = e[1] (+) e[10] /\ d[2] = e[2] (+) e[1]
        /\ d[3] = e[3] (+) e[1] /\ d[4] = e[4] (+) e[1] /\ d[5] = e[5] (+) f (+) e[10]
        /\ d[6] = e[6] (+) f (+) e[10] /\ d[7] = e[7] (+) f (+) e[10]
        /\ d[8] = 76 /\ d[9] = 255 /\ d[10] = 0 /\ d[11] = e[8] (+) f /\ d[12] = 1
        /\ d[13] = e[9] (+) f /\ d[14] = 2 /\ d[15] = e[8] (+) e[9] (+) e[10]
    BY <2>2 DEF Buffer
  <2> QED BY <2>1, <2>3, <2>4
<1>3. s \in Byte /\ b12 \in Byte BY CommandBytes, XorType
<1>4. b = [Nothing EXCEPT !.cmd = d[0] (+) p, !.tx = d[1] (+) p, !.id0 = By(2, 1),
                          !.id1 = By(3, 1), !.id2 = By(4, 1), !.id3 = By(5, 2),
                          !.index = By(6, 2), !.arg0 = By(7, 2), !.arg1 = By(11, 5),
                          !.arg2 = By(13, 5), !.seed0 = p]
  BY <1>2 DEF RwTo
<1>5. b12 = c.id0 (+) c.tx BY CommandBytes, XorCommutes
<1> HIDE DEF d, b, b12
<1>6. p = s
  <2>1. d[11] (+) d[13] = c.arg1 (+) c.arg2 BY <1>2, <1>3, CommandBytes, PairUnmasked
  <2>2. c.arg1 (+) c.arg2 \in Byte BY CommandBytes, XorType
  <2>3. (c.arg1 (+) c.arg2) (+) ((c.arg1 (+) c.arg2) (+) s) = s BY <1>3, <2>2, Undone
  <2> QED BY <1>2, <2>1, <2>3
<1> HIDE DEF s, p
<1>7. d[0] (+) p = c.cmd /\ d[1] (+) p = c.tx BY <1>2, <1>3, <1>6, CommandBytes, Undone
\* The bytes of the identifier, under tx.
<1>8. ASSUME NEW x \in Byte
      PROVE  (x (+) c.tx) (+) s (+) (c.tx (+) s) = x
  <2>1. c.tx (+) s \in Byte /\ c.tx \in Byte BY <1>3, CommandBytes, XorType
  <2>2. (x (+) c.tx) (+) s = x (+) (c.tx (+) s) BY <1>3, <2>1, XorAssociates
  <2> QED BY <2>1, <2>2, Undone
<1>9. By(2, 1) = c.id0 /\ By(3, 1) = c.id1 /\ By(4, 1) = c.id2
  BY <1>2, <1>6, <1>8, CommandBytes
\* The bytes under both masks.
<1>10. ASSUME NEW x \in Byte
       PROVE  (x (+) b12 (+) s) (+) s (+) b12 = x
  <2>1. x (+) b12 \in Byte BY <1>3, XorType
  <2>2. (x (+) b12 (+) s) (+) s = x (+) b12 BY <1>3, <2>1, Undone
  <2> QED BY <1>3, <2>2, Undone
<1>11. By(5, 2) = c.id3 /\ By(6, 2) = c.index /\ By(7, 2) = c.arg0
  BY <1>2, <1>5, <1>6, <1>10, CommandBytes
\* The last arguments, beside the highest byte of the identifier, which is 0.
<1>12. ASSUME NEW x \in Byte
       PROVE  (x (+) b12) (+) s (+) (0 (+) b12 (+) s) = x
  <2>1. 0 \in Byte BY DEF Byte
  <2>2. x (+) b12 \in Byte /\ 0 (+) b12 \in Byte BY <1>3, <2>1, XorType
  <2>3. (x (+) b12) (+) s (+) (0 (+) b12 (+) s) = (x (+) b12) (+) (0 (+) b12)
    BY <1>3, <2>2, PairUnmasked
  <2>4. (x (+) b12) (+) (0 (+) b12) = x (+) 0 BY <1>3, <2>1, PairUnmasked
  <2> QED BY <2>3, <2>4, XorSelf
<1>13. By(11, 5) = c.arg1 /\ By(13, 5) = c.arg2
  <2>1. d[5] = 0 (+) b12 (+) s BY <1>1, <1>2
  <2> QED BY <1>2, <1>6, <1>12, <2>1, CommandBytes
<1> HIDE DEF By
<1>14. Whole(b) BY <1>4, ZenonT(60) DEF Whole, Fields, Nothing
<1>15. b = c
  <2>1. /\ b.cmd = d[0] (+) p /\ b.param = 0 /\ b.arg0 = By(7, 2) /\ b.arg1 = By(11, 5)
        /\ b.arg2 = By(13, 5) /\ b.arg3 = 0 /\ b.id0 = By(2, 1) /\ b.id1 = By(3, 1)
        /\ b.id2 = By(4, 1) /\ b.id3 = By(5, 2) /\ b.index = By(6, 2)
        /\ b.tx = d[1] (+) p /\ b.restart = 1 /\ b.seed0 = p /\ b.seed1 = 0 /\ Short(b)
    BY <1>4 DEF Nothing, Short
  <2>2. Whole(c) /\ Short(c) BY CommandBytes, CommandWhole, CommandShort DEF Codecs
  <2>3. s = c.seed0 BY DEF s
  <2> QED BY <1>1, <1>6, <1>7, <1>9, <1>11, <1>13, <1>14, <2>1, <2>2, <2>3, SameFields
<1>16. From("rw", c) = d /\ To("rw", d) = b /\ Carried("rw", c) = c
  BY DEF From, To, Carried, V1Codecs, d, b
<1> QED BY <1>15, <1>16 DEF ReadsBack

\* The third argument of a V1 codec is fixed once.
LEMMA FixedOnce ==
  ASSUME NEW cmd, NEW arg2, NEW fixed, NEW onPairOnly
  PROVE  LET f == FixedArg2(cmd, arg2, fixed, onPairOnly)
         IN  /\ FixedArg2(cmd, f, fixed, onPairOnly) = f
             /\ cmd = Group => f = arg2
             /\ FixedArg2(cmd, IF cmd = Group THEN arg2 ELSE 0, fixed, onPairOnly) = f
<1>1. CASE cmd = Group BY <1>1 DEF FixedArg2
<1>2. CASE cmd # Group BY <1>2 DEF FixedArg2
<1> QED BY <1>1, <1>2

LEMMA FanLampV1Back ==
  ASSUME NEW codec \in V1Codecs, NEW c \in Commands(codec)
  PROVE  ReadsBack(codec, c)
<1> DEFINE k == V1Codec(codec)
           m8 == IF k.xor1 THEN c.seed0 (+) 1 ELSE c.seed0 (+) c.id2
           M9(s) == IF k.xor1 THEN s (+) 1 ELSE s
           i2 == IF k.xor1 THEN 1 ELSE c.id2
           F(x, y) == FixedArg2(x, y, k.fixed, k.onPairOnly)
           paired == c.cmd = Pair
           p7 == IF k.fixed = 0 /\ paired THEN k.header ELSE c.param
           d == FanLampV1From(c, k)
           b == FanLampV1To(d, k)
           a == V1Carried(c, k)
<1>1. c.arg3 = 0 /\ c.id3 = 0 /\ c.restart = 1
  <2>1. /\ "arg3" \notin Room(codec) /\ "id3" \notin Room(codec)
        /\ "restart" \notin Room(codec)
    BY DEF Room, V1Codecs, Args3, Id4
  <2> QED BY <2>1, NotSet
<1>2. c.index < 16 /\ Low(c.id1) = 0 BY DEF Commands
<1>3. /\ 16 * High(c.id1) = c.id1 /\ Low(c.index) = c.index
  BY <1>2, CommandBytes DEF High, Low, Byte
<1>4. /\ c.id1 | c.index = c.id1 + c.index /\ 16 * High(c.id1 + c.index) = c.id1
      /\ Low(c.id1 + c.index) = c.index
  BY <1>2, CommandBytes, HalvesAdd DEF Low
<1>5. c.seed0 (+) m8 = i2
  <2>1. 1 \in Byte BY DEF Byte
  <2>2. c.seed0 (+) (c.seed0 (+) 1) = 1 /\ c.seed0 (+) (c.seed0 (+) c.id2) = c.id2
    BY <2>1, CommandBytes, Undone
  <2>3. CASE k.xor1 BY <2>2, <2>3
  <2>4. CASE ~k.xor1 BY <2>2, <2>4
  <2> QED BY <2>3, <2>4
<1>6. d = Buffer(<<c.cmd, c.id0, c.id1 + c.index, IF paired THEN c.id0 ELSE c.arg0,
                   IF paired THEN c.id1 ELSE c.arg1, F(c.cmd, c.arg2), c.tx, p7, m8,
                   M9(c.seed0), c.seed1, c.seed0>>)
  BY <1>3, <1>4 DEF FanLampV1From
<1>7. b = LET id == [Nothing EXCEPT !.cmd = d[0], !.id0 = d[1], !.id1 = 16 * High(d[2]),
                                    !.id2 = d[11] (+) d[8], !.index = Low(d[2]), !.tx = d[6],
                                    !.seed0 = d[11], !.seed1 = d[10]]
          IN  IF \/ d[5] # F(d[0], d[5]) \/ d[9] # M9(d[11])
                 \/ d[0] = Pair /\ (d[3] # id.id0 \/ d[4] # id.id1)
              THEN NotMine
              ELSE IF d[0] = Pair THEN [id EXCEPT !.param = IF k.fixed = 0 THEN 0 ELSE d[7]]
              ELSE [id EXCEPT !.param = d[7], !.arg0 = d[3], !.arg1 = d[4],
                              !.arg2 = IF d[0] = Group THEN d[5] ELSE 0]
  BY DEF FanLampV1To
<1>8. a = LET id == [c EXCEPT !.id2 = i2, !.arg2 = IF c.cmd = Group THEN c.arg2 ELSE 0]
          IN  IF c.cmd # Pair THEN id
              ELSE [id EXCEPT !.arg0 = 0, !.arg1 = 0,
                              !.param = IF k.fixed = 0 THEN 0 ELSE c.param]
  BY DEF V1Carried
<1>9. /\ F(c.cmd, F(c.cmd, c.arg2)) = F(c.cmd, c.arg2)
      /\ c.cmd = Group => F(c.cmd, c.arg2) = c.arg2
      /\ F(c.cmd, IF c.cmd = Group THEN c.arg2 ELSE 0) = F(c.cmd, c.arg2)
  BY FixedOnce
<1>10. (IF k.fixed = 0 THEN 0 ELSE p7) = (IF k.fixed = 0 THEN 0 ELSE c.param)
  OBVIOUS
<1>11. ~paired => p7 = c.param
  OBVIOUS
<1>12. Group # Pair BY DEF Group, Pair
<1>13. Whole(c) /\ Short(c)
  <2>1. codec \in Codecs /\ codec # "agarce_vr" BY DEF Codecs, V1Codecs
  <2>2. c \in EncCmd BY ONLY c \in Commands(codec) DEF Commands
  <2>3. Whole(c) BY ONLY <2>2, CommandWhole
  <2>4. Short(c)
    <3> HIDE DEF d, b, a, m8, M9, i2, F, p7, k
    <3> QED BY <2>1, CommandShort
  <2> QED BY <2>3, <2>4
<1> HIDE DEF d, b, a, m8, M9, i2, F, p7, k
<1>14. /\ d[0] = c.cmd /\ d[1] = c.id0 /\ d[2] = c.id1 + c.index
       /\ d[3] = (IF paired THEN c.id0 ELSE c.arg0) /\ d[4] = (IF paired THEN c.id1 ELSE c.arg1)
       /\ d[5] = F(c.cmd, c.arg2) /\ d[6] = c.tx /\ d[7] = p7 /\ d[8] = m8
       /\ d[9] = M9(c.seed0) /\ d[10] = c.seed1 /\ d[11] = c.seed0
  BY <1>6 DEF Buffer
<1>15. d[5] = F(d[0], d[5]) /\ d[9] = M9(d[11]) BY <1>9, <1>14
<1>16. /\ Whole(a) /\ a.cmd = c.cmd /\ a.arg3 = c.arg3 /\ a.id0 = c.id0 /\ a.id1 = c.id1
       /\ a.id2 = i2 /\ a.id3 = c.id3 /\ a.index = c.index /\ a.tx = c.tx
       /\ a.restart = c.restart /\ a.seed0 = c.seed0 /\ a.seed1 = c.seed1 /\ Short(a)
       /\ a.arg2 = (IF c.cmd = Group THEN c.arg2 ELSE 0)
       /\ ~paired => a.arg0 = c.arg0 /\ a.arg1 = c.arg1 /\ a.param = c.param
       /\ paired => a.arg0 = 0 /\ a.arg1 = 0 /\ a.param = (IF k.fixed = 0 THEN 0 ELSE c.param)
  <2>1. CASE paired BY <1>8, <1>13, <2>1 DEF Whole, Fields, Short
  <2>2. CASE ~paired BY <1>8, <1>13, <2>2 DEF Whole, Fields, Short
  <2> QED BY <2>1, <2>2
<1>17. b = a
  <2>1. CASE paired
    <3>1. b = [Nothing EXCEPT !.cmd = d[0], !.id0 = d[1], !.id1 = 16 * High(d[2]),
                             !.id2 = d[11] (+) d[8], !.index = Low(d[2]), !.tx = d[6],
                             !.seed0 = d[11], !.seed1 = d[10],
                             !.param = IF k.fixed = 0 THEN 0 ELSE d[7]]
      BY <1>4, <1>7, <1>14, <1>15, <2>1 DEF Nothing
    <3>2. Whole(b) BY <3>1, ZenonT(60) DEF Whole, Fields, Nothing
    <3>3. /\ b.cmd = d[0] /\ b.param = (IF k.fixed = 0 THEN 0 ELSE d[7]) /\ b.arg0 = 0
          /\ b.arg1 = 0 /\ b.arg2 = 0 /\ b.arg3 = 0 /\ b.id0 = d[1]
          /\ b.id1 = 16 * High(d[2]) /\ b.id2 = d[11] (+) d[8] /\ b.id3 = 0
          /\ b.index = Low(d[2]) /\ b.tx = d[6] /\ b.restart = 1 /\ b.seed0 = d[11]
          /\ b.seed1 = d[10] /\ Short(b)
      BY <3>1 DEF Nothing, Short
    <3>4. a.arg2 = 0 BY <1>12, <1>16, <2>1
    <3> QED BY <1>1, <1>4, <1>5, <1>10, <1>14, <1>16, <2>1, <3>2, <3>3, <3>4, SameFields
  <2>2. CASE ~paired
    <3>1. b = [Nothing EXCEPT !.cmd = d[0], !.id0 = d[1], !.id1 = 16 * High(d[2]),
                             !.id2 = d[11] (+) d[8], !.index = Low(d[2]), !.tx = d[6],
                             !.seed0 = d[11], !.seed1 = d[10],
                             !.param = d[7], !.arg0 = d[3], !.arg1 = d[4],
                             !.arg2 = IF d[0] = Group THEN d[5] ELSE 0]
      BY <1>7, <1>14, <1>15, <2>2 DEF Nothing
    <3>2. Whole(b) BY <3>1, ZenonT(60) DEF Whole, Fields, Nothing
    <3>3. /\ b.cmd = d[0] /\ b.param = d[7] /\ b.arg0 = d[3] /\ b.arg1 = d[4]
          /\ b.arg2 = (IF d[0] = Group THEN d[5] ELSE 0) /\ b.arg3 = 0 /\ b.id0 = d[1]
          /\ b.id1 = 16 * High(d[2]) /\ b.id2 = d[11] (+) d[8] /\ b.id3 = 0
          /\ b.index = Low(d[2]) /\ b.tx = d[6] /\ b.restart = 1 /\ b.seed0 = d[11]
          /\ b.seed1 = d[10] /\ Short(b)
      BY <3>1 DEF Nothing, Short
    <3>4. a.arg2 = (IF d[0] = Group THEN d[5] ELSE 0) BY <1>9, <1>14, <1>16
    <3> QED BY <1>1, <1>4, <1>5, <1>11, <1>14, <1>16, <2>2, <3>2, <3>3, <3>4, SameFields
  <2> QED BY <2>1, <2>2
<1>18. FanLampV1From(a, k) = d
  <2>1. FanLampV1From(a, k)
          = Buffer(<<a.cmd, a.id0, (16 * High(a.id1)) | Low(a.index),
                     IF a.cmd = Pair THEN a.id0 ELSE a.arg0,
                     IF a.cmd = Pair THEN 16 * High(a.id1) ELSE a.arg1, F(a.cmd, a.arg2), a.tx,
                     IF k.fixed = 0 /\ a.cmd = Pair THEN k.header ELSE a.param,
                     IF k.xor1 THEN a.seed0 (+) 1 ELSE a.seed0 (+) a.id2,
                     M9(a.seed0), a.seed1, a.seed0>>)
    BY DEF FanLampV1From, F, M9
  <2>2. /\ (IF a.cmd = Pair THEN a.id0 ELSE a.arg0) = (IF paired THEN c.id0 ELSE c.arg0)
        /\ (IF a.cmd = Pair THEN 16 * High(a.id1) ELSE a.arg1)
             = (IF paired THEN c.id1 ELSE c.arg1)
        /\ (IF k.fixed = 0 /\ a.cmd = Pair THEN k.header ELSE a.param) = p7
    <3>1. CASE paired BY <1>3, <1>16, <3>1 DEF p7
    <3>2. CASE ~paired BY <1>16, <3>2 DEF p7
    <3> QED BY <3>1, <3>2
  <2>3. (IF k.xor1 THEN a.seed0 (+) 1 ELSE a.seed0 (+) a.id2) = m8
    <3>1. CASE k.xor1 BY <1>16, <3>1 DEF m8
    <3>2. CASE ~k.xor1 BY <1>16, <3>2 DEF m8, i2
    <3> QED BY <3>1, <3>2
  <2>4. F(a.cmd, a.arg2) = F(c.cmd, c.arg2) BY <1>9, <1>16
  <2>5. (16 * High(a.id1)) | Low(a.index) = c.id1 + c.index BY <1>3, <1>4, <1>16
  <2>6. /\ a.cmd = c.cmd /\ a.id0 = c.id0 /\ a.tx = c.tx /\ a.seed0 = c.seed0
        /\ a.seed1 = c.seed1
    BY <1>16
  <2> QED BY <1>6, <2>1, <2>2, <2>3, <2>4, <2>5, <2>6
<1>19. /\ From(codec, c) = d /\ To(codec, d) = b /\ Carried(codec, c) = a
       /\ From(codec, a) = FanLampV1From(a, k)
  BY DEF From, To, Carried, V1Codecs, d, b, a, k
<1> QED BY <1>17, <1>18, <1>19 DEF ReadsBack

\* What is moved round the byte is moved back.
LEMMA MovedBack ==
  ASSUME NEW x \in Byte, NEW k \in Int
  PROVE  (x + k) % 256 \in Byte /\ (((x + k) % 256) - k) % 256 = x
<1>1. \A y \in Int : (y % 256) \in 0 .. 255 /\ y = 256 * (y \div 256) + (y % 256) OBVIOUS
<1> DEFINE y == (x + k) % 256
           q == (x + k) \div 256
<1>2. y \in 0 .. 255 /\ q \in Int /\ x + k = 256 * q + y BY <1>1 DEF Byte
<1> HIDE DEF y, q
<1>3. y - k = x - 256 * q /\ x \in 0 .. 255 BY <1>2 DEF Byte
<1>4. (x - 256 * q) % 256 = x BY <1>2, <1>3
<1> QED BY <1>2, <1>3, <1>4 DEF Byte, y

\* The sum of bytes of a buffer is a byte.
LEMMA SumOfBytes ==
  ASSUME NEW n \in Nat, NEW m \in Nat, NEW buf, \A i \in n .. m : buf[i] \in Byte, n <= m
  PROVE  SumOf(buf, n, m) \in Byte
<1> DEFINE s == [j \in 1 .. m - n + 1 |-> buf[n + j - 1]]
<1>1. s \in Seq(Nat)
  <2>1. m - n + 1 \in Nat OBVIOUS
  <2>2. \A j \in 1 .. m - n + 1 : n + j - 1 \in n .. m OBVIOUS
  <2>3. \A j \in 1 .. m - n + 1 : buf[n + j - 1] \in Nat BY <2>2 DEF Byte
  <2> QED BY <2>1, <2>3
<1> HIDE DEF s
<1>2. Total(s) \in Nat BY <1>1, TotalType
<1>3. SumOf(buf, n, m) = Total(s) % 256 BY DEF SumOf, s
<1> DEFINE t == Total(s)
<1>4. t % 256 \in 0 .. 255
  <2> HIDE DEF t
  <2>1. t \in Nat BY <1>2 DEF t
  <2> QED BY <2>1
<1> QED BY <1>3, <1>4 DEF Byte

LEMMA RuiXinBack ==
  ASSUME NEW c \in Commands("ruixin")
  PROVE  ReadsBack("ruixin", c)
<1> DEFINE e == Buffer(<<c.seed0, c.tx, c.id0, c.id1, c.id2, c.id3, c.cmd, c.arg0, c.arg1,
                         c.arg2, 0, 0, 0, 0, 0, 0>>)
           sum == SumOf(e, 2, 14)
           d == RuiXinFrom(c)
           g == [i \in DOMAIN d |-> IF i < 2 THEN d[i] ELSE (d[i] - d[0] - (i - 2)) % 256]
           b == RuiXinTo(d)
<1>1. /\ c.param = 0 /\ c.arg3 = 0 /\ c.index = 0 /\ c.restart = 1 /\ c.seed1 = 0
  <2>1. Room("ruixin")
          = {"arg0", "arg1", "arg2", "id0", "id1", "id2", "id3", "tx", "seed0"}
    BY DEF Room, V1Codecs, Args3, Id4
  <2> QED BY <2>1, NotSet
<1>2. /\ DOMAIN e = 0 .. 15 /\ \A i \in 0 .. 15 : e[i] \in Byte
  <2>1. 0 \in Byte BY DEF Byte
  <2> QED BY <2>1, CommandBytes DEF Buffer
<1>3. /\ e[0] = c.seed0 /\ e[1] = c.tx /\ e[2] = c.id0 /\ e[3] = c.id1 /\ e[4] = c.id2
      /\ e[5] = c.id3 /\ e[6] = c.cmd /\ e[7] = c.arg0 /\ e[8] = c.arg1 /\ e[9] = c.arg2
  BY DEF Buffer
<1>4. d = [i \in 0 .. 15 |-> IF i < 2 THEN e[i]
             ELSE ((IF i = 15 THEN sum ELSE e[i]) + e[0] + i - 2) % 256]
  BY <1>2 DEF RuiXinFrom
<1> HIDE DEF e, d
<1>5. sum \in Byte
  <2>1. 2 \in Nat /\ 14 \in Nat /\ 2 <= 14 /\ \A i \in 2 .. 14 : e[i] \in Byte BY <1>2
  <2> QED BY <2>1, SumOfBytes, Zenon
<1> HIDE DEF sum
<1>6. ASSUME NEW i \in 0 .. 15
      PROVE  g[i] = IF i = 15 THEN sum ELSE e[i]
  <2>1. CASE i < 2 BY <1>4, <2>1
  <2>2. CASE ~(i < 2)
    <3> DEFINE x == IF i = 15 THEN sum ELSE e[i]
               k == e[0] + (i - 2)
    <3>1. x \in Byte /\ k \in Int /\ e[0] \in Int BY <1>2, <1>5 DEF Byte
    <3>2. d[0] = e[0] BY <1>4
    <3>3. d[i] = (x + e[0] + i - 2) % 256 BY <1>4, <2>2
    <3>4. g[i] = (d[i] - d[0] - (i - 2)) % 256 BY <1>4, <2>2
    <3> HIDE DEF x, g
    <3>5. x + e[0] + i - 2 = x + k BY <3>1 DEF Byte
    <3>6. (x + k) % 256 \in Byte /\ (((x + k) % 256) - k) % 256 = x
      <4> HIDE DEF k
      <4> QED BY <3>1, MovedBack
    <3>7. d[i] \in Byte /\ d[i] = (x + k) % 256 BY <3>3, <3>5, <3>6
    <3>8. d[i] - d[0] - (i - 2) = d[i] - k BY <3>1, <3>2, <3>7 DEF Byte
    <3> QED BY <3>4, <3>6, <3>7, <3>8 DEF x
  <2> QED BY <2>1, <2>2
<1>7. b = IF g[15] # SumOf(g, 2, 14) THEN NotMine
          ELSE [Nothing EXCEPT !.seed0 = g[0], !.tx = g[1], !.id0 = g[2], !.id1 = g[3],
                               !.id2 = g[4], !.id3 = g[5], !.cmd = g[6], !.arg0 = g[7],
                               !.arg1 = g[8], !.arg2 = g[9]]
  BY DEF RuiXinTo
<1> HIDE DEF b, g
<1>8. g[15] = SumOf(g, 2, 14)
  <2>1. \A n \in 1 .. 14 - 2 + 1 : 2 + n - 1 \in 0 .. 15 /\ 2 + n - 1 # 15 OBVIOUS
  <2>2. \A n \in 1 .. 14 - 2 + 1 : g[2 + n - 1] = e[2 + n - 1] BY <1>6, <2>1
  <2>3. [n \in 1 .. 14 - 2 + 1 |-> g[2 + n - 1]] = [n \in 1 .. 14 - 2 + 1 |-> e[2 + n - 1]]
    BY <2>2
  <2>4. SumOf(g, 2, 14) = sum BY <2>3 DEF SumOf, sum
  <2> QED BY <1>6, <2>4
<1>9. b = [Nothing EXCEPT !.seed0 = g[0], !.tx = g[1], !.id0 = g[2], !.id1 = g[3],
                          !.id2 = g[4], !.id3 = g[5], !.cmd = g[6], !.arg0 = g[7],
                          !.arg1 = g[8], !.arg2 = g[9]]
  BY <1>7, <1>8
<1>10. Whole(b) BY <1>9, ZenonT(60) DEF Whole, Fields, Nothing
<1>11. b = c
  <2>1. /\ b.cmd = g[6] /\ b.param = 0 /\ b.arg0 = g[7] /\ b.arg1 = g[8]
        /\ b.arg2 = g[9] /\ b.arg3 = 0 /\ b.id0 = g[2] /\ b.id1 = g[3] /\ b.id2 = g[4]
        /\ b.id3 = g[5] /\ b.index = 0 /\ b.tx = g[1] /\ b.restart = 1 /\ b.seed0 = g[0]
        /\ b.seed1 = 0 /\ Short(b)
    BY <1>9 DEF Nothing, Short
  <2>2. Whole(c) /\ Short(c) BY CommandBytes, CommandWhole, CommandShort DEF Codecs
  <2>3. \A i \in 0 .. 9 : g[i] = e[i] BY <1>6
  <2> QED BY <1>1, <1>3, <1>10, <2>1, <2>2, <2>3, SameFields
<1>12. From("ruixin", c) = d /\ To("ruixin", d) = b /\ Carried("ruixin", c) = c
  BY DEF From, To, Carried, V1Codecs, d, b
<1> QED BY <1>11, <1>12 DEF ReadsBack

-----------------------------------------------------------------------------
LEMMA Nibbles ==
  ASSUME NEW a \in 0 .. 15, NEW b \in 0 .. 15
  PROVE  a (+) b \in 0 .. 15
<1>1. a \in Byte /\ b \in Byte /\ a (+) b \in Byte
  <2>1. a \in Byte /\ b \in Byte BY DEF Byte
  <2> QED BY <2>1, XorType
<1>2. \A w \in {16, 32, 64, 128} : Bit(a, w) = 0 /\ Bit(b, w) = 0 BY DEF Bit
<1>3. \A w \in {16, 32, 64, 128} : Bit(a (+) b, w) = 0 BY <1>1, <1>2, XorBits DEF Weights
<1> DEFINE x == a (+) b
<1>4. /\ x = Bit(x, 1) + 2 * Bit(x, 2) + 4 * Bit(x, 4) + 8 * Bit(x, 8) + 16 * Bit(x, 16)
             + 32 * Bit(x, 32) + 64 * Bit(x, 64) + 128 * Bit(x, 128)
      /\ \A w \in Weights : Bit(x, w) \in {0, 1}
  BY <1>1, BitsOf
<1> HIDE DEF x
<1>5. /\ Bit(x, 1) \in {0, 1} /\ Bit(x, 2) \in {0, 1} /\ Bit(x, 4) \in {0, 1}
      /\ Bit(x, 8) \in {0, 1} /\ Bit(x, 16) = 0 /\ Bit(x, 32) = 0 /\ Bit(x, 64) = 0
      /\ Bit(x, 128) = 0
  BY <1>3, <1>4 DEF Weights, x
<1>6. x \in 0 .. 15 BY <1>4, <1>5
<1> QED BY <1>6 DEF x

LEMMA MatrixBytes ==
  ASSUME NEW i \in Int
  PROVE  Matrix[i % 16] \in Byte
<1>1. \A j \in 0 .. 15 : Matrix[j] \in Byte BY DEF Matrix, Buffer, Byte
<1>2. i % 16 \in 0 .. 15 OBVIOUS
<1> QED BY <1>1, <1>2

\* The bytes from a place are moved by the matrix, and moved back.
LEMMA MatrixUndone ==
  ASSUME NEW buf \in [0 .. 13 -> Byte], NEW from \in {0, 9}, NEW key \in Nat,
         buf[from] = 255
  PROVE  /\ MatrixApplied(buf, from, key) \in [0 .. 13 -> Byte]
         /\ \A i \in 0 .. 13 : i < from => MatrixApplied(buf, from, key)[i] = buf[i]
         /\ MatrixUnapplied(MatrixApplied(buf, from, key), from, key) = buf
<1> DEFINE K(i) == Matrix[(key + i - from) % 16]
           p    == Matrix[High(buf[from + 1]) (+) Low(buf[from + 1])]
           m    == MatrixApplied(buf, from, key)
           q    == ((m[from] - Matrix[key % 16]) % 256) (+) 255
           u    == MatrixUnapplied(m, from, key)
<1>1. \A i \in 0 .. 13 : K(i) \in Byte
  <2> TAKE i \in 0 .. 13
  <2>1. key + i - from \in Int OBVIOUS
  <2> QED BY <2>1, MatrixBytes
<1>2. p \in Byte
  <2>1. buf[from + 1] \in Byte OBVIOUS
  <2>2. High(buf[from + 1]) \in 0 .. 15 /\ Low(buf[from + 1]) \in 0 .. 15
    <3> DEFINE y == buf[from + 1]
    <3>1. y \in Byte BY <2>1
    <3> HIDE DEF y
    <3>2. High(y) \in 0 .. 15 /\ Low(y) \in 0 .. 15 BY <3>1 DEF Byte, High, Low
    <3> QED BY <3>2 DEF y
  <2> DEFINE j == High(buf[from + 1]) (+) Low(buf[from + 1])
  <2>3. j \in 0 .. 15 BY <2>2, Nibbles
  <2> HIDE DEF j
  <2>4. j % 16 = j /\ j \in Int BY <2>3
  <2>5. Matrix[j] \in Byte BY <2>4, MatrixBytes
  <2> QED BY <2>5 DEF j
<1>3. K(from) = Matrix[key % 16]
  <2>1. key + from - from = key OBVIOUS
  <2> QED BY <2>1
<1>4. m = [i \in 0 .. 13 |-> IF i < from THEN buf[i] ELSE ((buf[i] (+) p) + K(i)) % 256]
  BY DEF MatrixApplied
<1> HIDE DEF K, p, m
<1>5. ASSUME NEW i \in 0 .. 13, ~(i < from)
      PROVE  /\ m[i] \in Byte /\ (m[i] - K(i)) % 256 = buf[i] (+) p
             /\ (buf[i] (+) p) (+) p = buf[i] /\ (buf[i] (+) p) (+) buf[i] = p
  <2>1. buf[i] \in Byte /\ buf[i] (+) p \in Byte BY <1>2, XorType
  <2>2. K(i) \in Int
    <3>1. \A y \in Byte : y \in Int BY DEF Byte
    <3> QED BY <1>1, <3>1
  <2>3. m[i] = ((buf[i] (+) p) + K(i)) % 256 BY <1>4, <1>5
  <2> DEFINE x == buf[i] (+) p
  <2>4. (x + K(i)) % 256 \in Byte /\ (((x + K(i)) % 256) - K(i)) % 256 = x
    <3> HIDE DEF x
    <3>1. x \in Byte BY <2>1 DEF x
    <3> QED BY <2>2, <3>1, MovedBack
  <2>5. x (+) p = buf[i] /\ x (+) buf[i] = p BY <1>2, <2>1, Undone
  <2> QED BY <2>3, <2>4, <2>5
<1>6. m \in [0 .. 13 -> Byte]
  <2>1. \A i \in 0 .. 13 : m[i] \in Byte
    <3> TAKE i \in 0 .. 13
    <3>1. CASE i < from BY <1>4, <3>1
    <3>2. CASE ~(i < from) BY <1>5, <3>2
    <3> QED BY <3>1, <3>2
  <2>2. m = [i \in 0 .. 13 |-> m[i]] BY <1>4
  <2> QED BY <2>1, <2>2
<1>7. q = p
  <2>1. (m[from] - K(from)) % 256 = buf[from] (+) p /\ (buf[from] (+) p) (+) buf[from] = p
    BY <1>5
  <2> QED BY <1>3, <2>1
<1>8. u = [i \in 0 .. 13 |-> IF i < from THEN m[i] ELSE ((m[i] - K(i)) % 256) (+) q]
  BY <1>6 DEF MatrixUnapplied, K
<1> HIDE DEF q, u
<1>9. \A i \in 0 .. 13 : u[i] = buf[i]
  <2> TAKE i \in 0 .. 13
  <2>1. CASE i < from BY <1>4, <1>8, <2>1
  <2>2. CASE ~(i < from) BY <1>5, <1>7, <1>8, <2>2
  <2> QED BY <2>1, <2>2
<1>10. u = buf BY <1>8, <1>9
<1>11. \A i \in 0 .. 13 : i < from => m[i] = buf[i] BY <1>4
<1> QED BY <1>6, <1>10, <1>11 DEF m, u

LEMMA ZhimeiV1Back ==
  ASSUME NEW c \in Commands("zhimei_v1")
  PROVE  ReadsBack("zhimei_v1", c)
<1> DEFINE e == Buffer(<<255, c.seed0, c.tx, c.id0, c.id1, c.id2, c.id3, c.cmd, c.index,
                         255, c.tx, c.arg0, c.arg1, c.arg2>>)
           f == IF c.cmd = ZhimeiPair THEN e ELSE MatrixApplied(e, 9, 10)
           d == ZhimeiV1From(c)
           h == MatrixUnapplied(d, 0, 6)
           b == ZhimeiV1To(d)
<1>1. /\ c.param = 0 /\ c.arg3 = 0 /\ c.restart = 1 /\ c.seed1 = 0
  <2>1. Room("zhimei_v1")
          = {"arg0", "arg1", "arg2", "id0", "id1", "id2", "id3", "index", "tx", "seed0"}
    BY DEF Room, V1Codecs, Args3, Id4
  <2> QED BY <2>1, NotSet
<1>2. e \in [0 .. 13 -> Byte]
  <2>1. 255 \in Byte BY DEF Byte
  <2> QED BY <2>1, CommandBytes DEF Buffer
<1>3. /\ e[0] = 255 /\ e[1] = c.seed0 /\ e[2] = c.tx /\ e[3] = c.id0 /\ e[4] = c.id1
      /\ e[5] = c.id2 /\ e[6] = c.id3 /\ e[7] = c.cmd /\ e[8] = c.index /\ e[9] = 255
      /\ e[10] = c.tx /\ e[11] = c.arg0 /\ e[12] = c.arg1 /\ e[13] = c.arg2
  BY DEF Buffer
<1>4. d = MatrixApplied(f, 0, 6) BY DEF ZhimeiV1From
<1> HIDE DEF e, d
<1> DEFINE m == MatrixApplied(e, 9, 10)
<1>5. /\ m \in [0 .. 13 -> Byte] /\ \A i \in 0 .. 13 : i < 9 => m[i] = e[i]
      /\ MatrixUnapplied(m, 9, 10) = e
  <2>1. 9 \in {0, 9} /\ 10 \in Nat OBVIOUS
  <2>2. e[9] = 255 BY <1>3
  <2> QED BY <1>2, <2>1, <2>2, MatrixUndone
<1>6. f \in [0 .. 13 -> Byte] /\ f[0] = 255 /\ f[7] = c.cmd
  <2>1. CASE c.cmd = ZhimeiPair BY <1>2, <1>3, <2>1
  <2>2. CASE c.cmd # ZhimeiPair
    <3>1. f = m BY <2>2
    <3> HIDE DEF f, m
    <3> QED BY <1>3, <1>5, <3>1
  <2> QED BY <2>1, <2>2
<1>7. h = f
  <2>1. 0 \in {0, 9} /\ 6 \in Nat OBVIOUS
  <2> HIDE DEF f
  <2>2. MatrixUnapplied(MatrixApplied(f, 0, 6), 0, 6) = f BY <1>6, <2>1, MatrixUndone
  <2> QED BY <1>4, <2>2 DEF h
<1>8. (IF h[7] = ZhimeiPair THEN h ELSE MatrixUnapplied(h, 9, 10)) = e
  <2>1. CASE c.cmd = ZhimeiPair BY <1>6, <1>7, <2>1
  <2>2. CASE c.cmd # ZhimeiPair
    <3>1. f = m BY <2>2
    <3> HIDE DEF f, m, h
    <3> QED BY <1>5, <1>6, <1>7, <2>2, <3>1
  <2> QED BY <2>1, <2>2
<1>9. b = LET g == IF h[7] = ZhimeiPair THEN h ELSE MatrixUnapplied(h, 9, 10)
          IN  IF g[2] # g[10] \/ g[0] # 255 \/ g[9] # 255 THEN NotMine
              ELSE [Nothing EXCEPT !.cmd = g[7], !.arg0 = g[11], !.arg1 = g[12], !.arg2 = g[13],
                                   !.id0 = g[3], !.id1 = g[4], !.id2 = g[5], !.id3 = g[6],
                                   !.index = g[8], !.tx = g[2], !.seed0 = g[1]]
  BY DEF ZhimeiV1To
<1> HIDE DEF b, h
<1>10. b = [Nothing EXCEPT !.cmd = e[7], !.arg0 = e[11], !.arg1 = e[12], !.arg2 = e[13],
                           !.id0 = e[3], !.id1 = e[4], !.id2 = e[5], !.id3 = e[6],
                           !.index = e[8], !.tx = e[2], !.seed0 = e[1]]
  BY <1>3, <1>8, <1>9
<1>11. Whole(b) BY <1>10, ZenonT(60) DEF Whole, Fields, Nothing
<1>12. b = c
  <2>1. /\ b.cmd = e[7] /\ b.param = 0 /\ b.arg0 = e[11] /\ b.arg1 = e[12]
        /\ b.arg2 = e[13] /\ b.arg3 = 0 /\ b.id0 = e[3] /\ b.id1 = e[4] /\ b.id2 = e[5]
        /\ b.id3 = e[6] /\ b.index = e[8] /\ b.tx = e[2] /\ b.restart = 1
        /\ b.seed0 = e[1] /\ b.seed1 = 0 /\ Short(b)
    BY <1>10 DEF Nothing, Short
  <2>2. Whole(c) /\ Short(c) BY CommandBytes, CommandWhole, CommandShort DEF Codecs
  <2> QED BY <1>1, <1>3, <1>11, <2>1, <2>2, SameFields
<1>13. From("zhimei_v1", c) = d /\ To("zhimei_v1", d) = b /\ Carried("zhimei_v1", c) = c
  BY DEF From, To, Carried, V1Codecs, d, b
<1> QED BY <1>12, <1>13 DEF ReadsBack

-----------------------------------------------------------------------------
\* Two lists of bytes, one after the other.
LEMMA Joined ==
  ASSUME NEW s \in Seq(Byte), NEW t \in Seq(Byte)
  PROVE  /\ s \o t \in Seq(Byte) /\ Len(s \o t) = Len(s) + Len(t)
         /\ \A i \in 1 .. Len(s) : (s \o t)[i] = s[i]
         /\ \A i \in 1 .. Len(t) : (s \o t)[Len(s) + i] = t[i]
<1> DEFINE u == s \o t
           n == Len(s)
           m == Len(t)
<1>1. n \in Nat /\ m \in Nat OBVIOUS
<1>2. /\ u \in Seq(Byte) /\ Len(u) = n + m
      /\ \A i \in 1 .. n + m : u[i] = IF i <= n THEN s[i] ELSE t[i - n]
  BY ConcatProperties, Zenon
<1> HIDE DEF u, n, m
<1>3. ASSUME NEW i \in 1 .. n PROVE u[i] = s[i]
  <2>1. i \in 1 .. n + m /\ i <= n BY <1>1
  <2> QED BY <1>2, <2>1, Zenon
<1>4. ASSUME NEW i \in 1 .. m PROVE u[n + i] = t[i]
  <2>1. n + i \in 1 .. n + m /\ ~(n + i <= n) /\ (n + i) - n = i BY <1>1
  <2>2. u[n + i] = t[(n + i) - n] BY <1>2, <2>1, Zenon
  <2> QED BY <2>1, <2>2
<1> QED BY <1>2, <1>3, <1>4, Zenon DEF u, n, m

\* The plain bytes of le.
LeHead(c) == <<c.id0, c.id1, c.id2, c.id3, 254, c.index, c.tx, c.cmd, c.param>>
LeArgs(c) == <<c.arg0, c.arg1, c.arg2>>

LEMMA LePlainBytes ==
  ASSUME NEW c \in Commands("le")
  PROVE  /\ c.param \in 0 .. 3
         /\ LePlain(c) \in Seq(Byte) /\ Len(LePlain(c)) = 9 + c.param
         /\ \A i \in 1 .. 9 : LePlain(c)[i] = LeHead(c)[i]
         /\ \A i \in 1 .. c.param : LePlain(c)[9 + i] = LeArgs(c)[i]
<1> DEFINE h == LeHead(c)
           a == LeArgs(c)
           p == c.param
           t == SubSeq(a, 1, p)
<1>1. p \in 0 .. 3
  <2>1. p \in Byte BY CommandBytes
  <2>2. p < 4 BY DEF Commands
  <2> HIDE DEF p
  <2> QED BY <2>1, <2>2 DEF Byte
<1>2. h \in Seq(Byte) /\ Len(h) = 9
  <2>1. 254 \in Byte BY DEF Byte
  <2> QED BY <2>1, CommandBytes DEF LeHead
<1>3. \A i \in 1 .. 3 : a[i] \in Byte BY CommandBytes DEF LeArgs
<1> HIDE DEF h, a, p
<1>4. t \in Seq(Byte) /\ Len(t) = p /\ \A i \in 1 .. p : t[i] = a[i]
  <2>1. 1 \in Int /\ p \in Int /\ \A i \in 1 .. p : a[i] \in Byte BY <1>1, <1>3
  <2>2. /\ t \in Seq(Byte) /\ Len(t) = IF 1 <= p THEN p - 1 + 1 ELSE 0
        /\ \A i \in 1 .. p - 1 + 1 : t[i] = a[1 + i - 1]
    BY <2>1, SubSeqProperties
  <2>3. p - 1 + 1 = p /\ (IF 1 <= p THEN p - 1 + 1 ELSE 0) = p BY <1>1
  <2>4. \A i \in 1 .. p : 1 + i - 1 = i BY <1>1
  <2> HIDE DEF t
  <2> QED BY <2>2, <2>3, <2>4
<1>5. LePlain(c) = h \o t BY DEF LePlain, h, a, p, LeHead, LeArgs
<1> HIDE DEF t
<1>6. /\ h \o t \in Seq(Byte) /\ Len(h \o t) = 9 + p
      /\ \A i \in 1 .. 9 : (h \o t)[i] = h[i]
      /\ \A i \in 1 .. p : (h \o t)[9 + i] = t[i]
  <2> DEFINE u == h \o t
  <2>1. /\ u \in Seq(Byte) /\ Len(u) = Len(h) + Len(t)
        /\ \A i \in 1 .. Len(h) : u[i] = h[i]
        /\ \A i \in 1 .. Len(t) : u[Len(h) + i] = t[i]
    BY <1>2, <1>4, Joined, Zenon
  <2> HIDE DEF u
  <2>2. /\ u \in Seq(Byte) /\ Len(u) = 9 + p
        /\ \A i \in 1 .. 9 : u[i] = h[i]
        /\ \A i \in 1 .. p : u[9 + i] = t[i]
    BY <1>2, <1>4, <2>1
  <2> QED BY <2>2 DEF u
<1> QED BY <1>1, <1>4, <1>5, <1>6, Zenon DEF h, a, p

\* The checksum of a list of bytes is a byte.
LEMMA LeChecksumByte ==
  ASSUME NEW s \in Seq(Byte)
  PROVE  LeChecksum(s) \in Byte
<1> DEFINE t == Total(s)
<1>1. s \in Seq(Nat)
  <2>1. \A y \in Byte : y \in Nat BY DEF Byte
  <2> QED BY <2>1
<1>2. t \in Nat BY <1>1, TotalType
<1> HIDE DEF t
<1>3. (t + 1) % 256 \in Byte /\ 255 \in Byte BY <1>2 DEF Byte
<1>4. LeChecksum(s) = ((t + 1) % 256) (+) 255 BY DEF LeChecksum, t
<1> QED BY <1>3, <1>4, XorType

\* Its length, the plain bytes and the checksum.
LeData(c) == <<Len(LePlain(c)) + 2, 1>> \o LePlain(c) \o <<LeChecksum(LePlain(c))>>

LEMMA LeDataBytes ==
  ASSUME NEW c \in Commands("le")
  PROVE  /\ LeData(c) \in Seq(Byte) /\ Len(LeData(c)) = 12 + c.param
         /\ LeData(c)[1] = 11 + c.param /\ LeData(c)[2] = 1
         /\ \A i \in 1 .. 9 + c.param : LeData(c)[2 + i] = LePlain(c)[i]
         /\ LeData(c)[12 + c.param] = LeChecksum(LePlain(c))
<1> DEFINE s == LePlain(c)
           p == c.param
           k == LeChecksum(s)
           l == Len(s) + 2
           v == <<l, 1>>
           w == <<k>>
           u == v \o s
           d == u \o w
<1>1. p \in 0 .. 3 /\ s \in Seq(Byte) /\ Len(s) = 9 + p BY LePlainBytes
<1> HIDE DEF s, p
<1>2. k \in Byte BY <1>1, LeChecksumByte
<1>3. l = 11 + p /\ l \in Byte BY <1>1 DEF Byte
<1> HIDE DEF k, l
<1>4. v \in Seq(Byte) /\ Len(v) = 2 /\ v[1] = l /\ v[2] = 1
  <2>1. 1 \in Byte BY DEF Byte
  <2> QED BY <1>3, <2>1
<1>5. w \in Seq(Byte) /\ Len(w) = 1 /\ w[1] = k BY <1>2
<1>6. LeData(c) = d BY DEF LeData, s, k, l
<1> HIDE DEF v, w
<1>7. /\ u \in Seq(Byte) /\ Len(u) = 2 + Len(s)
      /\ \A i \in 1 .. 2 : u[i] = v[i]
      /\ \A i \in 1 .. Len(s) : u[2 + i] = s[i]
  <2>1. /\ u \in Seq(Byte) /\ Len(u) = Len(v) + Len(s)
        /\ \A i \in 1 .. Len(v) : u[i] = v[i]
        /\ \A i \in 1 .. Len(s) : u[Len(v) + i] = s[i]
    BY <1>1, <1>4, Joined, Zenon
  <2> HIDE DEF u
  <2> QED BY <1>4, <2>1
<1> HIDE DEF u
<1>8. /\ d \in Seq(Byte) /\ Len(d) = Len(u) + 1
      /\ \A i \in 1 .. Len(u) : d[i] = u[i]
      /\ d[Len(u) + 1] = w[1]
  <2>1. 1 \in 1 .. 1 OBVIOUS
  <2>2. /\ d \in Seq(Byte) /\ Len(d) = Len(u) + Len(w)
        /\ \A i \in 1 .. Len(u) : d[i] = u[i]
        /\ \A i \in 1 .. Len(w) : d[Len(u) + i] = w[i]
    BY <1>5, <1>7, Joined, Zenon
  <2> HIDE DEF d
  <2> QED BY <1>5, <2>1, <2>2
<1> HIDE DEF d
<1>9. Len(u) = 11 + p /\ Len(d) = 12 + p /\ Len(u) + 1 = 12 + p BY <1>1, <1>7, <1>8
<1>10. \A i \in 1 .. 9 + p : d[2 + i] = s[i]
  <2> TAKE i \in 1 .. 9 + p
  <2>1. 2 + i \in 1 .. 11 + p BY <1>1
  <2>2. i \in 1 .. Len(s) /\ 2 + i \in 1 .. Len(u) BY <1>1, <1>9, <2>1
  <2> QED BY <1>7, <1>8, <2>2, Zenon
<1>11. d[1] = l /\ d[2] = 1
  <2>1. 1 \in 1 .. 2 /\ 2 \in 1 .. 2 /\ 1 \in 1 .. 11 + p /\ 2 \in 1 .. 11 + p BY <1>1
  <2>2. 1 \in 1 .. Len(u) /\ 2 \in 1 .. Len(u) BY <1>9, <2>1
  <2>3. d[1] = u[1] /\ d[2] = u[2] BY <1>8, <2>2, Zenon
  <2>4. u[1] = v[1] /\ u[2] = v[2] BY <1>7, <2>1, Zenon
  <2> QED BY <1>4, <2>3, <2>4
<1>12. d[12 + p] = k BY <1>5, <1>8, <1>9
<1> QED BY <1>3, <1>6, <1>8, <1>9, <1>10, <1>11, <1>12 DEF s, p, k

LEMMA LeBack ==
  ASSUME NEW c \in Commands("le")
  PROVE  ReadsBack("le", c)
<1> DEFINE p    == c.param
           n    == 9 + p
           s    == LePlain(c)
           k    == LeChecksum(s)
           data == LeData(c)
           box  == LeBoxes[Low(c.id0)]
           buf  == LeFrom(c)
           d    == [i \in 0 .. buf[0] - 2 |-> IF i < 4 THEN buf[i + 2]
                                              ELSE buf[i + 2] (+) LeBoxes[Low(buf[2])]]
           Arg(m) == IF d[8] < m THEN 0 ELSE d[8 + m]
           b    == LeTo(buf)
<1>1. /\ c.arg3 = 0 /\ c.restart = 1 /\ c.seed0 = 0 /\ c.seed1 = 0
  <2>1. Room("le")
          = {"arg0", "arg1", "arg2", "id0", "id1", "id2", "id3", "param", "index", "tx"}
    BY DEF Room, V1Codecs, Args3, Id4
  <2> QED BY <2>1, NotSet
<1>2. /\ p \in 0 .. 3 /\ s \in Seq(Byte) /\ Len(s) = n
      /\ \A i \in 1 .. 9 : s[i] = LeHead(c)[i]
      /\ \A i \in 1 .. p : s[9 + i] = LeArgs(c)[i]
  BY LePlainBytes
<1>3. /\ data \in Seq(Byte) /\ Len(data) = n + 3 /\ data[1] = n + 2 /\ data[2] = 1
      /\ \A i \in 1 .. n : data[2 + i] = s[i]
      /\ data[n + 3] = k
  <2> HIDE DEF s, k, data
  <2>1. /\ data \in Seq(Byte) /\ Len(data) = 12 + p /\ data[1] = 11 + p /\ data[2] = 1
        /\ \A i \in 1 .. 9 + p : data[2 + i] = s[i]
        /\ data[12 + p] = k
    BY LeDataBytes DEF data, s, k
  <2>2. n + 3 = 12 + p /\ n + 2 = 11 + p BY <1>2
  <2> QED BY <2>1, <2>2
<1>4. box \in Byte
  <2> DEFINE y == c.id0
  <2>1. y \in Byte BY CommandBytes
  <2> HIDE DEF y
  <2>2. Low(y) \in 0 .. 15 BY <2>1 DEF Byte, Low
  <2>3. \A j \in 0 .. 15 : LeBoxes[j] \in Byte BY DEF LeBoxes, Buffer, Byte
  <2> QED BY <2>2, <2>3 DEF y
<1>5. buf = [i \in 0 .. 20 |-> IF i >= Len(data) THEN 0
               ELSE IF i < 6 THEN data[i + 1] ELSE data[i + 1] (+) box]
  BY DEF LeFrom, LeData
<1>6. n \in 9 .. 12 BY <1>2
<1> HIDE DEF p, n, s, k, data, box, buf
<1>7. /\ \A i \in 0 .. 5 : buf[i] = data[i + 1]
      /\ \A i \in 6 .. n + 2 : buf[i] = data[i + 1] (+) box
      /\ \A i \in n + 3 .. 20 : buf[i] = 0
  <2>1. ASSUME NEW i \in 0 .. 5 PROVE buf[i] = data[i + 1]
    <3>1. i \in 0 .. 20 /\ ~(i >= n + 3) /\ i < 6 BY <1>6
    <3> QED BY <1>3, <1>5, <3>1
  <2>2. ASSUME NEW i \in 6 .. n + 2 PROVE buf[i] = data[i + 1] (+) box
    <3>1. i \in 0 .. 20 /\ ~(i >= n + 3) /\ ~(i < 6) BY <1>6
    <3> QED BY <1>3, <1>5, <3>1
  <2>3. ASSUME NEW i \in n + 3 .. 20 PROVE buf[i] = 0
    <3>1. i \in 0 .. 20 /\ i >= n + 3 BY <1>6
    <3> QED BY <1>3, <1>5, <3>1
  <2> QED BY <2>1, <2>2, <2>3
<1>8. buf[0] = n + 2 /\ buf[1] = 1 /\ buf[2] = c.id0
  <2>1. buf[0] = data[1] /\ buf[1] = data[2] /\ buf[2] = data[3] BY <1>7
  <2>2. 1 \in 1 .. n /\ 2 + 1 = 3 BY <1>6
  <2>3. data[3] = s[1] BY <1>3, <2>2
  <2>4. s[1] = c.id0 BY <1>2 DEF LeHead
  <2> QED BY <1>3, <2>1, <2>3, <2>4
<1>9. d = [i \in 0 .. n |-> IF i < 4 THEN buf[i + 2] ELSE buf[i + 2] (+) box]
  <2>1. buf[0] - 2 = n BY <1>6, <1>8
  <2> QED BY <1>8, <2>1 DEF box
<1>10. b = IF \/ buf[0] > 20 \/ buf[1] # 1 \/ \E i \in buf[0] + 1 .. 20 : buf[i] # 0
              \/ d[4] # 254
              \/ d[buf[0] - 2] # LeChecksum([i \in 1 .. buf[0] - 2 |-> d[i - 1]])
           THEN NotMine
           ELSE [Nothing EXCEPT !.cmd = d[7], !.param = d[8], !.arg0 = Arg(1), !.arg1 = Arg(2),
                                !.arg2 = Arg(3), !.id0 = d[0], !.id1 = d[1], !.id2 = d[2],
                                !.id3 = d[3], !.index = d[5], !.tx = d[6]]
  BY DEF LeTo
<1> HIDE DEF d, b
<1>11. \A i \in 0 .. n : d[i] = data[i + 3]
  <2> TAKE i \in 0 .. n
  <2>1. i + 3 \in 1 .. n + 3 /\ i + 2 + 1 = i + 3 /\ i + 2 \in 0 .. n + 2 BY <1>6
  <2>2. data[i + 3] \in Byte BY <1>3, <2>1
  <2>3. CASE i < 4
    <3>1. i + 2 \in 0 .. 5 BY <2>3
    <3> QED BY <1>7, <1>9, <2>1, <2>3, <3>1
  <2>4. CASE ~(i < 4)
    <3>1. i + 2 \in 6 .. n + 2 BY <2>1, <2>4
    <3>2. buf[i + 2] = data[i + 3] (+) box BY <1>7, <2>1, <3>1
    <3>3. d[i] = buf[i + 2] (+) box BY <1>9, <2>4
    <3> QED BY <1>4, <2>2, <3>2, <3>3, Undone
  <2> QED BY <2>3, <2>4
<1>12. d[n] = k /\ \A i \in 1 .. n : d[i - 1] = s[i]
  <2>1. d[n] = k BY <1>3, <1>6, <1>11
  <2>2. ASSUME NEW i \in 1 .. n PROVE d[i - 1] = s[i]
    <3>1. i - 1 \in 0 .. n /\ (i - 1) + 3 = 2 + i BY <1>6
    <3>2. d[i - 1] = data[(i - 1) + 3] BY <1>11, <3>1
    <3> QED BY <1>3, <3>1, <3>2
  <2> QED BY <2>1, <2>2
<1>13. /\ d[0] = c.id0 /\ d[1] = c.id1 /\ d[2] = c.id2 /\ d[3] = c.id3 /\ d[4] = 254
       /\ d[5] = c.index /\ d[6] = c.tx /\ d[7] = c.cmd /\ d[8] = p
  <2>1. \A i \in 1 .. 9 : d[i - 1] = LeHead(c)[i]
    <3>1. \A i \in 1 .. 9 : i \in 1 .. n BY <1>6
    <3> QED BY <1>2, <1>12, <3>1
  <2>2. /\ d[1 - 1] = LeHead(c)[1] /\ d[2 - 1] = LeHead(c)[2] /\ d[3 - 1] = LeHead(c)[3]
        /\ d[4 - 1] = LeHead(c)[4] /\ d[5 - 1] = LeHead(c)[5] /\ d[6 - 1] = LeHead(c)[6]
        /\ d[7 - 1] = LeHead(c)[7] /\ d[8 - 1] = LeHead(c)[8] /\ d[9 - 1] = LeHead(c)[9]
    BY <2>1
  <2> QED BY <2>2 DEF LeHead, p
<1>14. /\ Arg(1) = (IF p < 1 THEN 0 ELSE c.arg0)
       /\ Arg(2) = (IF p < 2 THEN 0 ELSE c.arg1)
       /\ Arg(3) = (IF p < 3 THEN 0 ELSE c.arg2)
  <2>1. ASSUME NEW m \in 1 .. 3, ~(p < m) PROVE d[8 + m] = LeArgs(c)[m]
    <3>1. 9 + m \in 1 .. n /\ (9 + m) - 1 = 8 + m /\ m \in 1 .. p BY <1>2, <2>1 DEF n
    <3> QED BY <1>2, <1>12, <3>1
  <2>2. /\ ~(p < 1) => d[8 + 1] = LeArgs(c)[1]
        /\ ~(p < 2) => d[8 + 2] = LeArgs(c)[2]
        /\ ~(p < 3) => d[8 + 3] = LeArgs(c)[3]
    BY <2>1
  <2> QED BY <1>13, <2>2 DEF LeArgs
<1>15. LeChecksum([i \in 1 .. n |-> d[i - 1]]) = k
  <2>1. [i \in 1 .. n |-> d[i - 1]] = [i \in 1 .. n |-> s[i]] BY <1>12
  <2>2. s = [i \in 1 .. n |-> s[i]] BY <1>2
  <2> QED BY <2>1, <2>2 DEF k
<1> HIDE DEF Arg
<1>16. b = [Nothing EXCEPT !.cmd = d[7], !.param = d[8], !.arg0 = Arg(1), !.arg1 = Arg(2),
                           !.arg2 = Arg(3), !.id0 = d[0], !.id1 = d[1], !.id2 = d[2],
                           !.id3 = d[3], !.index = d[5], !.tx = d[6]]
  <2>1. buf[0] - 2 = n /\ ~(buf[0] > 20) /\ buf[0] + 1 = n + 3 BY <1>6, <1>8
  <2>2. ~ \E i \in buf[0] + 1 .. 20 : buf[i] # 0 BY <1>7, <2>1
  <2>3. d[buf[0] - 2] = LeChecksum([i \in 1 .. buf[0] - 2 |-> d[i - 1]])
    BY <1>12, <1>15, <2>1
  <2> QED BY <1>8, <1>10, <1>13, <2>1, <2>2, <2>3
<1>17. Whole(b) BY <1>16, ZenonT(60) DEF Whole, Fields, Nothing
<1> DEFINE e == Carried("le", c)
<1>18. e = [c EXCEPT !.arg0 = IF p < 1 THEN 0 ELSE c.arg0,
                     !.arg1 = IF p < 2 THEN 0 ELSE c.arg1,
                     !.arg2 = IF p < 3 THEN 0 ELSE c.arg2]
  BY DEF Carried, V1Codecs, p
<1> HIDE DEF e
<1>19. c = [f \in Fields |-> c[f]] /\ Short(c)
  <2>1. Whole(c) /\ Short(c) BY CommandBytes, CommandWhole, CommandShort DEF Codecs
  <2> QED BY <2>1 DEF Whole
<1>20. /\ e.cmd = c.cmd /\ e.param = p /\ e.arg0 = Arg(1) /\ e.arg1 = Arg(2)
       /\ e.arg2 = Arg(3) /\ e.arg3 = 0 /\ e.id0 = c.id0 /\ e.id1 = c.id1 /\ e.id2 = c.id2
       /\ e.id3 = c.id3 /\ e.index = c.index /\ e.tx = c.tx /\ e.restart = 1 /\ e.seed0 = 0
       /\ e.seed1 = 0 /\ Whole(e) /\ Short(e)
  BY <1>1, <1>14, <1>18, <1>19 DEF Fields, Whole, Short, p
<1>21. b = e
  <2>1. /\ b.cmd = d[7] /\ b.param = d[8] /\ b.arg0 = Arg(1) /\ b.arg1 = Arg(2)
        /\ b.arg2 = Arg(3) /\ b.arg3 = 0 /\ b.id0 = d[0] /\ b.id1 = d[1] /\ b.id2 = d[2]
        /\ b.id3 = d[3] /\ b.index = d[5] /\ b.tx = d[6] /\ b.restart = 1 /\ b.seed0 = 0
        /\ b.seed1 = 0 /\ Short(b)
    BY <1>16 DEF Nothing, Short
  <2> QED BY <1>13, <1>17, <1>20, <2>1, SameFields
<1>22. LePlain(e) = s
  <2>1. LeHead(e) = LeHead(c) BY <1>20 DEF LeHead, p
  <2>2. SubSeq(LeArgs(e), 1, p) = SubSeq(LeArgs(c), 1, p)
    <3>1. \A i \in 1 .. p : LeArgs(e)[i] = LeArgs(c)[i]
      <4>1. 1 <= p => e.arg0 = c.arg0 BY <1>2, <1>14, <1>20
      <4>2. 2 <= p => e.arg1 = c.arg1 BY <1>2, <1>14, <1>20
      <4>3. 3 <= p => e.arg2 = c.arg2 BY <1>2, <1>14, <1>20
      <4>4. \A i \in 1 .. p : (i = 1 /\ 1 <= p) \/ (i = 2 /\ 2 <= p) \/ (i = 3 /\ 3 <= p)
        BY <1>2
      <4> QED BY <4>1, <4>2, <4>3, <4>4 DEF LeArgs
    <3> QED BY <1>2, <3>1
  <2>3. LePlain(e) = LeHead(e) \o SubSeq(LeArgs(e), 1, p) BY <1>20 DEF LePlain, LeHead, LeArgs
  <2>4. s = LeHead(c) \o SubSeq(LeArgs(c), 1, p) BY DEF LePlain, LeHead, LeArgs, s, p
  <2> QED BY <2>1, <2>2, <2>3, <2>4
<1>23. LeFrom(e) = buf BY <1>20, <1>22 DEF LeFrom, buf, s
<1>24. /\ From("le", c) = buf /\ To("le", buf) = b /\ Carried("le", c) = e
       /\ From("le", e) = LeFrom(e)
  BY DEF From, To, Carried, V1Codecs, buf, b, e
<1> QED BY <1>21, <1>23, <1>24 DEF ReadsBack

-----------------------------------------------------------------------------
\* Every codec reads back what it wrote, and writes what it read to the same bytes, for
\* every command its format has room for.
THEOREM FormatsReadBack ==
  ASSUME NEW codec \in Codecs, NEW c \in Commands(codec)
  PROVE  ReadsBack(codec, c)
<1>1. CASE codec \in V1Codecs BY <1>1, FanLampV1Back
<1>2. CASE codec \in {"zhijia_v0", "zhijia_v1", "zhijia_v2", "zhijia_vr1"}
  BY <1>2, ZhijiaV0Back, ZhijiaV1Back, ZhijiaV2Back, ZhijiaRemoteBack
<1>3. CASE codec \in {"fanlamp_r0", "fanlamp_r1", "fanlamp_v2"}
  BY <1>3, FanLampR0Back, FanLampR1Back, FanLampV2Back
<1>4. CASE codec \in {"agarce", "agarce_vr"} BY <1>4, AgarceBack, AgarceRemoteBack
<1>5. CASE codec \in {"zhimei_v1", "zhimei_v2"} BY <1>5, ZhimeiV1Back, ZhimeiV2Back
<1>6. CASE codec \in {"rw", "le", "ruixin", "remote", "smartelfin"}
  BY <1>6, RwBack, LeBack, RuiXinBack, RemoteBack, SmartElfinBack
<1> QED BY <1>1, <1>2, <1>3, <1>4, <1>5, <1>6 DEF Codecs

\* The inductive invariant of a frame: its command is one that the codec is given, and
\* what was read is what it reads in it.
FrameInv ==
  task = "frame" =>
    \E codec \in Codecs : \E c \in Tried[codec] :
      /\ input = [codec |-> codec, c |-> c]
      /\ work = From(codec, c)
      /\ out \in {<<>>, <<To(codec, From(codec, c))>>}

LEMMA FrameInit == Init => FrameInv
<1> SUFFICES ASSUME InitFrame PROVE FrameInv
  BY DEF Init, InitSplit, InitCount, InitPress, InitLevel, FrameInv
<1> QED BY DEF InitFrame, FrameInv

LEMMA FrameStep == FrameInv /\ [Next]_vars => FrameInv'
<1> SUFFICES ASSUME FrameInv, [Next]_vars, task = "frame", task' = "frame" PROVE FrameInv'
  <2>1. [Next]_vars => task' = task
    BY DEF Next, vars, TakeNext, EncodeAdvs, Press, Hear, Hold, Release, Show, SendAgain,
           ReadBack
  <2> QED BY <2>1 DEF FrameInv
<1>1. PICK codec \in Codecs : \E c \in Tried[codec] :
        /\ input = [codec |-> codec, c |-> c]
        /\ work = From(codec, c)
        /\ out \in {<<>>, <<To(codec, From(codec, c))>>}
  BY DEF FrameInv
<1>2. PICK c \in Tried[codec] :
        /\ input = [codec |-> codec, c |-> c]
        /\ work = From(codec, c)
        /\ out \in {<<>>, <<To(codec, From(codec, c))>>}
  BY <1>1
<1>3. CASE ReadBack
  <2>1. out' = <<To(codec, From(codec, c))>> /\ input' = input /\ work' = work
    BY <1>2, <1>3 DEF ReadBack
  <2> QED BY <1>2, <2>1 DEF FrameInv
<1>4. CASE UNCHANGED vars BY <1>2, <1>4 DEF vars, FrameInv
<1> QED
  BY <1>3, <1>4
     DEF Next, TakeNext, EncodeAdvs, Press, Hear, Hold, Release, Show, SendAgain

\* What a codec reads in what it wrote is the command it was given, but for what its
\* format has no room for, and it writes it again to the same bytes: for every codec and
\* every command.
THEOREM ReadAsWritten == Spec => []HeardAsSent
<1>1. FrameInv => HeardAsSent
  <2> SUFFICES ASSUME FrameInv, task = "frame", out # <<>>
               PROVE  /\ out[1] = Carried(input.codec, input.c)
                      /\ From(input.codec, out[1]) = work
    BY DEF HeardAsSent
  <2>1. PICK codec \in Codecs : \E c \in Tried[codec] :
          /\ input = [codec |-> codec, c |-> c]
          /\ work = From(codec, c)
          /\ out \in {<<>>, <<To(codec, From(codec, c))>>}
    BY DEF FrameInv
  <2>2. PICK c \in Tried[codec] :
          /\ input = [codec |-> codec, c |-> c]
          /\ work = From(codec, c)
          /\ out \in {<<>>, <<To(codec, From(codec, c))>>}
    BY <2>1
  <2>3. c \in Commands(codec) BY <2>2, FrameAssumption
  <2>4. ReadsBack(codec, c) BY <2>3, FormatsReadBack
  <2>5. out[1] = To(codec, From(codec, c)) /\ input.codec = codec /\ input.c = c BY <2>2
  <2> QED BY <2>2, <2>4, <2>5 DEF ReadsBack
<1> QED BY <1>1, FrameInit, FrameStep, PTL DEF Spec
=============================================================================

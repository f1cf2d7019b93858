------------------------- MODULE PpobProviderProofs -------------------------
(***************************************************************************)
(* The provider's side, for any sets of buckets, requests, sessions and    *)
(* keys: the deposit bucket loses no update, credits a pair of bills once  *)
(* and ties out to the general ledger; the Oracle bridge loses no row of   *)
(* the queue but those named, and calls nothing a success that was not     *)
(* delivered.  The two components share no state.                          *)
(***************************************************************************)
EXTENDS PpobBucket, PpobOracle, SequenceTheorems, FiniteSetTheorems,
        WellFoundedInduction, TLAPS

-----------------------------------------------------------------------------
(***************************************************************************)
(* The deposit bucket: induction and sums first, then journals, then the   *)
(* credits of pairs of bills, then the steps of a session.                 *)
(***************************************************************************)

\* A set of naturals with zero and the successor of each of its members has them all.
LEMMA Induct ==
  ASSUME NEW T \in SUBSET Nat, 0 \in T, \A n \in T : n + 1 \in T
  PROVE  T = Nat
<1> SUFFICES ASSUME Nat \ T # {} PROVE FALSE
  OBVIOUS
<1> DEFINE R == OpToRel(<, Nat)
<1>1. IsWellFoundedOn(R, Nat)
  BY NatLessThanWellFounded
<1>2. \A i, j \in Nat : <<i, j>> \in R <=> i < j
  BY DEF OpToRel
<1> HIDE DEF R
<1>3. \E x \in Nat \ T : \A y \in Nat \ T : ~(<<y, x>> \in R)
  BY <1>1, WFMin
<1>4. PICK x \in Nat \ T : \A y \in Nat \ T : ~(y < x)
  BY <1>2, <1>3
<1>5. x # 0 /\ x - 1 \in Nat /\ x - 1 < x
  BY <1>4
<1>6. x - 1 \in T
  BY <1>4, <1>5
<1>7. (x - 1) + 1 \in T
  BY <1>6
<1> QED BY <1>4, <1>7

\* Buckets, log rows and pairs are rows of three tables, and no bill is NoBill.
LEMMA RowFacts ==
  /\ Bucket \subseteq Row /\ Pair \subseteq Row /\ Request \subseteq Row
  /\ Bucket \cap Pair = {} /\ Request \cap Pair = {} /\ Bucket \cap Request = {}
  /\ Pair = Request \X (1..MaxPairs) /\ \A p \in Pair : p[1] \in Request
  /\ Bill = Pair \X Role /\ NoBill \notin Bill
  /\ NoTopup \in Topup /\ NewDatabase \in Database /\ NoDrafts \in [Bucket -> Seq(Move)]
<1>1. NoBill \notin Bill
  BY BillAssumption DEF Bill, Role
<1>2. NoTopup.bucket \in Bucket
  BY BucketAssumption DEF NoTopup
<1>3. NoTopup \in Topup
  BY <1>2 DEF NoTopup, Topup, Timing
<1>4. << >> \in Seq(Move)
  OBVIOUS
<1>5. NewDatabase \in Database /\ NoDrafts \in [Bucket -> Seq(Move)]
  BY <1>3, <1>4 DEF NewDatabase, Database, NoDrafts, Timing
<1>6. Pair = Request \X (1..MaxPairs) /\ \A p \in Pair : p[1] \in Request
  BY DEF Pair
<1>7. /\ Bucket \subseteq Row /\ Pair \subseteq Row /\ Request \subseteq Row
      /\ Bucket \cap Pair = {} /\ Request \cap Pair = {} /\ Bucket \cap Request = {}
  BY RowAssumption DEF Row
<1> QED BY <1>1, <1>3, <1>5, <1>6, <1>7 DEF Bill

\* The closing balance of a journal of moves is an integer.
LEMMA ClosingType ==
  ASSUME NEW b \in Int, NEW j \in Seq(Move)
  PROVE  Sub!Closing(b, j) \in Int
<1>1. CASE Len(j) = 0
  BY <1>1 DEF Sub!Closing
<1>2. CASE Len(j) # 0
  <2>1. j[Len(j)] \in Move
    BY <1>2, ElementOfSeq, LenProperties
  <2> QED BY <1>2, <2>1 DEF Sub!Closing, Move
<1> QED BY <1>1, <1>2

\* A move chained onto the end of a chained journal keeps it chained.
LEMMA ChainAppend ==
  ASSUME NEW b \in Int, NEW j \in Seq(Move), NEW e \in Move, Sub!Chained(b, j),
         e.after = Sub!Closing(b, j) + e.amount
  PROVE  Sub!Chained(b, Append(j, e)) /\ Sub!Closing(b, Append(j, e)) = e.after
<1> DEFINE k == Append(j, e)
<1>1. Sub!Closing(b, j) \in Int
  BY ClosingType
<1>2. /\ k \in Seq(Move)
      /\ Len(k) = Len(j) + 1
      /\ k[Len(j) + 1] = e
      /\ \A i \in 1..Len(j) : k[i] = j[i]
  BY AppendProperties
<1>3. Sub!Closing(b, k) = e.after
  BY <1>2 DEF Sub!Closing
<1>4. ASSUME NEW i \in 1..Len(k)
      PROVE  k[i].after = Sub!Before(b, k, i) + k[i].amount
  <2>1. CASE i \in 1..Len(j)
    BY <2>1, <1>2 DEF Sub!Chained, Sub!Before
  <2>2. CASE i = Len(j) + 1
    BY <2>2, <1>1, <1>2 DEF Sub!Before, Sub!Closing
  <2> QED BY <1>2, <2>1, <2>2
<1> QED BY <1>3, <1>4 DEF Sub!Chained

\* Two journals, the second opened at the closing balance of the first, chain.
LEMMA ChainConcat ==
  ASSUME NEW b \in Int, NEW j \in Seq(Move), NEW d \in Seq(Move),
         Sub!Chained(b, j), Sub!Chained(Sub!Closing(b, j), d)
  PROVE  /\ Sub!Chained(b, j \o d)
         /\ Sub!Closing(b, j \o d) = Sub!Closing(Sub!Closing(b, j), d)
<1> DEFINE k == j \o d
<1>1. /\ k \in Seq(Move)
      /\ Len(k) = Len(j) + Len(d)
      /\ \A i \in 1..Len(k) : k[i] = IF i <= Len(j) THEN j[i] ELSE d[i - Len(j)]
  BY ConcatProperties
<1>2. Sub!Closing(b, k) = Sub!Closing(Sub!Closing(b, j), d)
  BY <1>1 DEF Sub!Closing
<1>3. ASSUME NEW i \in 1..Len(k)
      PROVE  k[i].after = Sub!Before(b, k, i) + k[i].amount
  <2>1. CASE i <= Len(j)
    BY <2>1, <1>1 DEF Sub!Chained, Sub!Before
  <2>2. CASE i = Len(j) + 1
    BY <2>2, <1>1 DEF Sub!Chained, Sub!Before, Sub!Closing
  <2>3. CASE i > Len(j) + 1
    <3>1. /\ k[i] = d[i - Len(j)] /\ k[i - 1] = d[i - 1 - Len(j)]
          /\ i - Len(j) \in 1..Len(d) /\ i - Len(j) # 1
      BY <2>3, <1>1
    <3>2. d[i - Len(j)].after = d[i - Len(j) - 1].after + d[i - Len(j)].amount
      BY <3>1 DEF Sub!Chained, Sub!Before
    <3> QED BY <2>3, <3>1, <3>2 DEF Sub!Before
  <2> QED BY <2>1, <2>2, <2>3
<1> QED BY <1>2, <1>3 DEF Sub!Chained

\* Whatever adds up the moves of a journal one by one ends at their total.
LEMMA TotalIs ==
  ASSUME NEW j, Len(j) \in Nat, NEW g, g[0] = 0,
         \A i \in 1..Len(j) : g[i] \in Int /\ g[i] = g[i - 1] + j[i].amount
  PROVE  Total(j) = g[Len(j)]
<1> DEFINE n == Len(j)
           eq(f) == f = [i \in 0..n |-> IF i = 0 THEN 0 ELSE f[i - 1] + j[i].amount]
           h == [i \in 0..n |-> g[i]]
           f == CHOOSE k : eq(k)
<1>1. n \in Nat
  OBVIOUS
<1>2. eq(h)
  <2>1. ASSUME NEW i \in 0..n
        PROVE  h[i] = IF i = 0 THEN 0 ELSE h[i - 1] + j[i].amount
    <3>1. CASE i = 0
      BY <1>1, <3>1
    <3>2. CASE i # 0
      <4>1. i \in 1..n /\ i - 1 \in 0..n
        BY <1>1, <3>2
      <4> QED BY <3>2, <4>1
    <3> QED BY <3>1, <3>2
  <2> HIDE DEF n
  <2> QED BY <2>1
<1>3. eq(f)
  <2> HIDE DEF eq, h
  <2> QED BY <1>2
<1>4. Total(j) = f[n]
  BY DEF Total
<1> HIDE DEF f
<1>5. \A i \in 0..n : f[i] = IF i = 0 THEN 0 ELSE f[i - 1] + j[i].amount
  BY <1>3
<1>6. \A i \in 0..n : g[i] = IF i = 0 THEN 0 ELSE g[i - 1] + j[i].amount
  BY <1>1
<1> HIDE DEF n, eq, h
<1> DEFINE T == {i \in Nat : i <= n => f[i] = g[i]}
<1>8. 0 \in T
  BY <1>1, <1>5, <1>6
<1>9. ASSUME NEW i \in T PROVE i + 1 \in T
  <2>1. SUFFICES ASSUME i + 1 <= n PROVE f[i + 1] = g[i + 1]
    OBVIOUS
  <2>2. i \in Nat /\ (i <= n => f[i] = g[i])
    OBVIOUS
  <2>3. n \in Nat
    BY <1>1
  <2>4. i <= n /\ i + 1 \in 0..n /\ i + 1 # 0 /\ (i + 1) - 1 = i
    BY <2>1, <2>2, <2>3
  <2> QED BY <1>5, <1>6, <2>2, <2>4
<1>10. T = Nat
  <2> HIDE DEF T
  <2>1. T \in SUBSET Nat
    BY DEF T
  <2> QED BY <1>8, <1>9, <2>1, Induct
<1>11. f[n] = g[n]
  BY <1>1, <1>10
<1> QED BY <1>4, <1>11 DEF n

\* Adding up the moves of a journal that chains from zero gives its closing balance.
LEMMA TotalIsClosing ==
  ASSUME NEW j \in Seq(Move), Sub!Chained(0, j)
  PROVE  Total(j) = Sub!Closing(0, j)
<1> DEFINE g == [i \in 0..Len(j) |-> IF i = 0 THEN 0 ELSE j[i].after]
<1>1. Len(j) \in Nat
  BY LenProperties
<1>2. g[0] = 0 /\ g[Len(j)] = Sub!Closing(0, j)
  BY <1>1 DEF Sub!Closing
<1>3. ASSUME NEW i \in 1..Len(j)
      PROVE  g[i] \in Int /\ g[i] = g[i - 1] + j[i].amount
  <2>1. j[i].after = Sub!Before(0, j, i) + j[i].amount
    BY DEF Sub!Chained
  <2>2. j[i] \in Move
    BY ElementOfSeq
  <2>3. i - 1 \in 0..Len(j) /\ g[i] = j[i].after
    BY <1>1
  <2>4. g[i - 1] = Sub!Before(0, j, i)
    BY <1>1, <2>3 DEF Sub!Before
  <2> QED BY <2>1, <2>2, <2>3, <2>4 DEF Move
<1> HIDE DEF g
<1> QED BY <1>1, <1>2, <1>3, TotalIs

-----------------------------------------------------------------------------
\* A pair's credit is due on what was made, not on which of its bills are posted.
LEMMA OnceIsStable ==
  ASSUME NEW m, NEW p, NEW t, NEW u, SamePair(t, u), Once(m, p, t)
  PROVE  Once(m, p, u)
BY DEF SamePair, Once

\* A pair that is not made has no credit.
LEMMA UnmadeHasNone ==
  ASSUME NEW m, NEW p, NEW t, ~t.made
  PROVE  Once(m, p, t) <=> None(m, p)
BY DEF Once

\* Journals that agree on the credits of a pair agree on what it is due.
LEMMA SameCredits ==
  ASSUME NEW m, NEW k, NEW p \in Pair, NEW t \in Topup,
         \A b \in Bucket : /\ Credits(k, b, p) = Credits(m, b, p)
                           /\ \A i \in Credits(m, b, p) : k[b][i] = m[b][i]
  PROVE  /\ None(k, p) <=> None(m, p)
         /\ Once(m, p, t) => Once(k, p, t)
<1>1. None(k, p) <=> None(m, p)
  BY DEF None
<1>2. t.bucket \in Bucket
  BY DEF Topup
<1>3. ASSUME t.made /\ t.deposit > 0, Once(m, p, t) PROVE Once(k, p, t)
  BY <1>2, <1>3 DEF Once
<1>4. ASSUME ~(t.made /\ t.deposit > 0), Once(m, p, t) PROVE Once(k, p, t)
  BY <1>1, <1>4 DEF Once
<1> QED BY <1>1, <1>3, <1>4

\* A move no bill of the pair made leaves its credits alone.
LEMMA AppendOther ==
  ASSUME NEW m \in [Bucket -> Seq(Move)], NEW b \in Bucket, NEW e \in Move,
         NEW p \in Pair, NEW t \in Topup, e.bill \notin {p} \X Role
  PROVE  LET k == [m EXCEPT ![b] = Append(@, e)]
         IN  /\ None(m, p) => None(k, p)
             /\ Once(m, p, t) => Once(k, p, t)
<1> DEFINE k == [m EXCEPT ![b] = Append(@, e)]
<1>1. ASSUME NEW c \in Bucket
      PROVE  /\ Credits(k, c, p) = Credits(m, c, p)
             /\ \A i \in Credits(m, c, p) : k[c][i] = m[c][i]
  <2>1. CASE c # b
    BY <2>1 DEF Credits
  <2>2. CASE c = b
    <3>1. m[b] \in Seq(Move) /\ k[b] = Append(m[b], e)
      OBVIOUS
    <3> HIDE DEF k
    <3>2. /\ Len(k[b]) = Len(m[b]) + 1 /\ k[b] \in Seq(Move)
          /\ k[b][Len(m[b]) + 1] = e
          /\ \A i \in 1..Len(m[b]) : k[b][i] = m[b][i]
      BY <3>1, AppendProperties
    <3>3. DOMAIN m[b] = 1..Len(m[b]) /\ DOMAIN k[b] = 1..(Len(m[b]) + 1) /\ Len(m[b]) \in Nat
      BY <3>1, <3>2, LenProperties
    <3>4. \A i \in DOMAIN k[b] : i \in DOMAIN m[b] \/ i = Len(m[b]) + 1
      BY <3>3
    <3>5. DOMAIN m[b] \subseteq DOMAIN k[b]
      BY <3>3
    <3> QED BY <2>2, <3>2, <3>3, <3>4, <3>5 DEF Credits
  <2> QED BY <2>1, <2>2
<1> HIDE DEF k
<1>2. (None(m, p) => None(k, p)) /\ (Once(m, p, t) => Once(k, p, t))
  BY <1>1, SameCredits
<1> QED BY <1>2 DEF k

\* The credit a pair is due, appended where there was none, is its one credit.
LEMMA AppendCredit ==
  ASSUME NEW m \in [Bucket -> Seq(Move)], NEW b \in Bucket, NEW e \in Move,
         NEW p \in Pair, NEW t \in Topup, None(m, p),
         t.made, t.deposit > 0, t.bucket = b,
         e.amount = t.deposit, e.bill = <<p, CreditRole(t.timing)>>
  PROVE  Once([m EXCEPT ![b] = Append(@, e)], p, t)
<1> DEFINE k == [m EXCEPT ![b] = Append(@, e)]
           n == Len(m[b]) + 1
<1>1. m[b] \in Seq(Move) /\ k[b] = Append(m[b], e)
  OBVIOUS
<1>2. \A c \in Bucket : c # b => k[c] = m[c]
  OBVIOUS
<1> HIDE DEF k
<1>3. /\ Len(k[b]) = Len(m[b]) + 1 /\ k[b] \in Seq(Move)
      /\ k[b][Len(m[b]) + 1] = e
      /\ \A i \in 1..Len(m[b]) : k[b][i] = m[b][i]
  BY <1>1, AppendProperties
<1>4. DOMAIN m[b] = 1..Len(m[b]) /\ DOMAIN k[b] = 1..(Len(m[b]) + 1) /\ Len(m[b]) \in Nat
  BY <1>1, <1>3, LenProperties
<1>5. CreditRole(t.timing) \in Role
  BY DEF CreditRole, Role
<1>6. Credits(m, b, p) = {}
  BY DEF None
<1>7. Credits(k, b, p) = {n}
  <2>0. e.bill \in {p} \X Role
    BY <1>5
  <2>1. n \in DOMAIN k[b] /\ k[b][n] = e
    BY <1>3, <1>4
  <2>2. \A i \in DOMAIN k[b] : i # n => k[b][i].bill \notin {p} \X Role
    <3> SUFFICES ASSUME NEW i \in DOMAIN k[b], i # n PROVE k[b][i].bill \notin {p} \X Role
      OBVIOUS
    <3>1. i \in DOMAIN m[b] /\ k[b][i] = m[b][i]
      BY <1>3, <1>4
    <3> QED BY <3>1, <1>6 DEF Credits
  <2> HIDE DEF n
  <2> QED BY <2>0, <2>1, <2>2 DEF Credits
<1>8. \A c \in Bucket : c # b => Credits(k, c, p) = {}
  BY <1>2 DEF None, Credits
<1>9. k[b][n] = e
  BY <1>3
<1> HIDE DEF n
<1>10. Once(k, p, t)
  BY <1>7, <1>8, <1>9 DEF Once
<1> QED BY <1>10 DEF k

\* The moves of two journals put one after the other, and where they are.
LEMMA ConcatParts ==
  ASSUME NEW j \in Seq(Move), NEW d \in Seq(Move)
  PROVE  /\ j \o d \in Seq(Move)
         /\ Len(j) \in Nat /\ Len(d) \in Nat
         /\ DOMAIN j = 1..Len(j) /\ DOMAIN d = 1..Len(d)
         /\ DOMAIN (j \o d) = 1..(Len(j) + Len(d))
         /\ \A i \in 1..Len(j) : i \in DOMAIN (j \o d) /\ (j \o d)[i] = j[i]
         /\ \A i \in 1..Len(d) : /\ Len(j) + i \in DOMAIN (j \o d)
                                 /\ (j \o d)[Len(j) + i] = d[i]
         /\ \A i \in DOMAIN (j \o d) : i \in 1..Len(j) \/ i - Len(j) \in 1..Len(d)
<1> DEFINE k == j \o d
<1>1. Len(j) \in Nat /\ Len(d) \in Nat
  BY LenProperties
<1>2. /\ k \in Seq(Move)
      /\ Len(k) = Len(j) + Len(d)
      /\ \A i \in 1..(Len(j) + Len(d)) :
           k[i] = IF i <= Len(j) THEN j[i] ELSE d[i - Len(j)]
  BY ConcatProperties
<1> HIDE DEF k
<1>3. /\ DOMAIN k = 1..(Len(j) + Len(d))
      /\ DOMAIN j = 1..Len(j) /\ DOMAIN d = 1..Len(d)
  BY <1>2, LenProperties
<1>4. \A i \in 1..Len(j) : i \in DOMAIN k /\ k[i] = j[i]
  BY <1>1, <1>2, <1>3
<1>5. ASSUME NEW i \in 1..Len(d)
      PROVE  Len(j) + i \in DOMAIN k /\ k[Len(j) + i] = d[i]
  <2>1. /\ Len(j) + i \in 1..(Len(j) + Len(d))
        /\ ~(Len(j) + i <= Len(j)) /\ (Len(j) + i) - Len(j) = i
    BY <1>1
  <2> QED BY <2>1, <1>2, <1>3
<1>6. \A i \in DOMAIN k : i \in 1..Len(j) \/ i - Len(j) \in 1..Len(d)
  BY <1>1, <1>3
<1> QED BY <1>1, <1>2, <1>3, <1>4, <1>5, <1>6 DEF k

\* Two journals that stay at zero or above do so one after the other.
LEMMA ConcatNonNegative ==
  ASSUME NEW j \in Seq(Move), NEW d \in Seq(Move),
         \A i \in DOMAIN j : j[i].after >= 0, \A i \in DOMAIN d : d[i].after >= 0
  PROVE  \A i \in DOMAIN (j \o d) : (j \o d)[i].after >= 0
<1> DEFINE k == j \o d
<1>1. /\ DOMAIN j = 1..Len(j) /\ DOMAIN d = 1..Len(d)
      /\ Len(j) \in Nat /\ DOMAIN k = 1..(Len(j) + Len(d)) /\ Len(d) \in Nat
      /\ \A i \in 1..Len(j) : k[i] = j[i]
      /\ \A i \in 1..Len(d) : k[Len(j) + i] = d[i]
  BY ConcatParts
<1> HIDE DEF k
<1>2. ASSUME NEW i \in DOMAIN k PROVE k[i].after >= 0
  <2>1. CASE i \in 1..Len(j)
    BY <1>1, <2>1
  <2>2. CASE i \notin 1..Len(j)
    <3>1. i - Len(j) \in 1..Len(d) /\ Len(j) + (i - Len(j)) = i
      BY <1>1, <2>2
    <3> QED BY <1>1, <3>1
  <2> QED BY <2>1, <2>2
<1> QED BY <1>2 DEF k

\* What posting drafts after committed moves does to the credits of a pair.
LEMMA ConcatCredits ==
  ASSUME NEW m \in [Bucket -> Seq(Move)], NEW d \in [Bucket -> Seq(Move)],
         NEW p \in Pair, NEW t \in Topup
  PROVE  LET k == [b \in Bucket |-> m[b] \o d[b]]
         IN  /\ None(d, p) /\ Once(m, p, t) => Once(k, p, t)
             /\ None(m, p) /\ Once(d, p, t) => Once(k, p, t)
<1> DEFINE k == [b \in Bucket |-> m[b] \o d[b]]
<1>1. ASSUME NEW b \in Bucket
      PROVE  /\ m[b] \in Seq(Move) /\ d[b] \in Seq(Move) /\ k[b] \in Seq(Move)
             /\ Len(m[b]) \in Nat /\ Len(d[b]) \in Nat
             /\ DOMAIN m[b] = 1..Len(m[b]) /\ DOMAIN d[b] = 1..Len(d[b])
             /\ DOMAIN k[b] = 1..(Len(m[b]) + Len(d[b]))
             /\ \A i \in 1..Len(m[b]) : i \in DOMAIN k[b] /\ k[b][i] = m[b][i]
             /\ \A i \in 1..Len(d[b]) : /\ Len(m[b]) + i \in DOMAIN k[b]
                                        /\ k[b][Len(m[b]) + i] = d[b][i]
             /\ \A i \in DOMAIN k[b] : \/ i \in 1..Len(m[b])
                                       \/ i - Len(m[b]) \in 1..Len(d[b])
  <2>1. m[b] \in Seq(Move) /\ d[b] \in Seq(Move) /\ k[b] = m[b] \o d[b]
    OBVIOUS
  <2> HIDE DEF k
  <2> QED BY <2>1, ConcatParts
<1> HIDE DEF k
<1>2. ASSUME NEW b \in Bucket, Credits(d, b, p) = {}
      PROVE  /\ Credits(k, b, p) = Credits(m, b, p)
             /\ \A i \in Credits(m, b, p) : k[b][i] = m[b][i]
  <2>1. \A i \in DOMAIN d[b] : d[b][i].bill \notin {p} \X Role
    BY <1>2 DEF Credits
  <2>2. ASSUME NEW i \in Credits(k, b, p) PROVE i \in Credits(m, b, p)
    <3>1. i \in DOMAIN k[b] /\ k[b][i].bill \in {p} \X Role
      BY DEF Credits
    <3>2. CASE i \in 1..Len(m[b])
      BY <3>1, <3>2, <1>1 DEF Credits
    <3>3. CASE i - Len(m[b]) \in 1..Len(d[b])
      <4> DEFINE j == i - Len(m[b])
      <4>1. Len(m[b]) + j = i
        BY <3>1, <1>1
      <4>2. k[b][i] = d[b][j] /\ j \in DOMAIN d[b]
        BY <3>3, <4>1, <1>1
      <4> QED BY <4>2, <3>1, <2>1
    <3> QED BY <3>1, <3>2, <3>3, <1>1
  <2>3. ASSUME NEW i \in Credits(m, b, p) PROVE i \in Credits(k, b, p) /\ k[b][i] = m[b][i]
    BY <1>1 DEF Credits
  <2> QED BY <2>2, <2>3
<1>3. ASSUME None(d, p), Once(m, p, t) PROVE Once(k, p, t)
  BY <1>2, <1>3, SameCredits DEF None
<1>4. ASSUME NEW b \in Bucket, Credits(m, b, p) = {}
      PROVE  /\ \A i \in Credits(d, b, p) : /\ Len(m[b]) + i \in Credits(k, b, p)
                                            /\ k[b][Len(m[b]) + i] = d[b][i]
             /\ \A i \in Credits(k, b, p) : i - Len(m[b]) \in Credits(d, b, p)
  <2>1. \A i \in DOMAIN m[b] : m[b][i].bill \notin {p} \X Role
    BY <1>4 DEF Credits
  <2>2. \A i \in Credits(d, b, p) : /\ Len(m[b]) + i \in Credits(k, b, p)
                                    /\ k[b][Len(m[b]) + i] = d[b][i]
    BY <1>1 DEF Credits
  <2>3. ASSUME NEW i \in Credits(k, b, p) PROVE i - Len(m[b]) \in Credits(d, b, p)
    <3>1. i \in DOMAIN k[b] /\ k[b][i].bill \in {p} \X Role
      BY DEF Credits
    <3>2. i \notin 1..Len(m[b])
      BY <3>1, <2>1, <1>1
    <3> DEFINE j == i - Len(m[b])
    <3>3. j \in 1..Len(d[b]) /\ Len(m[b]) + j = i
      BY <3>1, <3>2, <1>1
    <3>4. k[b][i] = d[b][j] /\ j \in DOMAIN d[b]
      BY <3>3, <1>1
    <3> QED BY <3>1, <3>4 DEF Credits
  <2> QED BY <2>2, <2>3
<1>5. ASSUME None(m, p), Once(d, p, t) PROVE Once(k, p, t)
  <2>1. \A b \in Bucket : Credits(m, b, p) = {}
    BY <1>5 DEF None
  <2>2. t.bucket \in Bucket
    BY DEF Topup
  <2>3. \A b \in Bucket : Credits(d, b, p) = {} => Credits(k, b, p) = {}
    BY <2>1, <1>4
  <2>4. CASE t.made /\ t.deposit > 0
    <3>1. /\ \A b \in Bucket : b # t.bucket => Credits(k, b, p) = {}
      BY <1>5, <2>3, <2>4 DEF Once
    <3>2. PICK i \in Credits(d, t.bucket, p) :
            /\ Credits(d, t.bucket, p) = {i}
            /\ d[t.bucket][i].amount = t.deposit
            /\ d[t.bucket][i].bill = <<p, CreditRole(t.timing)>>
      BY <1>5, <2>4 DEF Once
    <3> DEFINE n == Len(m[t.bucket]) + i
    <3>3. i \in Int /\ Len(m[t.bucket]) \in Nat
      BY <2>2, <1>1 DEF Credits
    <3>4. n \in Credits(k, t.bucket, p) /\ k[t.bucket][n] = d[t.bucket][i]
      BY <2>1, <2>2, <1>4
    <3>5. ASSUME NEW x \in Credits(k, t.bucket, p)
          PROVE  x \in Int /\ x - Len(m[t.bucket]) = i
      <4>1. x \in DOMAIN k[t.bucket]
        BY DEF Credits
      <4>2. x \in Int
        BY <4>1, <2>2, <1>1
      <4>3. x - Len(m[t.bucket]) \in Credits(d, t.bucket, p)
        BY <2>1, <2>2, <1>4
      <4> QED BY <4>2, <4>3, <3>2
    <3>6. \A x \in Credits(k, t.bucket, p) : x = n
      BY <3>3, <3>5
    <3>7. Credits(k, t.bucket, p) = {n}
      BY <3>4, <3>6
    <3> HIDE DEF n
    <3> QED BY <2>4, <3>1, <3>2, <3>4, <3>7 DEF Once
  <2>5. CASE ~(t.made /\ t.deposit > 0)
    BY <1>5, <2>3, <2>5 DEF Once, None
  <2> QED BY <2>4, <2>5
<1> QED BY <1>3, <1>5 DEF k
-----------------------------------------------------------------------------
\* The types of what a database, committed or seen, holds.
LEMMA DatabaseTypes ==
  ASSUME NEW x \in Database
  PROVE  /\ x.balance \in [Bucket -> Int] /\ x.moves \in [Bucket -> Seq(Move)]
         /\ x.topup \in [Pair -> Topup] /\ x.timing \in Timing
         /\ x = [balance |-> x.balance, moves |-> x.moves, topup |-> x.topup,
                 timing |-> x.timing]
BY DEF Database

\* The types of what a pair of bills holds.
LEMMA TopupTypes ==
  ASSUME NEW t \in Topup
  PROVE  /\ t.made \in BOOLEAN /\ t.timing \in Timing /\ t.bucket \in Bucket
         /\ t.deposit \in Int /\ t.posted \in SUBSET Role /\ t.gone \in SUBSET Role
BY DEF Topup

\* A session that has locked a bucket sees its committed balance plus its own drafts.
LEMMA LockedIsFresh ==
  ASSUME BucketInv, NEW s \in open, NEW rows \in SUBSET Row, Lock(s, rows),
         NEW b \in Bucket, b \in rows \/ holder[b] = s
  PROVE  /\ b \notin missed[s]
         /\ view[s].moves[b] = db.moves[b]
         /\ Sub!Chained(db.balance[b], draft[s][b])
         /\ view[s].balance[b] = Sub!Closing(db.balance[b], draft[s][b])
<1>1. SeesBuckets(s)
  BY DEF BucketInv
<1>2. CASE holder[b] = s
  BY <1>1, <1>2 DEF SeesBuckets
<1>3. CASE holder[b] # s
  <2>1. b \notin missed[s]
    BY <1>3 DEF Lock
  <2>2. draft[s][b] = << >> /\ view[s].moves[b] = db.moves[b]
        /\ view[s].balance[b] = db.balance[b]
    BY <1>1, <1>3, <2>1 DEF SeesBuckets
  <2>3. Sub!Chained(db.balance[b], << >>) /\ Sub!Closing(db.balance[b], << >>) = db.balance[b]
    BY DEF Sub!Chained, Sub!Closing
  <2> QED BY <2>1, <2>2, <2>3
<1> QED BY <1>2, <1>3

\* Session s, v and d being its next view and drafts, moves no bucket or moves some of
\* those in rows without going below zero.
Moved(s, rows, v, d) ==
  \A b \in Bucket :
    \/ v.balance[b] = view[s].balance[b] /\ d[b] = draft[s][b]
    \/ \E e \in Move : /\ b \in rows
                       /\ e.after = view[s].balance[b] + e.amount /\ e.after >= 0
                       /\ v.balance[b] = e.after
                       /\ d[b] = Append(draft[s][b], e)

\* Session s writes the pairs in rows as made, each due what it has credited, and keeps
\* the others.
Wrote(s, rows, v, d) ==
  /\ \A p \in Pair \ rows :
       /\ v.topup[p] = view[s].topup[p]
       /\ None(draft[s], p) => None(d, p)
       /\ Once(draft[s], p, v.topup[p]) => Once(d, p, v.topup[p])
  /\ \A p \in Pair \cap rows :
       /\ v.topup[p].made /\ Sound(v.topup[p])
       /\ Once(v.moves, p, v.topup[p]) \/ Once(d, p, v.topup[p])
       /\ IF db.topup[p].made
          THEN SamePair(v.topup[p], db.topup[p]) /\ None(d, p)
          ELSE Once(d, p, v.topup[p])

\* Session s makes no pair, and deletes no down payment, but under the lock of the log row.
Staged(s, rows, v) ==
  /\ InTurn(v.topup)
  /\ \A p \in Pair : \/ p \in rows /\ p[1] \in rows
                     \/ SameStage(v.topup[p], view[s].topup[p])

\* Pairs that are made and whose down payments are deleted alike are in turn alike.
LEMMA InTurnIsStage ==
  ASSUME NEW t, NEW u, InTurn(u), \A p \in Pair : SameStage(t[p], u[p])
  PROVE  InTurn(t)
<1> SUFFICES ASSUME NEW r \in Request, NEW g \in 1..MaxPairs, NEW h \in 1..MaxPairs,
                    g < h, t[<<r, h>>].made
             PROVE  t[<<r, g>>].made /\ "dp_100" \in t[<<r, g>>].gone
  BY DEF InTurn
<1>1. <<r, g>> \in Pair /\ <<r, h>> \in Pair
  BY DEF Pair
<1> QED BY <1>1 DEF InTurn, SameStage

\* What a session sees of the buckets after it locks rows and moves none of them, or
\* moves those it has locked without going below zero.
LEMMA BucketsAfter ==
  ASSUME BucketInv, NEW s \in open, NEW rows \in SUBSET Row, Lock(s, rows),
         NEW v \in Database, NEW d \in [Bucket -> Seq(Move)],
         UNCHANGED <<db, missed>>, view'[s] = v, draft'[s] = d,
         v.moves = view[s].moves,
         Moved(s, rows, v, d)
  PROVE  SeesBuckets(s)'
<1>1. /\ SeesBuckets(s) /\ db \in Database /\ draft[s] \in [Bucket -> Seq(Move)]
      /\ s \in Session /\ holder \in [Row -> Session \cup {NoSession}]
  BY DEF BucketInv, BucketTypeOK
<1>2. holder' = [x \in Row |-> IF x \in rows THEN s ELSE holder[x]]
  BY DEF Lock
<1>3. Bucket \subseteq Row
  BY RowFacts
<1> SUFFICES ASSUME NEW b \in Bucket
    PROVE /\ holder'[b] = s =>
               /\ b \notin missed[s]
               /\ Sub!Chained(db.balance[b], d[b])
               /\ v.balance[b] = Sub!Closing(db.balance[b], d[b])
          /\ holder'[b] # s => d[b] = << >>
          /\ b \notin missed[s] =>
               /\ v.moves[b] = db.moves[b]
               /\ holder'[b] # s => v.balance[b] = db.balance[b]
          /\ v.balance[b] >= 0
          /\ \A i \in DOMAIN d[b] : d[b][i].after >= 0
  BY DEF SeesBuckets
<1>4. holder'[b] = s <=> (b \in rows \/ holder[b] = s)
  BY <1>2, <1>3
<1>5. db.balance[b] \in Int /\ draft[s][b] \in Seq(Move)
  BY <1>1, DatabaseTypes
<1>6. b \notin missed[s] => v.moves[b] = db.moves[b]
  BY <1>1 DEF SeesBuckets
<1>7. CASE v.balance[b] = view[s].balance[b] /\ d[b] = draft[s][b]
  <2>1. holder'[b] = s =>
          /\ b \notin missed[s]
          /\ Sub!Chained(db.balance[b], d[b])
          /\ v.balance[b] = Sub!Closing(db.balance[b], d[b])
    BY <1>4, <1>7, LockedIsFresh
  <2> QED BY <1>1, <1>4, <1>6, <1>7, <2>1 DEF SeesBuckets
<1>8. CASE \E e \in Move : /\ b \in rows
                           /\ e.after = view[s].balance[b] + e.amount /\ e.after >= 0
                           /\ v.balance[b] = e.after
                           /\ d[b] = Append(draft[s][b], e)
  <2>1. PICK e \in Move : /\ b \in rows
                          /\ e.after = view[s].balance[b] + e.amount /\ e.after >= 0
                          /\ v.balance[b] = e.after
                          /\ d[b] = Append(draft[s][b], e)
    BY <1>8
  <2>2. /\ b \notin missed[s]
        /\ Sub!Chained(db.balance[b], draft[s][b])
        /\ view[s].balance[b] = Sub!Closing(db.balance[b], draft[s][b])
    BY <2>1, LockedIsFresh
  <2>3. /\ Sub!Chained(db.balance[b], d[b])
        /\ v.balance[b] = Sub!Closing(db.balance[b], d[b])
    BY <1>5, <2>1, <2>2, ChainAppend
  <2>4. \A i \in DOMAIN d[b] : d[b][i].after >= 0
    <3>1. /\ DOMAIN d[b] = 1..(Len(draft[s][b]) + 1) /\ Len(draft[s][b]) \in Nat
          /\ DOMAIN draft[s][b] = 1..Len(draft[s][b])
          /\ d[b][Len(draft[s][b]) + 1] = e
          /\ \A i \in 1..Len(draft[s][b]) : d[b][i] = draft[s][b][i]
      BY <1>5, <2>1, AppendProperties, LenProperties
    <3>2. \A i \in DOMAIN draft[s][b] : draft[s][b][i].after >= 0
      BY <1>1 DEF SeesBuckets
    <3> SUFFICES ASSUME NEW i \in DOMAIN d[b] PROVE d[b][i].after >= 0
      OBVIOUS
    <3>3. i \in DOMAIN draft[s][b] \/ i = Len(draft[s][b]) + 1
      BY <3>1
    <3> QED BY <2>1, <3>1, <3>2, <3>3
  <2>5. holder'[b] = s /\ v.balance[b] >= 0
    BY <1>4, <2>1
  <2> QED BY <1>6, <2>2, <2>3, <2>4, <2>5
<1> QED BY <1>7, <1>8 DEF Moved

\* ... of the pairs, when it keeps those it has not locked now ...
LEMMA PairsAfter ==
  ASSUME BucketInv, NEW s \in open, NEW rows \in SUBSET Row, Lock(s, rows),
         NEW v \in Database, NEW d \in [Bucket -> Seq(Move)],
         UNCHANGED <<db, missed>>, view'[s] = v, draft'[s] = d,
         v.moves = view[s].moves,
         Wrote(s, rows, v, d)
  PROVE  SeesPairs(s)'
<1>1. /\ SeesPairs(s) /\ s \in Session /\ holder \in [Row -> Session \cup {NoSession}]
  BY DEF BucketInv, BucketTypeOK
<1>2. /\ holder' = [x \in Row |-> IF x \in rows THEN s ELSE holder[x]]
      /\ \A x \in rows : x \notin missed[s]
  BY DEF Lock
<1>3. Pair \subseteq Row
  BY RowFacts
<1> SUFFICES ASSUME NEW p \in Pair
    PROVE /\ Sound(v.topup[p])
          /\ IF v.topup[p].made
             THEN Once(v.moves, p, v.topup[p]) \/ Once(d, p, v.topup[p])
             ELSE None(v.moves, p)
          /\ holder'[p] = s =>
               /\ p \notin missed[s]
               /\ v.topup[p].made
               /\ IF db.topup[p].made
                  THEN SamePair(v.topup[p], db.topup[p]) /\ None(d, p)
                  ELSE Once(d, p, v.topup[p])
          /\ holder'[p] # s =>
               /\ None(d, p)
               /\ p \notin missed[s] => v.topup[p] = db.topup[p]
  BY DEF SeesPairs
<1>4. CASE p \in rows
  <2>1. holder'[p] = s /\ v.topup[p].made /\ p \notin missed[s]
    BY <1>2, <1>3, <1>4 DEF Wrote
  <2> QED BY <1>4, <2>1 DEF Wrote
<1>5. CASE p \notin rows
  <2>1. holder'[p] = holder[p] /\ v.topup[p] = view[s].topup[p] /\ v.moves = view[s].moves
    BY <1>2, <1>3, <1>5 DEF Wrote
  <2>2. (None(draft[s], p) => None(d, p))
        /\ (Once(draft[s], p, v.topup[p]) => Once(d, p, v.topup[p]))
    BY <1>5 DEF Wrote
  <2>3. /\ Sound(v.topup[p])
        /\ IF v.topup[p].made
           THEN Once(v.moves, p, v.topup[p]) \/ Once(d, p, v.topup[p])
           ELSE None(v.moves, p)
    BY <1>1, <2>1, <2>2 DEF SeesPairs
  <2>4. ASSUME holder[p] = s
        PROVE  /\ p \notin missed[s] /\ v.topup[p].made
               /\ IF db.topup[p].made
                  THEN SamePair(v.topup[p], db.topup[p]) /\ None(d, p)
                  ELSE Once(d, p, v.topup[p])
    BY <1>1, <2>1, <2>2, <2>4 DEF SeesPairs
  <2>5. ASSUME holder[p] # s
        PROVE  None(d, p) /\ (p \notin missed[s] => v.topup[p] = db.topup[p])
    BY <1>1, <2>1, <2>2, <2>5 DEF SeesPairs
  <2> QED BY <2>1, <2>3, <2>4, <2>5
<1> QED BY <1>4, <1>5

\* ... and of the log rows.
LEMMA RequestsAfter ==
  ASSUME BucketInv, NEW s \in open, NEW rows \in SUBSET Row, Lock(s, rows),
         NEW v, UNCHANGED <<db, missed>>, view'[s] = v, Staged(s, rows, v)
  PROVE  SeesRequests(s)'
<1>1. /\ SeesPairs(s) /\ SeesRequests(s) /\ s \in Session
  BY DEF BucketInv, BucketTypeOK
<1>2. /\ \A x \in Row : holder'[x] = IF x \in rows THEN s ELSE holder[x]
      /\ \A x \in rows : x \notin missed[s]
  BY DEF Lock
<1>3. \A p \in Pair : p \in Row /\ p[1] \in Row
  BY RowFacts
<1>4. InTurn(v.topup)
  BY DEF Staged
<1> SUFFICES ASSUME NEW p \in Pair
    PROVE /\ holder'[p[1]] = s => p[1] \notin missed[s]
          /\ (IF holder'[p] = s THEN holder'[p[1]] # s ELSE p[1] \notin missed[s])
               => SameStage(v.topup[p], db.topup[p])
  BY <1>4 DEF SeesRequests
<1>5. holder'[p[1]] = s => p[1] \notin missed[s]
  BY <1>1, <1>2, <1>3 DEF SeesRequests
<1>6. ASSUME IF holder'[p] = s THEN holder'[p[1]] # s ELSE p[1] \notin missed[s]
      PROVE  SameStage(v.topup[p], db.topup[p])
  <2>1. SameStage(v.topup[p], view[s].topup[p])
    BY <1>2, <1>3, <1>6 DEF Staged
  <2>2. SameStage(view[s].topup[p], db.topup[p])
    <3>1. CASE p \in rows /\ holder[p] # s
      <4>1. view[s].topup[p] = db.topup[p]
        BY <1>1, <1>2, <3>1 DEF SeesPairs
      <4> QED BY <4>1 DEF SameStage
    <3>2. CASE ~(p \in rows /\ holder[p] # s)
      <4>1. IF holder[p] = s THEN holder[p[1]] # s ELSE p[1] \notin missed[s]
        BY <1>2, <1>3, <1>6, <3>2
      <4> QED BY <1>1, <4>1 DEF SeesRequests
    <3> QED BY <3>1, <3>2
  <2> QED BY <2>1, <2>2 DEF SameStage
<1> QED BY <1>5, <1>6

\* A step of one open session that leaves the committed database alone.
LEMMA LocalStep ==
  ASSUME BucketInv, NEW s \in open, NEW rows \in SUBSET Row, Lock(s, rows),
         NEW v \in Database, NEW d \in [Bucket -> Seq(Move)],
         UNCHANGED <<db, open, missed>>,
         view' = [view EXCEPT ![s] = v], draft' = [draft EXCEPT ![s] = d],
         SeesBuckets(s)', SeesPairs(s)', SeesRequests(s)'
  PROVE  BucketInv'
<1>1. /\ BucketTypeOK /\ s \in Session /\ open \subseteq Session
      /\ \A x \in Row : holder[x] \in open \cup {NoSession}
      /\ \A z \in Session \ open, b \in Bucket : draft[z][b] = << >>
      /\ \A z \in open : SeesBuckets(z) /\ SeesPairs(z) /\ SeesRequests(z)
  BY DEF BucketInv, BucketTypeOK
<1>2. /\ holder' = [x \in Row |-> IF x \in rows THEN s ELSE holder[x]]
      /\ \A x \in rows : holder[x] \in {s, NoSession}
  BY DEF Lock
<1>3. BucketTypeOK'
  <2>1. /\ holder' \in [Row -> Session \cup {NoSession}]
        /\ view' \in [Session -> Database]
        /\ draft' \in [Session -> [Bucket -> Seq(Move)]]
    BY <1>1, <1>2 DEF BucketTypeOK
  <2> QED BY <1>1, <2>1 DEF BucketTypeOK
<1>4. CommittedOK'
  BY DEF BucketInv, CommittedOK, BalanceIsJournal, NeverNegative
<1>5. \A x \in Row : holder'[x] \in open \cup {NoSession}
  BY <1>1, <1>2
<1>6. \A z \in Session \ open, b \in Bucket : draft'[z][b] = << >>
  BY <1>1 DEF BucketTypeOK
<1>7. ASSUME NEW z \in open, z # s
      PROVE  SeesBuckets(z)' /\ SeesPairs(z)' /\ SeesRequests(z)'
  <2>1. z \in Session /\ z # NoSession
    BY <1>1, SessionAssumption
  <2>2. view'[z] = view[z] /\ draft'[z] = draft[z] /\ missed'[z] = missed[z] /\ db' = db
    BY <1>1, <1>7, <2>1 DEF BucketTypeOK
  <2>3. \A x \in Row : holder'[x] = z <=> holder[x] = z
    BY <1>2, <1>7, <2>1
  <2>4. Bucket \subseteq Row /\ Pair \subseteq Row /\ \A p \in Pair : p[1] \in Row
    BY RowFacts
  <2>5. SeesBuckets(z)'
    BY <1>1, <2>2, <2>3, <2>4 DEF SeesBuckets
  <2>6. SeesPairs(z)'
    BY <1>1, <2>2, <2>3, <2>4 DEF SeesPairs
  <2>7. SeesRequests(z)'
    BY <1>1, <2>2, <2>3, <2>4 DEF SeesRequests
  <2> QED BY <2>5, <2>6, <2>7
<1>8. open' = open
  OBVIOUS
<1>9. \A z \in open' : SeesBuckets(z)' /\ SeesPairs(z)' /\ SeesRequests(z)'
  BY <1>7, <1>8
<1> QED BY <1>3, <1>4, <1>5, <1>6, <1>8, <1>9 DEF BucketInv

\* A fresh database satisfies the invariant.
LEMMA InitBucket == BucketInit => BucketInv
<1> SUFFICES ASSUME BucketInit PROVE BucketInv
  OBVIOUS
<1>1. BucketTypeOK
  BY RowFacts DEF BucketInit, BucketTypeOK
<1>2. \A b \in Bucket : db.balance[b] = 0 /\ db.moves[b] = << >>
  BY DEF BucketInit, NewDatabase
<1>3. BalanceIsJournal
  <2>1. Sub!Chained(0, << >>) /\ Sub!Closing(0, << >>) = 0
    BY DEF Sub!Chained, Sub!Closing
  <2> QED BY <1>2, <2>1 DEF BalanceIsJournal
<1>4. NeverNegative
  BY <1>2 DEF NeverNegative
<1>5. \A p \in Pair : Once(db.moves, p, db.topup[p]) /\ Sound(db.topup[p])
  <2> SUFFICES ASSUME NEW p \in Pair
               PROVE  Once(db.moves, p, db.topup[p]) /\ Sound(db.topup[p])
    OBVIOUS
  <2>1. /\ ~db.topup[p].made /\ db.topup[p].posted = {} /\ db.topup[p].gone = {}
    BY DEF BucketInit, NewDatabase, NoTopup
  <2>2. None(db.moves, p)
    BY <1>2 DEF None, Credits
  <2> QED BY <2>1, <2>2 DEF Sound, Once
<1>8. InTurn(db.topup)
  <2>1. \A p \in Pair : ~db.topup[p].made
    BY DEF BucketInit, NewDatabase, NoTopup
  <2> QED BY <2>1 DEF InTurn, Pair
<1>6. CommittedOK
  BY <1>3, <1>4, <1>5, <1>8 DEF CommittedOK
<1>7. /\ \A x \in Row : holder[x] \in open \cup {NoSession}
      /\ \A s \in Session \ open, b \in Bucket : draft[s][b] = << >>
      /\ open = {}
  BY DEF BucketInit, NoDrafts
<1> QED BY <1>1, <1>6, <1>7 DEF BucketInv

\* A move of usage or refund that the session may post under the lock.
LEMMA MoveStep ==
  ASSUME BucketInv, NEW s \in open, NEW b \in Bucket, NEW amount \in Int,
         Lock(s, {b}), PostMove(s, b, amount), view[s].balance[b] + amount >= 0
  PROVE  BucketInv'
<1>1. /\ s \in Session /\ view[s] \in Database /\ draft[s] \in [Bucket -> Seq(Move)]
  BY DEF BucketInv, BucketTypeOK
<1>2. view[s].balance[b] \in Int /\ draft[s][b] \in Seq(Move)
  BY <1>1, DatabaseTypes
<1> DEFINE after == view[s].balance[b] + amount
           e == [amount |-> amount, after |-> after, bill |-> NoBill]
           v == [view[s] EXCEPT !.balance[b] = after]
           d == [draft[s] EXCEPT ![b] = Append(@, e)]
<1>3. e \in Move /\ after \in Int /\ after >= 0
  BY <1>2 DEF Move
<1>4. /\ view' = [view EXCEPT ![s] = v] /\ draft' = [draft EXCEPT ![s] = d]
      /\ UNCHANGED <<db, open, missed>>
  BY DEF PostMove, Posting
<1>5. Append(draft[s][b], e) \in Seq(Move)
  BY <1>2, <1>3, AppendProperties
<1>6. d \in [Bucket -> Seq(Move)]
  BY <1>1, <1>5
<1>7. /\ v \in Database /\ v.moves = view[s].moves /\ v.topup = view[s].topup
      /\ v.balance = [view[s].balance EXCEPT ![b] = after]
  BY <1>1, <1>3 DEF Database
<1>8. view'[s] = v /\ draft'[s] = d
  BY <1>1, <1>4 DEF BucketInv, BucketTypeOK
<1>9. view[s].balance \in [Bucket -> Int]
  BY <1>1, DatabaseTypes
<1>10. e.after = view[s].balance[b] + e.amount /\ e.after >= 0 /\ e.bill = NoBill
       /\ v.balance[b] = e.after /\ d[b] = Append(draft[s][b], e)
  BY <1>1, <1>3, <1>7, <1>9
<1>11. \A c \in Bucket : c # b => v.balance[c] = view[s].balance[c] /\ d[c] = draft[s][c]
  BY <1>1, <1>7, <1>9
<1>12. /\ {b} \in SUBSET Row /\ {b} \cap Pair = {}
       /\ NoBill \notin Bill /\ Bill = Pair \X Role
  BY RowFacts
<1>13. ASSUME NEW p \in Pair, NEW t \in Topup
       PROVE  (None(draft[s], p) => None(d, p)) /\ (Once(draft[s], p, t) => Once(d, p, t))
  <2>1. e.bill \notin {p} \X Role
    BY <1>10, <1>12
  <2> QED BY <1>1, <1>3, <2>1, AppendOther
<1>14. \A p \in Pair : view[s].topup[p] \in Topup
  BY <1>1, DatabaseTypes
<1> HIDE DEF v, d, e, after
<1>17. PICK rows \in SUBSET Row : rows = {b}
  BY <1>12
<1>18. Lock(s, rows) /\ b \in rows /\ Pair \cap rows = {} /\ UNCHANGED <<db, open, missed>>
  BY <1>4, <1>12, <1>17
<1>19. v \in Database /\ v.moves = view[s].moves
  BY <1>7
<1>15. SeesBuckets(s)'
  <2>1. Moved(s, rows, v, d)
    BY <1>3, <1>10, <1>11, <1>18 DEF Moved
  <2> QED BY <1>6, <1>8, <1>18, <1>19, <2>1, BucketsAfter
<1>16. SeesPairs(s)'
  <2>1. Wrote(s, rows, v, d)
    BY <1>7, <1>13, <1>14, <1>18 DEF Wrote
  <2> QED BY <1>6, <1>8, <1>18, <1>19, <2>1, PairsAfter
<1>20. SeesRequests(s)'
  <2>1. InTurn(view[s].topup)
    BY DEF BucketInv, SeesRequests
  <2>2. Staged(s, rows, v)
    BY <1>7, <2>1 DEF Staged, SameStage
  <2> QED BY <1>8, <1>18, <2>2, RequestsAfter
<1> QED BY <1>4, <1>6, <1>15, <1>16, <1>18, <1>19, <1>20, LocalStep

\* Adding the moves up again gives the balance the session sees already.
LEMMA RecomputeStep ==
  ASSUME BucketInv, NEW s \in Session, NEW b \in Bucket, Recompute(s, b)
  PROVE  BucketInv'
<1>1. /\ s \in open /\ Lock(s, {b})
      /\ view' = [view EXCEPT ![s].balance[b] = Total(view[s].moves[b] \o draft[s][b])]
      /\ UNCHANGED <<db, open, draft, missed>>
  BY DEF Recompute
<1>2. /\ view[s] \in Database /\ draft[s] \in [Bucket -> Seq(Move)] /\ db \in Database
      /\ view \in [Session -> Database] /\ draft \in [Session -> [Bucket -> Seq(Move)]]
  BY DEF BucketInv, BucketTypeOK
<1>3. /\ {b} \in SUBSET Row /\ {b} \cap Pair = {}
  BY RowFacts
<1>4. /\ view[s].moves[b] = db.moves[b]
      /\ Sub!Chained(db.balance[b], draft[s][b])
      /\ view[s].balance[b] = Sub!Closing(db.balance[b], draft[s][b])
  BY <1>1, <1>3, LockedIsFresh
<1>5. /\ Sub!Chained(0, db.moves[b]) /\ db.balance[b] = Sub!Closing(0, db.moves[b])
      /\ db.moves[b] \in Seq(Move) /\ draft[s][b] \in Seq(Move)
  BY <1>2, DatabaseTypes DEF BucketInv, CommittedOK, BalanceIsJournal
<1>6. /\ Sub!Chained(0, db.moves[b] \o draft[s][b])
      /\ Sub!Closing(0, db.moves[b] \o draft[s][b]) = view[s].balance[b]
      /\ db.moves[b] \o draft[s][b] \in Seq(Move)
  BY <1>4, <1>5, ChainConcat, ConcatProperties
<1>7. Total(view[s].moves[b] \o draft[s][b]) = view[s].balance[b]
  BY <1>4, <1>6, TotalIsClosing
<1>8. view' = [view EXCEPT ![s] = view[s]] /\ draft' = [draft EXCEPT ![s] = draft[s]]
  <2>1. view' = [view EXCEPT ![s] = [view[s] EXCEPT !.balance[b] = view[s].balance[b]]]
    BY <1>1, <1>7
  <2>2. [view[s] EXCEPT !.balance[b] = view[s].balance[b]] = view[s]
    BY <1>2 DEF Database
  <2> QED BY <1>1, <1>2, <2>1, <2>2
<1>9. view'[s] = view[s] /\ draft'[s] = draft[s]
  BY <1>1, <1>2, <1>8
<1>10. SeesBuckets(s)'
  <2>1. Moved(s, {b}, view[s], draft[s])
    BY DEF Moved
  <2> QED BY <1>1, <1>2, <1>3, <1>9, <2>1, BucketsAfter
<1>11. SeesPairs(s)'
  <2>1. Wrote(s, {b}, view[s], draft[s])
    BY <1>3 DEF Wrote
  <2> QED BY <1>1, <1>2, <1>3, <1>9, <2>1, PairsAfter
<1>12. SeesRequests(s)'
  <2>1. InTurn(view[s].topup)
    BY <1>1 DEF BucketInv, SeesRequests
  <2>2. Staged(s, {b}, view[s])
    BY <2>1 DEF Staged, SameStage
  <2> QED BY <1>1, <1>3, <1>9, <2>2, RequestsAfter
<1> QED BY <1>1, <1>2, <1>3, <1>8, <1>10, <1>11, <1>12, LocalStep

\* A pair written under its lock, and its log row's where its stage changes, no move
\* posted.
LEMMA TopupStep ==
  ASSUME BucketInv, NEW s \in open, NEW rows \in SUBSET Row, Lock(s, rows),
         NEW p \in Pair, \A q \in Pair : q \in rows <=> q = p,
         NEW t \in Topup, t.made, Sound(t),
         view' = [view EXCEPT ![s].topup[p] = t], UNCHANGED <<db, open, draft, missed>>,
         InTurn([view[s].topup EXCEPT ![p] = t]),
         p[1] \in rows \/ SameStage(t, view[s].topup[p]),
         Once(view[s].moves, p, t) \/ Once(draft[s], p, t),
         IF db.topup[p].made THEN SamePair(t, db.topup[p]) /\ None(draft[s], p)
                             ELSE Once(draft[s], p, t)
  PROVE  BucketInv'
<1>1. /\ s \in Session /\ view[s] \in Database /\ draft[s] \in [Bucket -> Seq(Move)]
      /\ view \in [Session -> Database] /\ draft \in [Session -> [Bucket -> Seq(Move)]]
  BY DEF BucketInv, BucketTypeOK
<1> DEFINE v == [view[s] EXCEPT !.topup[p] = t]
<1>2. view[s].topup \in [Pair -> Topup]
  BY <1>1, DatabaseTypes
<1>3. /\ v \in Database /\ v.moves = view[s].moves /\ v.balance = view[s].balance
      /\ v.topup = [view[s].topup EXCEPT ![p] = t]
  BY <1>1 DEF Database
<1>4. v.topup[p] = t /\ \A q \in Pair : q # p => v.topup[q] = view[s].topup[q]
  BY <1>2, <1>3
<1>5. view' = [view EXCEPT ![s] = v] /\ draft' = [draft EXCEPT ![s] = draft[s]]
  BY <1>1
<1>6. view'[s] = v /\ draft'[s] = draft[s]
  BY <1>1, <1>5
<1> HIDE DEF v
<1>8. SeesBuckets(s)'
  <2>1. Moved(s, rows, v, draft[s])
    BY <1>3 DEF Moved
  <2> QED BY <1>1, <1>3, <1>6, <2>1, BucketsAfter
<1>9. SeesPairs(s)'
  <2>1. \A q \in Pair \ rows : v.topup[q] = view[s].topup[q]
    BY <1>4
  <2>2. \A q \in Pair \cap rows : q = p
    OBVIOUS
  <2>3. Wrote(s, rows, v, draft[s])
    BY <1>3, <1>4, <2>1, <2>2 DEF Wrote
  <2>4. UNCHANGED <<db, missed>>
    OBVIOUS
  <2> QED BY <1>1, <1>3, <1>6, <2>3, <2>4, PairsAfter
<1>10. SeesRequests(s)'
  <2>1. \A q \in Pair : q # p => SameStage(v.topup[q], view[s].topup[q])
    BY <1>4 DEF SameStage
  <2>2. Staged(s, rows, v)
    BY <1>3, <1>4, <2>1 DEF Staged
  <2>3. UNCHANGED <<db, missed>>
    OBVIOUS
  <2> QED BY <1>6, <2>2, <2>3, RequestsAfter
<1> QED BY <1>1, <1>3, <1>5, <1>8, <1>9, <1>10, LocalStep

\* What a session knows of a pair that it sees made and that has not changed since.
LEMMA LockedPair ==
  ASSUME BucketInv, NEW s \in open, NEW p \in Pair, p \notin missed[s],
         view[s].topup[p].made
  PROVE  /\ IF db.topup[p].made
            THEN SamePair(view[s].topup[p], db.topup[p]) /\ None(draft[s], p)
            ELSE Once(draft[s], p, view[s].topup[p])
         /\ \/ Once(view[s].moves, p, view[s].topup[p])
            \/ Once(draft[s], p, view[s].topup[p])
<1>1. SeesPairs(s)
  BY DEF BucketInv
<1>2. CASE holder[p] = s
  BY <1>1, <1>2 DEF SeesPairs
<1>3. CASE holder[p] # s
  BY <1>1, <1>3 DEF SeesPairs, SamePair
<1> QED BY <1>2, <1>3

\* A bill of a made pair reset, posted again or deleted, no move posted.
LEMMA RewriteStep ==
  ASSUME BucketInv, NEW s \in open, NEW rows \in SUBSET Row, Lock(s, rows),
         NEW p \in Pair, \A q \in Pair : q \in rows <=> q = p,
         NEW t \in Topup, Sound(t),
         view' = [view EXCEPT ![s].topup[p] = t], UNCHANGED <<db, open, draft, missed>>,
         view[s].topup[p].made, SamePair(t, view[s].topup[p]),
         view[s].topup[p].gone \subseteq t.gone,
         p[1] \in rows \/ SameStage(t, view[s].topup[p])
  PROVE  BucketInv'
<1>1. p \notin missed[s]
  BY DEF Lock
<1>2. /\ IF db.topup[p].made
         THEN SamePair(view[s].topup[p], db.topup[p]) /\ None(draft[s], p)
         ELSE Once(draft[s], p, view[s].topup[p])
      /\ \/ Once(view[s].moves, p, view[s].topup[p])
         \/ Once(draft[s], p, view[s].topup[p])
  BY <1>1, LockedPair
<1>3. SamePair(view[s].topup[p], t) /\ t.made
  BY DEF SamePair
<1>4. Once(view[s].moves, p, t) \/ Once(draft[s], p, t)
  BY <1>2, <1>3, OnceIsStable
<1>5. IF db.topup[p].made THEN SamePair(t, db.topup[p]) /\ None(draft[s], p)
                          ELSE Once(draft[s], p, t)
  <2>1. CASE db.topup[p].made
    BY <1>2, <2>1 DEF SamePair
  <2>2. CASE ~db.topup[p].made
    BY <1>2, <1>3, <2>2, OnceIsStable
  <2> QED BY <2>1, <2>2
<1>6. InTurn([view[s].topup EXCEPT ![p] = t])
  <2>1. /\ InTurn(view[s].topup) /\ view[s] \in Database
    BY DEF BucketInv, BucketTypeOK, SeesRequests
  <2>2. view[s].topup \in [Pair -> Topup]
    BY <2>1, DatabaseTypes
  <2> DEFINE u == [view[s].topup EXCEPT ![p] = t]
  <2>3. \A q \in Pair : /\ u[q].made = view[s].topup[q].made
                       /\ view[s].topup[q].gone \subseteq u[q].gone
    BY <2>2 DEF SamePair
  <2> HIDE DEF u
  <2> SUFFICES ASSUME NEW r \in Request, NEW g \in 1..MaxPairs, NEW h \in 1..MaxPairs,
                      g < h, u[<<r, h>>].made
               PROVE  u[<<r, g>>].made /\ "dp_100" \in u[<<r, g>>].gone
    BY DEF InTurn, u
  <2>4. <<r, g>> \in Pair /\ <<r, h>> \in Pair
    BY DEF Pair
  <2>5. view[s].topup[<<r, g>>].made /\ "dp_100" \in view[s].topup[<<r, g>>].gone
    BY <2>1, <2>3, <2>4 DEF InTurn
  <2> QED BY <2>3, <2>4, <2>5
<1> QED BY <1>3, <1>4, <1>5, <1>6, TopupStep

\* Resetting a bill leaves what its pair has credited as it was.
LEMMA ResetStep ==
  ASSUME BucketInv, NEW s \in Session, NEW p \in Pair, NEW role \in Role,
         ResetBill(s, p, role)
  PROVE  BucketInv'
<1>1. /\ s \in open /\ Lock(s, {p}) /\ role \in view[s].topup[p].posted
      /\ view' = [view EXCEPT ![s].topup[p].posted = @ \ {role}]
      /\ UNCHANGED <<db, open, draft, missed>>
  BY DEF ResetBill
<1>2. view \in [Session -> Database] /\ view[s] \in Database
  BY DEF BucketInv, BucketTypeOK
<1>3. view[s].topup \in [Pair -> Topup] /\ view[s].topup[p] \in Topup
  BY <1>2, DatabaseTypes
<1>4. Sound(view[s].topup[p])
  BY <1>1 DEF BucketInv, SeesPairs
<1> DEFINE t == [view[s].topup[p] EXCEPT !.posted = @ \ {role}]
<1>5. /\ t \in Topup /\ SamePair(t, view[s].topup[p]) /\ SameStage(t, view[s].topup[p])
      /\ view[s].topup[p].gone \subseteq t.gone
  BY <1>3 DEF Topup, SamePair, SameStage
<1>6. view[s].topup[p].made
  BY <1>1, <1>4 DEF Sound
<1>7. Sound(t)
  BY <1>3, <1>4, <1>6 DEF Topup, Sound
<1>8. view' = [view EXCEPT ![s].topup[p] = t]
  BY <1>1
<1> HIDE DEF t
<1>9. {p} \in SUBSET Row /\ \A q \in Pair : q \in {p} <=> q = p
  BY RowFacts
<1> QED BY <1>1, <1>5, <1>6, <1>7, <1>8, <1>9, RewriteStep

\* A session that sees a pair made sees, or has posted, the credit it is due.
LEMMA MadeIsCredited ==
  ASSUME BucketInv, NEW s \in open, NEW p \in Pair, NEW t \in Topup,
         t = view[s].topup[p], t.made, t.deposit > 0
  PROVE  AlreadyCredited(s, t.bucket, <<p, CreditRole(t.timing)>>)
<1> DEFINE b == t.bucket
           bill == <<p, CreditRole(t.timing)>>
           j == view[s].moves[b]
           d == draft[s][b]
<1>1. /\ SeesPairs(s) /\ view[s] \in Database /\ draft[s] \in [Bucket -> Seq(Move)]
  BY DEF BucketInv, BucketTypeOK
<1>2. b \in Bucket
  BY TopupTypes
<1>3. j \in Seq(Move) /\ d \in Seq(Move)
  BY <1>1, <1>2, DatabaseTypes
<1>4. Once(view[s].moves, p, t) \/ Once(draft[s], p, t)
  BY <1>1 DEF SeesPairs
<1>5. ASSUME NEW m, Once(m, p, t)
      PROVE  \E i \in DOMAIN m[b] : m[b][i].bill = bill
  BY <1>5 DEF Once, Credits
<1>6. (\E i \in DOMAIN j : j[i].bill = bill) \/ (\E i \in DOMAIN d : d[i].bill = bill)
  BY <1>4, <1>5
<1>7. PICK k \in Seq(Move) : k = j
  BY <1>3
<1>8. PICK e \in Seq(Move) : e = d
  BY <1>3
<1>9. PICK x : x = bill
  OBVIOUS
<1> HIDE DEF j, d, b, bill
<1>10. (\E i \in DOMAIN k : k[i].bill = x) \/ (\E i \in DOMAIN e : e[i].bill = x)
  BY <1>6, <1>7, <1>8, <1>9
<1>11. \E i \in DOMAIN (k \o e) : (k \o e)[i].bill = x
  <2> DEFINE c == k \o e
  <2>1. /\ DOMAIN k = 1..Len(k) /\ DOMAIN e = 1..Len(e)
        /\ \A i \in 1..Len(k) : i \in DOMAIN c /\ c[i] = k[i]
        /\ \A i \in 1..Len(e) : Len(k) + i \in DOMAIN c /\ c[Len(k) + i] = e[i]
    BY ConcatParts
  <2> HIDE DEF c
  <2>2. \E i \in DOMAIN c : c[i].bill = x
    BY <1>10, <2>1
  <2> QED BY <2>2 DEF c
<1> QED BY <1>7, <1>8, <1>9, <1>11 DEF AlreadyCredited, j, d, b, bill

\* A bill posted again never credits: its pair has its credit, or is due none.
LEMMA RepostStep ==
  ASSUME BucketInv, NEW s \in Session, NEW p \in Pair, NEW role \in Role,
         RepostBill(s, p, role)
  PROVE  BucketInv'
<1> DEFINE u == view[s].topup[p]
           t == [u EXCEPT !.posted = @ \cup {role}]
<1>1. /\ s \in open /\ u.made /\ PostBills(s, p, t, {role}, {})
      /\ role \notin u.posted \cup u.gone
  BY DEF RepostBill
<1>2. view[s] \in Database /\ SeesPairs(s)
  BY <1>1 DEF BucketInv, BucketTypeOK
<1>3. u \in Topup /\ Sound(u)
  BY <1>2, DatabaseTypes DEF SeesPairs
<1> HIDE DEF u
<1>4. /\ t \in Topup /\ SamePair(t, u) /\ SameStage(t, u) /\ u.gone \subseteq t.gone
      /\ t.deposit = u.deposit /\ t.bucket = u.bucket /\ t.timing = u.timing
  BY <1>3 DEF Topup, SamePair, SameStage
<1>5. Sound(t)
  BY <1>1, <1>3 DEF Topup, Sound
<1>6. ~HookCredits(s, p, t, role)
  <2> SUFFICES ASSUME HookCredits(s, p, t, role) PROVE FALSE
    OBVIOUS
  <2>1. /\ role = CreditRole(t.timing) /\ t.deposit > 0
        /\ ~AlreadyCredited(s, t.bucket, <<p, role>>)
    <3> HIDE DEF t
    <3>1. t.deposit \in Int
      BY <1>4, TopupTypes
    <3>2. BucketDelta(t, role) > 0 /\ ~AlreadyCredited(s, t.bucket, <<p, role>>)
      BY DEF HookCredits
    <3> QED BY <3>1, <3>2 DEF BucketDelta
  <2>2. AlreadyCredited(s, u.bucket, <<p, CreditRole(u.timing)>>)
    BY <1>1, <1>3, <1>4, <2>1, MadeIsCredited DEF u
  <2> QED BY <1>4, <2>1, <2>2
<1>7. /\ Lock(s, {p})
      /\ view' = [view EXCEPT ![s].topup[p] = t]
      /\ UNCHANGED <<db, open, draft, missed>>
  <2> HIDE DEF t
  <2>1. {q \in {role} : HookCredits(s, p, t, q)} = {}
    BY <1>6
  <2>2. {p} \cup {} = {p}
    OBVIOUS
  <2> QED BY <1>1, <2>1, <2>2 DEF PostBills
<1>8. {p} \in SUBSET Row /\ \A q \in Pair : q \in {p} <=> q = p
  BY RowFacts
<1> HIDE DEF t
<1> QED BY <1>1, <1>4, <1>5, <1>7, <1>8, RewriteStep DEF u

\* A deleted bill has credited nothing, and was the one its pair is due nothing on.
LEMMA DeleteStep ==
  ASSUME BucketInv, NEW s \in Session, NEW p \in Pair, NEW role \in Role,
         DeleteBill(s, p, role)
  PROVE  BucketInv'
<1> DEFINE u == view[s].topup[p]
           t == [u EXCEPT !.gone = @ \cup {role}]
<1>1. /\ s \in open /\ u.made /\ role \notin u.posted \cup u.gone
      /\ ~AlreadyCredited(s, u.bucket, <<p, role>>)
      /\ Lock(s, IF role = "dp_100" THEN {p, p[1]} ELSE {p})
      /\ view' = [view EXCEPT ![s].topup[p].gone = @ \cup {role}]
      /\ UNCHANGED <<db, open, draft, missed>>
  BY DEF DeleteBill
<1>2. view[s] \in Database /\ SeesPairs(s) /\ view \in [Session -> Database]
  BY <1>1 DEF BucketInv, BucketTypeOK
<1>3. u \in Topup /\ Sound(u) /\ view[s].topup \in [Pair -> Topup]
  BY <1>2, DatabaseTypes DEF SeesPairs
<1>4. view' = [view EXCEPT ![s].topup[p] = t]
  BY <1>1
<1>5. u = view[s].topup[p]
  OBVIOUS
<1> HIDE DEF u
<1>6. /\ t \in Topup /\ SamePair(t, u) /\ u.gone \subseteq t.gone
      /\ role # "dp_100" => SameStage(t, u)
  BY <1>3 DEF Topup, SamePair, SameStage
<1>7. Sound(t)
  <2>1. ASSUME u.deposit > 0 PROVE CreditRole(u.timing) # role
    BY <1>1, <1>3, <1>5, <2>1, MadeIsCredited
  <2> QED BY <1>1, <1>3, <2>1 DEF Topup, Sound
<1>8. PICK rows : rows = IF role = "dp_100" THEN {p, p[1]} ELSE {p}
  OBVIOUS
<1>9. /\ rows \in SUBSET Row /\ Lock(s, rows) /\ \A q \in Pair : q \in rows <=> q = p
      /\ p[1] \in rows \/ SameStage(t, u)
  <2>1. /\ p \in Row /\ p[1] \in Row /\ p[1] \notin Pair
    BY RowFacts
  <2> HIDE DEF t
  <2> QED BY <1>1, <1>6, <1>8, <2>1
<1> HIDE DEF t
<1> QED BY <1>1, <1>4, <1>5, <1>6, <1>7, <1>9, RewriteStep

\* Pair p becomes t, and bucket b is credited with its deposit.
Credited(s, p, t, b) ==
  LET post == Posting(s, b, t.deposit, <<p, CreditRole(t.timing)>>)
  IN  /\ view'  = [view EXCEPT ![s] = [post.view EXCEPT !.topup[p] = t]]
      /\ draft' = [draft EXCEPT ![s] = post.draft]

\* A new pair written and its deposit credited, in one step under the locks.
LEMMA CreditStep ==
  ASSUME BucketInv, NEW s \in open, NEW p \in Pair, NEW t \in Topup, NEW b \in Bucket,
         NEW rows \in SUBSET Row, Lock(s, rows), b \in rows, p[1] \in rows,
         \A q \in Pair : q \in rows <=> q = p,
         UNCHANGED <<db, open, missed>>, InTurn([view[s].topup EXCEPT ![p] = t]),
         Sound(t), t.made, t.deposit > 0, t.bucket = b, ~db.topup[p].made, None(draft[s], p),
         Credited(s, p, t, b)
  PROVE  BucketInv'
<1>1. /\ s \in Session /\ view[s] \in Database /\ draft[s] \in [Bucket -> Seq(Move)]
      /\ view \in [Session -> Database] /\ draft \in [Session -> [Bucket -> Seq(Move)]]
      /\ db \in Database
  BY DEF BucketInv, BucketTypeOK
<1>2. /\ view[s].balance[b] \in Int /\ draft[s][b] \in Seq(Move)
      /\ view[s].balance \in [Bucket -> Int] /\ view[s].topup \in [Pair -> Topup]
  BY <1>1, DatabaseTypes
<1>3. t.deposit \in Int /\ CreditRole(t.timing) \in Role
  BY TopupTypes DEF CreditRole, Role
<1> DEFINE after == view[s].balance[b] + t.deposit
           e == [amount |-> t.deposit, after |-> after, bill |-> <<p, CreditRole(t.timing)>>]
           v == [[view[s] EXCEPT !.balance[b] = after] EXCEPT !.topup[p] = t]
           d == [draft[s] EXCEPT ![b] = Append(@, e)]
<1>4. view[s].balance[b] >= 0
  BY DEF BucketInv, SeesBuckets
<1>5. after \in Int /\ after >= 0
  BY <1>2, <1>3, <1>4
<1>6. e \in Move
  <2>1. <<p, CreditRole(t.timing)>> \in Bill
    BY <1>3, RowFacts
  <2> HIDE DEF after
  <2> QED BY <1>3, <1>5, <2>1 DEF Move
<1>7. view' = [view EXCEPT ![s] = v] /\ draft' = [draft EXCEPT ![s] = d]
  BY DEF Credited, Posting
<1>8. Append(draft[s][b], e) \in Seq(Move)
  BY <1>2, <1>6, AppendProperties
<1>9. d \in [Bucket -> Seq(Move)]
  BY <1>1, <1>8
<1>10. /\ v \in Database /\ v.moves = view[s].moves
       /\ v.topup = [view[s].topup EXCEPT ![p] = t]
       /\ v.balance = [view[s].balance EXCEPT ![b] = after]
  <2> HIDE DEF after
  <2> QED BY <1>1, <1>5 DEF Database
<1>11. view'[s] = v /\ draft'[s] = d
  BY <1>1, <1>7
<1>12. /\ e.after = view[s].balance[b] + e.amount /\ e.after >= 0
       /\ e.amount = t.deposit /\ e.bill = <<p, CreditRole(t.timing)>>
       /\ v.balance[b] = e.after /\ d[b] = Append(draft[s][b], e)
  BY <1>1, <1>2, <1>5, <1>10
<1>13. \A c \in Bucket : c # b => v.balance[c] = view[s].balance[c] /\ d[c] = draft[s][c]
  BY <1>1, <1>2, <1>10
<1>14. /\ v.topup[p] = t
       /\ \A q \in Pair : q # p => v.topup[q] = view[s].topup[q] /\ v.topup[q] \in Topup
  BY <1>2, <1>10
<1>16. ASSUME NEW q \in Pair, q # p, NEW u \in Topup
       PROVE  (None(draft[s], q) => None(d, q)) /\ (Once(draft[s], q, u) => Once(d, q, u))
  <2>1. e.bill \notin {q} \X Role
    BY <1>12, <1>16
  <2>2. PICK m \in [Bucket -> Seq(Move)] : m = draft[s]
    BY <1>1
  <2>3. PICK x \in Move : x = e
    BY <1>6
  <2>4. d = [m EXCEPT ![b] = Append(@, x)]
    BY <2>2, <2>3
  <2> HIDE DEF d, e
  <2>5. /\ None(m, q) => None([m EXCEPT ![b] = Append(@, x)], q)
        /\ Once(m, q, u) => Once([m EXCEPT ![b] = Append(@, x)], q, u)
    BY <2>1, <2>3, AppendOther
  <2> QED BY <2>2, <2>4, <2>5
<1>17. Once(d, p, t)
  <2> HIDE DEF e
  <2> QED BY <1>1, <1>6, <1>12, AppendCredit
<1> HIDE DEF v, d, e, after
<1>18. v \in Database /\ v.moves = view[s].moves /\ UNCHANGED <<db, missed>>
  BY <1>10
<1>19. SeesBuckets(s)'
  <2>1. Moved(s, rows, v, d)
    BY <1>6, <1>12, <1>13 DEF Moved
  <2> QED BY <1>9, <1>11, <1>18, <2>1, BucketsAfter
<1>20. SeesPairs(s)'
  <2>1. \A q \in Pair \ rows :
            /\ v.topup[q] = view[s].topup[q]
            /\ None(draft[s], q) => None(d, q)
            /\ Once(draft[s], q, v.topup[q]) => Once(d, q, v.topup[q])
    BY <1>14, <1>16
  <2>2. \A q \in Pair \cap rows :
            /\ v.topup[q].made /\ ~db.topup[q].made /\ Once(d, q, v.topup[q])
            /\ Sound(v.topup[q])
    BY <1>14, <1>17
  <2>3. Wrote(s, rows, v, d)
    BY <2>1, <2>2 DEF Wrote
  <2> QED BY <1>9, <1>11, <1>18, <2>3, PairsAfter
<1>21. SeesRequests(s)'
  <2>1. \A q \in Pair : q # p => SameStage(v.topup[q], view[s].topup[q])
    BY <1>14 DEF SameStage
  <2>2. Staged(s, rows, v)
    BY <1>10, <2>1 DEF Staged
  <2> QED BY <1>11, <1>18, <2>2, RequestsAfter
<1> QED BY <1>7, <1>9, <1>18, <1>19, <1>20, <1>21, LocalStep

\* A second pair of a request waits for the down payment of the first to be deleted.
LEMMA NextPairInTurn ==
  ASSUME NEW u \in [Pair -> Topup], InTurn(u), NEW r \in Request, NEW g \in 1..MaxPairs,
         ~u[<<r, g>>].made, NEW t \in Topup,
         \A h \in 1..MaxPairs : h < g => u[<<r, h>>].made,
         \A h \in 1..MaxPairs : u[<<r, h>>].made => "dp_100" \in u[<<r, h>>].gone
  PROVE  InTurn([u EXCEPT ![<<r, g>>] = t])
<1> DEFINE v == [u EXCEPT ![<<r, g>>] = t]
<1>1. <<r, g>> \in Pair /\ \A q \in Request, h \in 1..MaxPairs : <<q, h>> \in Pair
  BY DEF Pair
<1>2. \A q \in Request, h \in 1..MaxPairs : q # r \/ h # g => v[<<q, h>>] = u[<<q, h>>]
  BY <1>1
<1> HIDE DEF v
<1> SUFFICES ASSUME NEW q \in Request, NEW k \in 1..MaxPairs, NEW h \in 1..MaxPairs,
                    k < h, v[<<q, h>>].made
             PROVE  v[<<q, k>>].made /\ "dp_100" \in v[<<q, k>>].gone
  BY DEF InTurn, v
<1>3. CASE q = r /\ h = g
  <2>1. k # g
    BY <1>3
  <2> QED BY <1>2, <1>3, <2>1
<1>4. CASE ~(q = r /\ h = g)
  <2>1. u[<<q, h>>].made
    BY <1>2, <1>4
  <2>2. u[<<q, k>>].made /\ "dp_100" \in u[<<q, k>>].gone
    BY <2>1 DEF InTurn
  <2>3. ~(q = r /\ k = g)
    BY <2>2
  <2> QED BY <1>2, <2>2, <2>3
<1> QED BY <1>3, <1>4

\* The wizard credits the deposit of a new pair exactly once, in the bill its provider's
\* timing names.
LEMMA ApplyStep ==
  ASSUME BucketInv, NEW s \in Session, NEW r \in Request, NEW b \in Bucket,
         NEW dpp \in Dpp, NEW discount \in Discount, ApplyTopup(s, r, b, dpp, discount)
  PROVE  BucketInv'
<1> DEFINE deposit == DepositFor(view[s].timing, dpp, discount)
           t == [made |-> TRUE, timing |-> view[s].timing, bucket |-> b, posted |-> Role,
                 deposit |-> deposit, gone |-> {}]
           role0 == CreditRole(view[s].timing)
           made == {g \in 1..MaxPairs : view[s].topup[<<r, g>>].made}
<1>a. PICK g \in (1..MaxPairs) \ made :
        /\ \A h \in 1..MaxPairs : h < g => h \in made
        /\ PostBills(s, <<r, g>>, t, Role, {r})
  BY DEF ApplyTopup
<1>b. s \in open /\ \A h \in made : ~Stands(view[s].topup[<<r, h>>])
  BY DEF ApplyTopup
<1>c. PICK p \in Pair : p = <<r, g>>
  BY DEF Pair
<1> DEFINE credit == {role \in Role : HookCredits(s, p, t, role)}
<1>1. /\ s \in open /\ ~view[s].topup[p].made /\ PostBills(s, p, t, Role, {r})
      /\ p[1] = r
  BY <1>a, <1>b, <1>c
<1>2. /\ view[s] \in Database /\ db \in Database /\ draft[s] \in [Bucket -> Seq(Move)]
      /\ InTurn(view[s].topup)
  BY <1>1 DEF BucketInv, BucketTypeOK, SeesRequests
<1>3. view[s].timing \in Timing /\ view[s].moves[b] \in Seq(Move) /\ draft[s][b] \in Seq(Move)
  BY <1>2, DatabaseTypes
<1>0. deposit \in Int
  <2>1. dpp \in Int /\ discount \in Int
    BY DppAssumption, DiscountAssumption
  <2> QED BY <2>1 DEF DepositFor
<1> HIDE DEF deposit
<1>4. /\ t \in Topup /\ t.made /\ t.bucket = b /\ t.deposit = deposit /\ Sound(t)
      /\ t.timing = view[s].timing
  BY <1>0, <1>3 DEF Topup, Sound
<1>d. InTurn([view[s].topup EXCEPT ![p] = t])
  <2>1. view[s].topup \in [Pair -> Topup]
    BY <1>2, DatabaseTypes
  <2>2. /\ \A h \in 1..MaxPairs : h < g => view[s].topup[<<r, h>>].made
        /\ \A h \in 1..MaxPairs : view[s].topup[<<r, h>>].made =>
                                   "dp_100" \in view[s].topup[<<r, h>>].gone
    BY <1>a, <1>b DEF Stands
  <2> HIDE DEF t
  <2> QED BY <1>1, <1>2, <1>4, <1>c, <2>1, <2>2, NextPairInTurn
<1>5. role0 \in Role
  BY DEF CreditRole, Role
<1>e. PICK few : few = {p} \cup {r}
  OBVIOUS
<1>f. PICK more : more = {p, b} \cup {r}
  OBVIOUS
<1>g. /\ few \in SUBSET Row /\ more \in SUBSET Row /\ b \in more
      /\ p[1] \in few /\ p[1] \in more
      /\ \A q \in Pair : (q \in few <=> q = p) /\ (q \in more <=> q = p)
  <2>1. /\ p \in Row /\ r \in Row /\ b \in Row /\ r \notin Pair /\ b \notin Pair
    BY RowFacts
  <2> QED BY <1>1, <1>e, <1>f, <2>1
<1>6. \E rows \in SUBSET Row : p \in rows /\ Lock(s, rows)
  <2>1. Lock(s, few) \/ Lock(s, more)
    <3> HIDE DEF t
    <3> QED BY <1>1, <1>4, <1>e, <1>f DEF PostBills
  <2> QED BY <1>g, <2>1
<1>7. p \notin missed[s]
  BY <1>6 DEF Lock
<1>8. SeesPairs(s)
  BY <1>1 DEF BucketInv
<1>9. /\ ~db.topup[p].made /\ None(draft[s], p) /\ None(view[s].moves, p)
  BY <1>1, <1>7, <1>8 DEF SeesPairs
<1>10. ~AlreadyCredited(s, b, <<p, role0>>)
  <2> SUFFICES ASSUME AlreadyCredited(s, b, <<p, role0>>) PROVE FALSE
    OBVIOUS
  <2> DEFINE j == view[s].moves[b]
             d == draft[s][b]
  <2>1. PICK i \in DOMAIN (j \o d) : (j \o d)[i].bill = <<p, role0>>
    BY DEF AlreadyCredited
  <2>2. j \in Seq(Move) /\ d \in Seq(Move)
    BY <1>3
  <2>3. /\ \A n \in DOMAIN j : j[n].bill # <<p, role0>>
        /\ \A n \in DOMAIN d : d[n].bill # <<p, role0>>
    <3>1. <<p, role0>> \in {p} \X Role
      BY <1>5
    <3> HIDE DEF role0
    <3> QED BY <1>9, <3>1 DEF None, Credits
  <2>4. \/ i \in 1..Len(j) /\ (j \o d)[i] = j[i]
        \/ i - Len(j) \in 1..Len(d) /\ (j \o d)[i] = d[i - Len(j)]
    <3> HIDE DEF j, d
    <3>1. i \in 1..Len(j) \/ i - Len(j) \in 1..Len(d)
      BY <2>2, ConcatParts
    <3>2. ASSUME i - Len(j) \in 1..Len(d) PROVE (j \o d)[i] = d[i - Len(j)]
      <4>1. (j \o d)[Len(j) + (i - Len(j))] = d[i - Len(j)]
        BY <2>2, <3>2, ConcatParts
      <4>2. i \in Int /\ Len(j) \in Int
        BY <2>2, ConcatParts
      <4>3. Len(j) + (i - Len(j)) = i
        BY <4>2
      <4> QED BY <4>1, <4>3
    <3>3. ASSUME i \in 1..Len(j) PROVE (j \o d)[i] = j[i]
      BY <2>2, <3>3, ConcatParts
    <3> QED BY <3>1, <3>2, <3>3
  <2>5. DOMAIN j = 1..Len(j) /\ DOMAIN d = 1..Len(d)
    BY <2>2, ConcatParts
  <2> HIDE DEF j, d, role0
  <2> QED BY <2>1, <2>3, <2>4, <2>5
<1>11. BucketDelta(t, role0) = deposit
  BY <1>4 DEF BucketDelta
<1> HIDE DEF t
<1>12. CASE /\ credit = {} /\ Lock(s, few)
            /\ view' = [view EXCEPT ![s].topup[p] = t]
            /\ UNCHANGED <<db, open, draft, missed>>
  <2>1. ~HookCredits(s, p, t, role0)
    BY <1>5, <1>12
  <2>2. ~(deposit > 0)
    BY <1>4, <1>10, <1>11, <2>1 DEF HookCredits
  <2>3. Once(draft[s], p, t)
    BY <1>4, <1>9, <2>2 DEF Once
  <2> QED BY <1>1, <1>4, <1>9, <1>12, <1>d, <1>g, <2>3, TopupStep
<1>13. ASSUME NEW role \in credit,
              LET post == Posting(s, b, BucketDelta(t, role), <<p, role>>)
              IN  /\ Lock(s, more)
                  /\ view'  = [view EXCEPT ![s] = [post.view EXCEPT !.topup[p] = t]]
                  /\ draft' = [draft EXCEPT ![s] = post.draft]
                  /\ UNCHANGED <<db, open, missed>>
       PROVE  BucketInv'
  <2>1. role = role0 /\ BucketDelta(t, role) > 0
    BY <1>13 DEF HookCredits
  <2>2. BucketDelta(t, role) = t.deposit /\ role = CreditRole(t.timing) /\ t.deposit > 0
    BY <1>4, <1>11, <2>1
  <2>3. Credited(s, p, t, b)
    BY <1>13, <2>2 DEF Credited
  <2>4. Lock(s, more) /\ UNCHANGED <<db, open, missed>>
    BY <1>13
  <2> QED BY <1>1, <1>4, <1>9, <1>d, <1>g, <2>2, <2>3, <2>4, CreditStep
<1> HIDE DEF role0
<1>14. \/ /\ credit = {} /\ Lock(s, few)
          /\ view' = [view EXCEPT ![s].topup[p] = t]
          /\ UNCHANGED <<db, open, draft, missed>>
       \/ \E role \in credit :
            LET post == Posting(s, b, BucketDelta(t, role), <<p, role>>)
            IN  /\ Lock(s, more)
                /\ view'  = [view EXCEPT ![s] = [post.view EXCEPT !.topup[p] = t]]
                /\ draft' = [draft EXCEPT ![s] = post.draft]
                /\ UNCHANGED <<db, open, missed>>
  BY <1>1, <1>4, <1>e, <1>f DEF PostBills
<1> HIDE DEF credit
<1> QED BY <1>12, <1>13, <1>14
-----------------------------------------------------------------------------
\* A session that begins sees the committed database and holds nothing.
LEMMA BeginStep ==
  ASSUME BucketInv, NEW s \in Session, Begin(s)
  PROVE  BucketInv'
<1>1. /\ s \notin open /\ open' = open \cup {s}
      /\ view' = [view EXCEPT ![s] = db] /\ missed' = [missed EXCEPT ![s] = {}]
      /\ UNCHANGED <<db, holder, draft>>
  BY DEF Begin
<1>2. /\ BucketTypeOK /\ CommittedOK
      /\ \A x \in Row : holder[x] \in open \cup {NoSession}
      /\ \A z \in Session \ open, b \in Bucket : draft[z][b] = << >>
      /\ \A z \in open : SeesBuckets(z) /\ SeesPairs(z) /\ SeesRequests(z)
  BY DEF BucketInv
<1>3. BucketTypeOK'
  BY <1>1, <1>2 DEF BucketTypeOK
<1>4. CommittedOK'
  BY <1>1, <1>2 DEF CommittedOK, BalanceIsJournal, NeverNegative
<1>5. \A x \in Row : holder[x] # s
  BY <1>1, <1>2, SessionAssumption
<1>6. Bucket \subseteq Row /\ Pair \subseteq Row /\ \A p \in Pair : p[1] \in Row
  BY RowFacts
<1>7. view'[s] = db
  BY <1>1, <1>2 DEF BucketTypeOK
<1>8. SeesBuckets(s)'
  <2>1. \A b \in Bucket : draft[s][b] = << >> /\ db.balance[b] >= 0
    BY <1>1, <1>2 DEF CommittedOK, NeverNegative
  <2> QED BY <1>1, <1>5, <1>6, <1>7, <2>1 DEF SeesBuckets
<1>9. SeesPairs(s)'
  <2>1. \A p \in Pair : /\ None(draft[s], p) /\ Sound(db.topup[p])
                        /\ Once(db.moves, p, db.topup[p])
                        /\ ~db.topup[p].made => None(db.moves, p)
    <3> SUFFICES ASSUME NEW p \in Pair
                 PROVE  /\ None(draft[s], p) /\ Sound(db.topup[p])
                        /\ Once(db.moves, p, db.topup[p])
                        /\ ~db.topup[p].made => None(db.moves, p)
      OBVIOUS
    <3>1. None(draft[s], p)
      BY <1>1, <1>2 DEF None, Credits
    <3>2. Once(db.moves, p, db.topup[p]) /\ Sound(db.topup[p])
      BY <1>2 DEF CommittedOK
    <3> QED BY <3>1, <3>2, UnmadeHasNone
  <2> QED BY <1>1, <1>5, <1>6, <1>7, <2>1 DEF SeesPairs
<1>13. SeesRequests(s)'
  <2>1. InTurn(db.topup) /\ \A p \in Pair : SameStage(db.topup[p], db.topup[p])
    BY <1>2 DEF CommittedOK, SameStage
  <2> QED BY <1>1, <1>5, <1>6, <1>7, <2>1 DEF SeesRequests
<1>10. ASSUME NEW z \in open PROVE SeesBuckets(z)' /\ SeesPairs(z)' /\ SeesRequests(z)'
  <2>1. z # s /\ z \in Session
    BY <1>1, <1>2 DEF BucketTypeOK
  <2>2. view'[z] = view[z] /\ missed'[z] = missed[z]
    BY <1>1, <1>2, <2>1 DEF BucketTypeOK
  <2> QED BY <1>1, <1>2, <2>2 DEF SeesBuckets, SeesPairs, SeesRequests
<1>11. \A z \in open' : SeesBuckets(z)' /\ SeesPairs(z)' /\ SeesRequests(z)'
  BY <1>1, <1>8, <1>9, <1>10, <1>13
<1>12. /\ \A x \in Row : holder'[x] \in open' \cup {NoSession}
       /\ \A z \in Session \ open', b \in Bucket : draft'[z][b] = << >>
  BY <1>1, <1>2
<1> QED BY <1>3, <1>4, <1>11, <1>12 DEF BucketInv

\* The timing is not part of what the invariant relates.
LEMMA TimingStep ==
  ASSUME BucketInv, NEW timing \in Timing, SetTiming(timing)
  PROVE  BucketInv'
<1>1. db' = [db EXCEPT !.timing = timing] /\ UNCHANGED <<holder, open, view, draft, missed>>
  BY DEF SetTiming
<1>2. db \in Database
  BY DEF BucketInv, BucketTypeOK
<1>3. /\ db' \in Database /\ db'.balance = db.balance /\ db'.moves = db.moves
      /\ db'.topup = db.topup
  BY <1>1, <1>2 DEF Database
<1>4. BucketTypeOK'
  BY <1>1, <1>3 DEF BucketInv, BucketTypeOK
<1>5. CommittedOK'
  BY <1>3 DEF BucketInv, CommittedOK, BalanceIsJournal, NeverNegative
<1>6. \A z \in open' : SeesBuckets(z)' /\ SeesPairs(z)' /\ SeesRequests(z)'
  <2> SUFFICES ASSUME NEW z \in open PROVE SeesBuckets(z)' /\ SeesPairs(z)' /\ SeesRequests(z)'
    BY <1>1
  <2>1. SeesBuckets(z) /\ SeesPairs(z) /\ SeesRequests(z)
    BY DEF BucketInv
  <2> QED BY <1>1, <1>3, <2>1 DEF SeesBuckets, SeesPairs, SeesRequests
<1> QED BY <1>1, <1>4, <1>5, <1>6 DEF BucketInv

\* Ending a transaction, either way: the session's locks, view and drafts go.
LEMMA ReleaseStep ==
  ASSUME BucketInv, NEW s \in open, Release(s)
  PROVE  /\ s \in Session /\ open' = open \ {s}
         /\ holder' \in [Row -> Session \cup {NoSession}]
         /\ view' \in [Session -> Database]
         /\ draft' \in [Session -> [Bucket -> Seq(Move)]]
         /\ \A x \in Row : holder'[x] \in open' \cup {NoSession}
         /\ \A z \in Session \ open', b \in Bucket : draft'[z][b] = << >>
         /\ \A z \in open' : /\ z # s /\ z \in open /\ z \in Session
                             /\ view'[z] = view[z] /\ draft'[z] = draft[z]
                             /\ SeesBuckets(z) /\ SeesPairs(z) /\ SeesRequests(z)
         /\ \A z \in open', x \in Row : (holder'[x] = z) <=> (holder[x] = z)
<1>1. /\ s \in Session /\ BucketTypeOK /\ open \subseteq Session
      /\ \A x \in Row : holder[x] \in open \cup {NoSession}
      /\ \A z \in Session \ open, b \in Bucket : draft[z][b] = << >>
      /\ \A z \in open : SeesBuckets(z) /\ SeesPairs(z) /\ SeesRequests(z)
  BY DEF BucketInv, BucketTypeOK
<1>2. /\ open' = open \ {s} /\ view' = [view EXCEPT ![s] = NewDatabase]
      /\ holder' = [x \in Row |-> IF holder[x] = s THEN NoSession ELSE holder[x]]
      /\ draft' = [draft EXCEPT ![s] = NoDrafts]
  BY DEF Release
<1>3. /\ holder' \in [Row -> Session \cup {NoSession}]
      /\ view' \in [Session -> Database]
      /\ draft' \in [Session -> [Bucket -> Seq(Move)]]
  BY <1>1, <1>2, RowFacts DEF BucketTypeOK
<1>4. \A x \in Row : holder'[x] \in open' \cup {NoSession}
  BY <1>1, <1>2
<1>5. \A z \in Session \ open', b \in Bucket : draft'[z][b] = << >>
  <2> SUFFICES ASSUME NEW z \in Session \ open', NEW b \in Bucket PROVE draft'[z][b] = << >>
    OBVIOUS
  <2>1. CASE z = s
    BY <1>1, <1>2, <2>1 DEF BucketTypeOK, NoDrafts
  <2>2. CASE z # s
    BY <1>1, <1>2, <2>2 DEF BucketTypeOK
  <2> QED BY <2>1, <2>2
<1>6. \A z \in open' : /\ z # s /\ z \in open /\ z \in Session
                       /\ view'[z] = view[z] /\ draft'[z] = draft[z]
                       /\ SeesBuckets(z) /\ SeesPairs(z) /\ SeesRequests(z)
  BY <1>1, <1>2 DEF BucketTypeOK
<1>7. \A z \in open', x \in Row : (holder'[x] = z) <=> (holder[x] = z)
  BY <1>2, <1>6, SessionAssumption
<1> QED BY <1>1, <1>2, <1>3, <1>4, <1>5, <1>6, <1>7

\* A transaction that is rolled back leaves the committed database as it was.
LEMMA RollbackStep ==
  ASSUME BucketInv, NEW s \in Session, Rollback(s)
  PROVE  BucketInv'
<1>1. /\ s \in open /\ Release(s) /\ missed' = [missed EXCEPT ![s] = {}] /\ db' = db
  BY DEF Rollback
<1>2. BucketTypeOK /\ CommittedOK
  BY DEF BucketInv
<1>3. BucketTypeOK'
  BY <1>1, <1>2, ReleaseStep DEF BucketTypeOK
<1>4. CommittedOK'
  BY <1>1, <1>2 DEF CommittedOK, BalanceIsJournal, NeverNegative
<1>5. Bucket \subseteq Row /\ Pair \subseteq Row /\ \A p \in Pair : p[1] \in Row
  BY RowFacts
<1>6. ASSUME NEW z \in open' PROVE SeesBuckets(z)' /\ SeesPairs(z)' /\ SeesRequests(z)'
  <2>1. /\ z # s /\ z \in open /\ z \in Session
        /\ view'[z] = view[z] /\ draft'[z] = draft[z]
        /\ SeesBuckets(z) /\ SeesPairs(z) /\ SeesRequests(z)
        /\ \A x \in Row : (holder'[x] = z) <=> (holder[x] = z)
    BY <1>1, ReleaseStep
  <2>2. missed'[z] = missed[z]
    BY <1>1, <1>2, <2>1 DEF BucketTypeOK
  <2>3. SeesBuckets(z)'
    BY <1>1, <1>5, <2>1, <2>2 DEF SeesBuckets
  <2>4. SeesPairs(z)'
    BY <1>1, <1>5, <2>1, <2>2 DEF SeesPairs
  <2>5. SeesRequests(z)'
    BY <1>1, <1>5, <2>1, <2>2 DEF SeesRequests
  <2> QED BY <2>3, <2>4, <2>5
<1>7. /\ \A x \in Row : holder'[x] \in open' \cup {NoSession}
      /\ \A z \in Session \ open', b \in Bucket : draft'[z][b] = << >>
  BY <1>1, ReleaseStep
<1> QED BY <1>3, <1>4, <1>6, <1>7 DEF BucketInv

\* What a commit writes.
LEMMA CommitWrites ==
  ASSUME BucketInv, NEW s \in Session, Commit(s)
  PROVE  /\ s \in open /\ Release(s) /\ SeesBuckets(s) /\ SeesPairs(s) /\ SeesRequests(s)
         /\ db \in Database /\ view[s] \in Database /\ draft[s] \in [Bucket -> Seq(Move)]
         /\ db'.balance = [b \in Bucket |-> IF holder[b] = s THEN view[s].balance[b]
                                                              ELSE db.balance[b]]
         /\ db'.moves = [b \in Bucket |-> db.moves[b] \o draft[s][b]]
         /\ db'.topup = [p \in Pair |-> IF holder[p] = s THEN view[s].topup[p]
                                                             ELSE db.topup[p]]
         /\ db' \in Database
<1>1. /\ s \in open /\ Release(s) /\ SeesBuckets(s) /\ SeesPairs(s) /\ SeesRequests(s)
      /\ db \in Database /\ view[s] \in Database /\ draft[s] \in [Bucket -> Seq(Move)]
  BY DEF Commit, BucketInv, BucketTypeOK
<1> DEFINE bal == [b \in Bucket |-> IF holder[b] = s THEN view[s].balance[b]
                                                     ELSE db.balance[b]]
           mov == [b \in Bucket |-> db.moves[b] \o draft[s][b]]
           top == [p \in Pair |-> IF holder[p] = s THEN view[s].topup[p]
                                                      ELSE db.topup[p]]
<1>2. db' = [db EXCEPT !.balance = bal, !.moves = mov, !.topup = top]
  BY DEF Commit
<1>3. bal \in [Bucket -> Int] /\ top \in [Pair -> Topup]
  BY <1>1, DatabaseTypes
<1>4. mov \in [Bucket -> Seq(Move)]
  <2>1. \A b \in Bucket : db.moves[b] \in Seq(Move) /\ draft[s][b] \in Seq(Move)
    BY <1>1, DatabaseTypes
  <2>2. \A b \in Bucket : db.moves[b] \o draft[s][b] \in Seq(Move)
    BY <2>1, ConcatProperties
  <2> QED BY <2>2
<1> HIDE DEF bal, mov, top
<1>5. db' \in Database /\ db'.balance = bal /\ db'.moves = mov /\ db'.topup = top
  BY <1>1, <1>2, <1>3, <1>4 DEF Database
<1> QED BY <1>1, <1>5 DEF bal, mov, top

\* What a commit does to the journal of each bucket.
LEMMA CommitPosts ==
  ASSUME BucketInv, NEW s \in Session, Commit(s), NEW b \in Bucket
  PROVE  /\ Sub!Chained(0, db'.moves[b])
         /\ db'.balance[b] = Sub!Closing(0, db'.moves[b])
         /\ db'.balance[b] >= 0
         /\ \A i \in DOMAIN db'.moves[b] : db'.moves[b][i].after >= 0
         /\ holder[b] # s => db'.balance[b] = db.balance[b] /\ db'.moves[b] = db.moves[b]
<1>0. /\ db \in Database /\ SeesBuckets(s) /\ draft[s] \in [Bucket -> Seq(Move)]
      /\ db'.balance = [c \in Bucket |-> IF holder[c] = s THEN view[s].balance[c]
                                                           ELSE db.balance[c]]
      /\ db'.moves = [c \in Bucket |-> db.moves[c] \o draft[s][c]]
  BY CommitWrites
<1>1. /\ db \in Database /\ SeesBuckets(s) /\ draft[s] \in [Bucket -> Seq(Move)]
      /\ db'.balance[b] = IF holder[b] = s THEN view[s].balance[b] ELSE db.balance[b]
      /\ db'.moves[b] = db.moves[b] \o draft[s][b]
  BY <1>0
<1>2. db.moves[b] \in Seq(Move) /\ draft[s][b] \in Seq(Move)
  BY <1>1, DatabaseTypes
<1>3. /\ Sub!Chained(0, db.moves[b]) /\ db.balance[b] = Sub!Closing(0, db.moves[b])
      /\ db.balance[b] >= 0 /\ \A i \in DOMAIN db.moves[b] : db.moves[b][i].after >= 0
  BY DEF BucketInv, CommittedOK, BalanceIsJournal, NeverNegative
<1>4. CASE holder[b] = s
  <2>1. /\ Sub!Chained(Sub!Closing(0, db.moves[b]), draft[s][b])
        /\ view[s].balance[b] = Sub!Closing(Sub!Closing(0, db.moves[b]), draft[s][b])
        /\ view[s].balance[b] >= 0
        /\ \A i \in DOMAIN draft[s][b] : draft[s][b][i].after >= 0
    BY <1>1, <1>3, <1>4 DEF SeesBuckets
  <2>2. /\ Sub!Chained(0, db.moves[b] \o draft[s][b])
        /\ Sub!Closing(0, db.moves[b] \o draft[s][b])
             = Sub!Closing(Sub!Closing(0, db.moves[b]), draft[s][b])
    BY <1>2, <1>3, <2>1, ChainConcat
  <2>3. \A i \in DOMAIN (db.moves[b] \o draft[s][b]) :
          (db.moves[b] \o draft[s][b])[i].after >= 0
    BY <1>2, <1>3, <2>1, ConcatNonNegative
  <2> QED BY <1>1, <1>4, <2>1, <2>2, <2>3
<1>5. CASE holder[b] # s
  <2>1. draft[s][b] = << >>
    BY <1>1, <1>5 DEF SeesBuckets
  <2>2. db'.moves[b] = db.moves[b]
    BY <1>1, <1>2, <2>1, ConcatEmptySeq
  <2> QED BY <1>1, <1>3, <1>5, <2>2
<1> QED BY <1>4, <1>5

\* ... and to the credits of each pair.
LEMMA CommitCredits ==
  ASSUME BucketInv, NEW s \in Session, Commit(s), NEW p \in Pair
  PROVE  /\ Once(db'.moves, p, db'.topup[p]) /\ Sound(db'.topup[p])
         /\ holder[p] # s => db'.topup[p] = db.topup[p]
<1>0. /\ db \in Database /\ view[s] \in Database /\ SeesPairs(s)
      /\ draft[s] \in [Bucket -> Seq(Move)]
      /\ db'.topup = [q \in Pair |-> IF holder[q] = s THEN view[s].topup[q]
                                                          ELSE db.topup[q]]
      /\ db'.moves = [b \in Bucket |-> db.moves[b] \o draft[s][b]]
  BY CommitWrites
<1>1. /\ db \in Database /\ view[s] \in Database /\ SeesPairs(s)
      /\ draft[s] \in [Bucket -> Seq(Move)]
      /\ db'.topup[p] = IF holder[p] = s THEN view[s].topup[p] ELSE db.topup[p]
      /\ db'.moves = [b \in Bucket |-> db.moves[b] \o draft[s][b]]
  BY <1>0
<1>2. /\ db.moves \in [Bucket -> Seq(Move)]
      /\ db.topup[p] \in Topup /\ view[s].topup[p] \in Topup
  BY <1>1, DatabaseTypes
<1>3. Once(db.moves, p, db.topup[p]) /\ Sound(db.topup[p]) /\ Sound(view[s].topup[p])
  BY <1>1 DEF BucketInv, CommittedOK, SeesPairs
<1>4. ASSUME NEW t \in Topup
      PROVE  /\ None(draft[s], p) /\ Once(db.moves, p, t) => Once(db'.moves, p, t)
             /\ None(db.moves, p) /\ Once(draft[s], p, t) => Once(db'.moves, p, t)
  BY <1>1, <1>2, ConcatCredits
<1>5. CASE holder[p] = s
  <2>1. db'.topup[p] = view[s].topup[p]
    BY <1>1, <1>5
  <2>2. CASE db.topup[p].made
    <3>1. SamePair(view[s].topup[p], db.topup[p]) /\ None(draft[s], p)
      BY <1>1, <1>5, <2>2 DEF SeesPairs
    <3>2. SamePair(db.topup[p], view[s].topup[p])
      BY <3>1 DEF SamePair
    <3>3. Once(db.moves, p, view[s].topup[p])
      BY <1>3, <3>2, OnceIsStable
    <3> QED BY <1>2, <1>3, <1>4, <1>5, <2>1, <3>1, <3>3
  <2>3. CASE ~db.topup[p].made
    <3>1. Once(draft[s], p, view[s].topup[p])
      BY <1>1, <1>5, <2>3 DEF SeesPairs
    <3>2. None(db.moves, p)
      BY <1>3, <2>3, UnmadeHasNone
    <3> QED BY <1>2, <1>3, <1>4, <1>5, <2>1, <3>1, <3>2
  <2> QED BY <2>2, <2>3
<1>6. CASE holder[p] # s
  <2>1. None(draft[s], p)
    BY <1>1, <1>6 DEF SeesPairs
  <2> QED BY <1>1, <1>2, <1>3, <1>4, <1>6, <2>1
<1> QED BY <1>5, <1>6

\* A commit changes the stages of a request's pairs only under the lock of its log row, and
\* then publishes those the session sees.
LEMMA CommitStages ==
  ASSUME BucketInv, NEW s \in Session, Commit(s), NEW p \in Pair
  PROVE  IF holder[p[1]] = s THEN SameStage(db'.topup[p], view[s].topup[p])
                             ELSE SameStage(db'.topup[p], db.topup[p])
<1>0. /\ SeesRequests(s)
      /\ db'.topup = [q \in Pair |-> IF holder[q] = s THEN view[s].topup[q] ELSE db.topup[q]]
  BY CommitWrites
<1>1. /\ holder[p[1]] = s => p[1] \notin missed[s]
      /\ (IF holder[p] = s THEN holder[p[1]] # s ELSE p[1] \notin missed[s])
           => SameStage(view[s].topup[p], db.topup[p])
      /\ db'.topup[p] = IF holder[p] = s THEN view[s].topup[p] ELSE db.topup[p]
  BY <1>0 DEF SeesRequests
<1>2. CASE holder[p] = s
  BY <1>1, <1>2 DEF SameStage
<1>3. CASE holder[p] # s
  BY <1>1, <1>3 DEF SameStage
<1> QED BY <1>2, <1>3

\* What a commit publishes keeps a request's pairs in turn: it is what the session sees where
\* it holds the log row, and what was committed elsewhere.
LEMMA CommitInTurn ==
  ASSUME BucketInv, NEW s \in Session, Commit(s)
  PROVE  InTurn(db'.topup)
<1>1. InTurn(db.topup) /\ InTurn(view[s].topup)
  BY CommitWrites DEF BucketInv, CommittedOK, SeesRequests
<1>2. PICK t : t = db'.topup
  OBVIOUS
<1> SUFFICES ASSUME NEW r \in Request, NEW g \in 1..MaxPairs, NEW h \in 1..MaxPairs,
                    g < h, t[<<r, h>>].made
             PROVE  t[<<r, g>>].made /\ "dp_100" \in t[<<r, g>>].gone
  BY <1>2 DEF InTurn
<1>3. /\ <<r, g>> \in Pair /\ <<r, h>> \in Pair
      /\ <<r, g>>[1] = r /\ <<r, h>>[1] = r
  BY DEF Pair
<1>4. CASE holder[r] = s
  <2>1. /\ SameStage(t[<<r, g>>], view[s].topup[<<r, g>>])
        /\ SameStage(t[<<r, h>>], view[s].topup[<<r, h>>])
    BY <1>2, <1>3, <1>4, CommitStages
  <2> QED BY <1>1, <2>1 DEF InTurn, SameStage
<1>5. CASE holder[r] # s
  <2>1. /\ SameStage(t[<<r, g>>], db.topup[<<r, g>>])
        /\ SameStage(t[<<r, h>>], db.topup[<<r, h>>])
    BY <1>2, <1>3, <1>5, CommitStages
  <2> QED BY <1>1, <2>1 DEF InTurn, SameStage
<1> QED BY <1>4, <1>5

\* A commit publishes the session's rows and leaves every other session's alone.
LEMMA CommitStep ==
  ASSUME BucketInv, NEW s \in Session, Commit(s)
  PROVE  BucketInv'
<1>1. /\ s \in open /\ Release(s) /\ db' \in Database
      /\ missed' = [z \in Session |-> IF z \in open \ {s} THEN missed[z] \cup Held(s) ELSE {}]
  BY CommitWrites DEF Commit
<1>2. BucketTypeOK /\ CommittedOK
  BY DEF BucketInv
<1>3. BucketTypeOK'
  <2>1. missed' \in [Session -> SUBSET Row]
    BY <1>1, <1>2 DEF BucketTypeOK, Held
  <2>2. /\ holder' \in [Row -> Session \cup {NoSession}] /\ open' \in SUBSET Session
        /\ view' \in [Session -> Database] /\ draft' \in [Session -> [Bucket -> Seq(Move)]]
    BY <1>1, <1>2, ReleaseStep DEF BucketTypeOK
  <2> QED BY <1>1, <2>1, <2>2 DEF BucketTypeOK
<1>4. CommittedOK'
  BY CommitPosts, CommitCredits, CommitInTurn DEF CommittedOK, BalanceIsJournal, NeverNegative
<1>5. Bucket \subseteq Row /\ Pair \subseteq Row /\ \A p \in Pair : p[1] \in Row
  BY RowFacts
<1>6. ASSUME NEW z \in open' PROVE SeesBuckets(z)' /\ SeesPairs(z)' /\ SeesRequests(z)'
  <2>1. /\ z # s /\ z \in open /\ z \in Session
        /\ view'[z] = view[z] /\ draft'[z] = draft[z]
        /\ SeesBuckets(z) /\ SeesPairs(z) /\ SeesRequests(z)
        /\ \A x \in Row : (holder'[x] = z) <=> (holder[x] = z)
    BY <1>1, ReleaseStep
  <2>2. missed'[z] = missed[z] \cup Held(s)
    BY <1>1, <2>1
  <2>3. \A x \in Row : x \notin missed'[z] <=> (x \notin missed[z] /\ holder[x] # s)
    BY <2>2 DEF Held
  <2>4. \A b \in Bucket : holder[b] # s =>
          db'.balance[b] = db.balance[b] /\ db'.moves[b] = db.moves[b]
    BY CommitPosts
  <2>5. \A p \in Pair : holder[p] # s => db'.topup[p] = db.topup[p]
    BY CommitCredits
  <2>6. SeesBuckets(z)'
    <3> SUFFICES ASSUME NEW b \in Bucket
        PROVE /\ holder'[b] = z =>
                   /\ b \notin missed'[z]
                   /\ Sub!Chained(db'.balance[b], draft'[z][b])
                   /\ view'[z].balance[b] = Sub!Closing(db'.balance[b], draft'[z][b])
              /\ holder'[b] # z => draft'[z][b] = << >>
              /\ b \notin missed'[z] =>
                   /\ view'[z].moves[b] = db'.moves[b]
                   /\ holder'[b] # z => view'[z].balance[b] = db'.balance[b]
              /\ view'[z].balance[b] >= 0
              /\ \A i \in DOMAIN draft'[z][b] : draft'[z][b][i].after >= 0
      BY DEF SeesBuckets
    <3>1. b \in Row
      BY <1>5
    <3> QED BY <2>1, <2>3, <2>4, <3>1 DEF SeesBuckets
  <2>7. SeesPairs(z)'
    <3> SUFFICES ASSUME NEW p \in Pair
        PROVE /\ Sound(view'[z].topup[p])
              /\ IF view'[z].topup[p].made
                 THEN \/ Once(view'[z].moves, p, view'[z].topup[p])
                      \/ Once(draft'[z], p, view'[z].topup[p])
                 ELSE None(view'[z].moves, p)
              /\ holder'[p] = z =>
                   /\ p \notin missed'[z]
                   /\ view'[z].topup[p].made
                   /\ IF db'.topup[p].made
                      THEN SamePair(view'[z].topup[p], db'.topup[p]) /\ None(draft'[z], p)
                      ELSE Once(draft'[z], p, view'[z].topup[p])
              /\ holder'[p] # z =>
                   /\ None(draft'[z], p)
                   /\ p \notin missed'[z] => view'[z].topup[p] = db'.topup[p]
      BY DEF SeesPairs
    <3>1. p \in Row
      BY <1>5
    <3> QED BY <2>1, <2>3, <2>5, <3>1 DEF SeesPairs
  <2>8. SeesRequests(z)'
    <3> SUFFICES ASSUME NEW p \in Pair
        PROVE /\ holder'[p[1]] = z => p[1] \notin missed'[z]
              /\ (IF holder'[p] = z THEN holder'[p[1]] # z ELSE p[1] \notin missed'[z])
                   => SameStage(view'[z].topup[p], db'.topup[p])
      BY <2>1 DEF SeesRequests
    <3>1. p \in Row /\ p[1] \in Row
      BY <1>5
    <3>2. /\ holder[p[1]] = z => p[1] \notin missed[z]
          /\ (IF holder[p] = z THEN holder[p[1]] # z ELSE p[1] \notin missed[z])
               => SameStage(view[z].topup[p], db.topup[p])
      BY <2>1 DEF SeesRequests
    <3>3. holder[p[1]] # s => SameStage(db'.topup[p], db.topup[p])
      BY CommitStages
    <3>4. CASE holder[p] = z
      BY <2>1, <2>3, <2>5, <3>1, <3>2, <3>4
    <3>5. CASE holder[p] # z
      BY <2>1, <2>3, <3>1, <3>2, <3>3, <3>5 DEF SameStage
    <3> QED BY <3>4, <3>5
  <2> QED BY <2>6, <2>7, <2>8
<1>7. /\ \A x \in Row : holder'[x] \in open' \cup {NoSession}
      /\ \A z \in Session \ open', b \in Bucket : draft'[z][b] = << >>
  BY <1>1, ReleaseStep
<1> QED BY <1>3, <1>4, <1>6, <1>7 DEF BucketInv

\* Every step of every session, and every edit of the provider, preserves it.
LEMMA NextBucket == BucketInv /\ [BucketNext]_bucketVars => BucketInv'
<1> SUFFICES ASSUME BucketInv, [BucketNext]_bucketVars PROVE BucketInv'
  OBVIOUS
<1>1. ASSUME NEW s \in Session, NEW b \in Bucket, NEW amount \in Amount,
             AtomicDebit(s, b, amount)
      PROVE  BucketInv'
  <2>1. /\ s \in open /\ Lock(s, {b}) /\ amount <= view[s].balance[b]
        /\ PostMove(s, b, -amount)
    BY <1>1 DEF AtomicDebit
  <2>2. view[s] \in Database
    BY DEF BucketInv, BucketTypeOK
  <2>3. view[s].balance[b] \in Int /\ amount \in Nat
    BY <2>2, DatabaseTypes, AmountAssumption
  <2>4. -amount \in Int /\ view[s].balance[b] + (-amount) >= 0
    BY <2>1, <2>3
  <2> QED BY <2>1, <2>4, MoveStep
<1>2. ASSUME NEW s \in Session, NEW b \in Bucket, NEW amount \in Amount,
             AtomicCredit(s, b, amount)
      PROVE  BucketInv'
  <2>1. s \in open /\ Lock(s, {b}) /\ PostMove(s, b, amount)
    BY <1>2 DEF AtomicCredit
  <2>2. view[s] \in Database /\ SeesBuckets(s)
    BY <2>1 DEF BucketInv, BucketTypeOK
  <2>3. view[s].balance[b] \in Int /\ amount \in Nat /\ view[s].balance[b] >= 0
    BY <2>2, DatabaseTypes, AmountAssumption DEF SeesBuckets
  <2>4. amount \in Int /\ view[s].balance[b] + amount >= 0
    BY <2>3
  <2> QED BY <2>1, <2>4, MoveStep
<1>3. CASE UNCHANGED bucketVars
  <2>1. /\ db' = db /\ holder' = holder /\ open' = open /\ view' = view /\ draft' = draft
        /\ missed' = missed
    BY <1>3 DEF bucketVars
  <2>2. BucketTypeOK' /\ CommittedOK'
    BY <2>1 DEF BucketInv, BucketTypeOK, CommittedOK, BalanceIsJournal, NeverNegative
  <2>3. \A s \in open' : SeesBuckets(s)' /\ SeesPairs(s)' /\ SeesRequests(s)'
    <3> SUFFICES ASSUME NEW s \in open
                 PROVE  SeesBuckets(s)' /\ SeesPairs(s)' /\ SeesRequests(s)'
      BY <2>1
    <3>1. SeesBuckets(s) /\ SeesPairs(s) /\ SeesRequests(s)
      BY DEF BucketInv
    <3> QED BY <2>1, <3>1 DEF SeesBuckets, SeesPairs, SeesRequests
  <2> QED BY <2>1, <2>2, <2>3 DEF BucketInv
<1> QED
  BY <1>1, <1>2, <1>3, BeginStep, CommitStep, RollbackStep, RecomputeStep, ApplyStep,
     ResetStep, RepostStep, DeleteStep, TimingStep DEF BucketNext

\* Balances, credits and what every session sees of them agree in every reachable
\* state: no update is lost, each pair of bills has credited what it is due, and a request
\* has one pair after another.
THEOREM SpecBucketInv == BucketSpec => []BucketInv
BY InitBucket, NextBucket, PTL DEF BucketSpec

\* No bucket, and no balance a move left behind, is ever below zero: the raw UPDATEs
\* bypass the constraint, the test under the lock keeps it.
THEOREM BucketNeverNegative == BucketSpec => []NeverNegative
<1>1. BucketInv => NeverNegative
  BY DEF BucketInv, CommittedOK
<1> QED BY <1>1, SpecBucketInv, PTL

\* A pair of bills has credited its own bucket with its deposit exactly once, if that is
\* positive, by a bill that was not deleted; a request has a second pair only after the
\* down payment of the first was deleted.
THEOREM TopupsCreditedOnce == BucketSpec => []CreditedOnce
<1>1. ASSUME BucketInv PROVE CreditedOnce
  <2>0. InTurn(db.topup)
    BY <1>1 DEF BucketInv, CommittedOK
  <2> SUFFICES ASSUME NEW p \in Pair
      PROVE  LET topup == db.topup[p] IN
               IF topup.made /\ topup.deposit > 0
               THEN \E k \in CreditsOf(p) :
                      /\ CreditsOf(p) = {k}
                      /\ k[1] = topup.bucket
                      /\ db.moves[k[1]][k[2]].amount = topup.deposit
                      /\ db.moves[k[1]][k[2]].bill \notin {p} \X topup.gone
               ELSE CreditsOf(p) = {}
    BY <2>0 DEF CreditedOnce
  <2> DEFINE t == db.topup[p]
  <2>1. db \in Database
    BY <1>1 DEF BucketInv, BucketTypeOK
  <2>2. t \in Topup /\ t.bucket \in Bucket
    BY <2>1, DatabaseTypes, TopupTypes
  <2>3. Once(db.moves, p, t) /\ Sound(t)
    BY <1>1 DEF BucketInv, CommittedOK
  <2>4. CreditsOf(p) = UNION {{b} \X Credits(db.moves, b, p) : b \in Bucket}
    BY DEF CreditsOf, Credits
  <2>5. CASE t.made /\ t.deposit > 0
    <3>1. PICK i \in Credits(db.moves, t.bucket, p) :
            /\ Credits(db.moves, t.bucket, p) = {i}
            /\ db.moves[t.bucket][i].amount = t.deposit
            /\ db.moves[t.bucket][i].bill = <<p, CreditRole(t.timing)>>
      BY <2>3, <2>5 DEF Once
    <3>2. \A b \in Bucket : b # t.bucket => Credits(db.moves, b, p) = {}
      BY <2>3, <2>5 DEF Once
    <3> DEFINE k == <<t.bucket, i>>
    <3>0. Credits(db.moves, t.bucket, p) = {i}
      BY <3>1
    <3>3. k \in CreditsOf(p)
      <4>1. k \in {t.bucket} \X Credits(db.moves, t.bucket, p)
        OBVIOUS
      <4> HIDE DEF k
      <4> QED BY <2>2, <2>4, <4>1
    <3>4. \A x \in CreditsOf(p) : x = k
      <4> SUFFICES ASSUME NEW x \in CreditsOf(p) PROVE x = k
        OBVIOUS
      <4>1. PICK b \in Bucket : x \in {b} \X Credits(db.moves, b, p)
        BY <2>4
      <4>2. b = t.bucket
        BY <3>2, <4>1
      <4>3. x \in {t.bucket} \X {i}
        BY <3>0, <4>1, <4>2
      <4> QED BY <4>3
    <3>5. CreditsOf(p) = {k}
      BY <3>3, <3>4
    <3>6. /\ k[1] = t.bucket /\ db.moves[k[1]][k[2]].amount = t.deposit
          /\ db.moves[k[1]][k[2]].bill = <<p, CreditRole(t.timing)>>
      BY <3>1
    <3>7. CreditRole(t.timing) \notin t.gone
      BY <2>3, <2>5 DEF Sound
    <3>8. <<p, CreditRole(t.timing)>> \notin {p} \X t.gone
      BY <3>7
    <3> QED BY <2>5, <3>3, <3>5, <3>6, <3>8
  <2>6. CASE ~(t.made /\ t.deposit > 0)
    <3>1. \A b \in Bucket : Credits(db.moves, b, p) = {}
      BY <2>3, <2>6 DEF Once, None
    <3>2. CreditsOf(p) = {}
      BY <2>4, <3>1
    <3> QED BY <2>6, <3>2
  <2> QED BY <2>5, <2>6
<1> QED BY <1>1, SpecBucketInv, PTL

-----------------------------------------------------------------------------
\* A function on 1..n is a sequence of length n.
LEMMA LenOfFunction ==
  ASSUME NEW n \in Nat, NEW E, NEW e \in [1..n -> E]
  PROVE  Len(e) = n
<1>1. e \in UNION {[1..m -> E] : m \in Nat}
  OBVIOUS
<1>2. e \in Seq(E)
  BY <1>1, SeqDef
<1>3. DOMAIN e = 1..Len(e) /\ Len(e) \in Nat
  BY <1>2, LenProperties
<1>4. DOMAIN e = 1..n
  OBVIOUS
<1>5. \A p, q \in Nat : 1..p = 1..q => p = q
  <2> SUFFICES ASSUME NEW p \in Nat, NEW q \in Nat, 1..p = 1..q, p < q PROVE FALSE
    OBVIOUS
  <2>1. q \in 1..q /\ q \notin 1..p
    OBVIOUS
  <2> QED BY <2>1
<1> QED BY <1>3, <1>4, <1>5

\* The entries of the abstract ledger that a bucket's moves stand for.
Entries(j) == [i \in DOMAIN j |-> [amount |-> j[i].amount, after |-> j[i].after]]

\* The moves of a bucket chain exactly when the entries they stand for do.
LEMMA EntriesFacts ==
  ASSUME NEW j \in Seq(Move)
  PROVE  /\ Len(Entries(j)) = Len(j)
         /\ \A i \in 1..Len(j) : /\ Entries(j)[i].amount = j[i].amount
                                 /\ Entries(j)[i].after = j[i].after
         /\ Sub!Chained(0, j) => Sub!Chained(0, Entries(j))
         /\ Sub!Closing(0, Entries(j)) = Sub!Closing(0, j)
<1>1. Len(j) \in Nat /\ DOMAIN j = 1..Len(j)
  BY LenProperties
<1>2. Entries(j) = [i \in 1..Len(j) |-> [amount |-> j[i].amount, after |-> j[i].after]]
  BY <1>1 DEF Entries
<1>3. Len(Entries(j)) = Len(j)
  <2>1. Entries(j) \in [1..Len(j) -> Sub!Entry]
    <3>1. \A i \in 1..Len(j) : j[i] \in Move
      BY ElementOfSeq
    <3> QED BY <1>2, <3>1 DEF Move, Sub!Entry
  <2> QED BY <1>1, <2>1, LenOfFunction
<1>4. \A i \in 1..Len(j) : /\ Entries(j)[i].amount = j[i].amount
                           /\ Entries(j)[i].after = j[i].after
  BY <1>2
<1>5. ASSUME Sub!Chained(0, j) PROVE Sub!Chained(0, Entries(j))
  <2> SUFFICES ASSUME NEW i \in 1..Len(j)
               PROVE  Entries(j)[i].after = Sub!Before(0, Entries(j), i) + Entries(j)[i].amount
    BY <1>3 DEF Sub!Chained
  <2>1. j[i].after = Sub!Before(0, j, i) + j[i].amount
    BY <1>5 DEF Sub!Chained
  <2>2. Sub!Before(0, Entries(j), i) = Sub!Before(0, j, i)
    <3>1. CASE i = 1
      BY <3>1 DEF Sub!Before
    <3>2. CASE i # 1
      <4>1. i - 1 \in 1..Len(j)
        BY <1>1, <3>2
      <4> QED BY <1>4, <3>2, <4>1 DEF Sub!Before
    <3> QED BY <3>1, <3>2
  <2> QED BY <1>4, <2>1, <2>2
<1>6. Sub!Closing(0, Entries(j)) = Sub!Closing(0, j)
  BY <1>1, <1>3, <1>4 DEF Sub!Closing
<1> QED BY <1>3, <1>4, <1>5, <1>6

\* A step of the bucket posts to the abstract ledger, or leaves it alone.
LEMMA BucketPosts ==
  ASSUME BucketInv, [BucketNext]_bucketVars
  PROVE  [Sub!Post]_(Sub!ledgerVars)
<1>1. BucketInv'
  BY NextBucket
<1>2. db \in Database /\ db' \in Database
  BY <1>1 DEF BucketInv, BucketTypeOK
<1>3. ASSUME NEW b \in Bucket
      PROVE  \/ db'.moves[b] = db.moves[b]
             \/ \E d \in Seq(Move) : db'.moves[b] = db.moves[b] \o d
  <2>1. CASE \E s \in Session : Commit(s)
    <3>1. PICK s \in Session : Commit(s)
      BY <2>1
    <3>2. /\ db'.moves = [c \in Bucket |-> db.moves[c] \o draft[s][c]]
          /\ draft[s] \in [Bucket -> Seq(Move)]
      BY <3>1, CommitWrites
    <3> QED BY <3>2
  <2>2. CASE \E timing \in Timing : SetTiming(timing)
    BY <1>2, <2>2 DEF SetTiming, Database
  <2>3. CASE db' = db
    BY <2>3
  <2>4. CASE UNCHANGED bucketVars
    BY <2>4 DEF bucketVars
  <2>5. ASSUME NEW s \in Session, NEW p \in Pair, NEW role \in Role,
               ResetBill(s, p, role) \/ RepostBill(s, p, role) \/ DeleteBill(s, p, role)
        PROVE  db' = db
    BY <2>5 DEF ResetBill, RepostBill, DeleteBill, PostBills
  <2>6. ASSUME NEW s \in Session, NEW r \in Request, NEW c \in Bucket, NEW dpp \in Dpp,
               NEW discount \in Discount, ApplyTopup(s, r, c, dpp, discount)
        PROVE  db' = db
    BY <2>6 DEF ApplyTopup, PostBills
  <2>7. ASSUME NEW s \in Session, NEW c \in Bucket, NEW amount \in Amount,
               AtomicDebit(s, c, amount) \/ AtomicCredit(s, c, amount)
        PROVE  db' = db
    BY <2>7 DEF AtomicDebit, AtomicCredit, PostMove
  <2>8. ASSUME NEW s \in Session, Begin(s) \/ Rollback(s)
        PROVE  db' = db
    BY <2>8 DEF Begin, Rollback
  <2>9. ASSUME NEW s \in Session, NEW c \in Bucket, Recompute(s, c)
        PROVE  db' = db
    BY <2>9 DEF Recompute
  <2> QED BY <2>1, <2>2, <2>3, <2>4, <2>5, <2>6, <2>7, <2>8, <2>9 DEF BucketNext
<1>4. ASSUME NEW b \in Bucket
      PROVE  Sub!Extends(Entries(db'.moves[b]), Entries(db.moves[b]))
  <2>1. PICK j \in Seq(Move) : j = db.moves[b]
    BY <1>2, DatabaseTypes
  <2>2. PICK k \in Seq(Move) : k = db'.moves[b]
    BY <1>2, DatabaseTypes
  <2>3. Len(j) <= Len(k) /\ \A i \in 1..Len(j) : i \in 1..Len(k) /\ k[i] = j[i]
    <3>1. CASE k = j
      <4>1. Len(j) \in Nat
        BY LenProperties
      <4> QED BY <3>1, <4>1
    <3>2. CASE \E d \in Seq(Move) : k = j \o d
      <4>1. PICK d \in Seq(Move) : k = j \o d
        BY <3>2
      <4>2. /\ Len(j) \in Nat /\ Len(d) \in Nat /\ Len(k) = Len(j) + Len(d)
            /\ \A i \in 1..Len(j) : k[i] = j[i]
        BY <4>1, ConcatParts, ConcatProperties
      <4> QED BY <4>2
    <3> QED BY <1>3, <2>1, <2>2, <3>1, <3>2
  <2>4. /\ Len(Entries(j)) = Len(j) /\ Len(Entries(k)) = Len(k)
        /\ DOMAIN j = 1..Len(j) /\ DOMAIN k = 1..Len(k)
    BY EntriesFacts, LenProperties
  <2>5. \A i \in 1..Len(j) : Entries(k)[i] = Entries(j)[i]
    BY <2>3, <2>4 DEF Entries
  <2> QED BY <2>1, <2>2, <2>3, <2>4, <2>5 DEF Sub!Extends
<1>5. ASSUME NEW b \in Bucket
      PROVE  /\ Sub!Chained(0, Entries(db'.moves[b]))
             /\ db'.balance[b] = Sub!Closing(0, Entries(db'.moves[b]))
  <2>1. db'.moves[b] \in Seq(Move)
    BY <1>2, DatabaseTypes
  <2>2. Sub!Chained(0, db'.moves[b]) /\ db'.balance[b] = Sub!Closing(0, db'.moves[b])
    BY <1>1 DEF BucketInv, CommittedOK, BalanceIsJournal
  <2> QED BY <2>1, <2>2, EntriesFacts
<1>6. Sub!Post
  BY <1>4, <1>5 DEF Sub!Post, Entries
<1> QED BY <1>6

\* However debits, refunds, deposits and recomputations interleave, the bucket
\* implements the abstract sub-ledger.
THEOREM BucketImplementsLedger == BucketSpec => ImplementsLedger
<1>1. BucketInit => Sub!LedgerInit
  <2> SUFFICES ASSUME BucketInit PROVE Sub!LedgerInit
    OBVIOUS
  <2>1. db.balance = [b \in Bucket |-> 0] /\ \A b \in Bucket : db.moves[b] = << >>
    BY DEF BucketInit, NewDatabase
  <2>2. [i \in DOMAIN << >> |-> [amount |-> << >>[i].amount, after |-> << >>[i].after]] = << >>
    OBVIOUS
  <2> QED BY <2>1, <2>2 DEF Sub!LedgerInit
<1>2. BucketInv /\ [BucketNext]_bucketVars => [Sub!Post]_(Sub!ledgerVars)
  BY BucketPosts
<1> QED BY <1>1, <1>2, SpecBucketInv, PTL DEF BucketSpec, ImplementsLedger, Sub!LedgerSpec

-----------------------------------------------------------------------------
\* The element a sum over T takes next.
Pick(T) == CHOOSE p \in T : TRUE

\* The subsets of a finite set, from the empty one up, one element at a time.
LEMMA InductOverSets ==
  ASSUME NEW S, IsFiniteSet(S), NEW G \in SUBSET SUBSET S, {} \in G,
         \A T \in SUBSET S : T # {} /\ T \ {Pick(T)} \in G => T \in G
  PROVE  G = SUBSET S
<1> DEFINE H == {n \in Nat : \A T \in SUBSET S : Cardinality(T) = n => T \in G}
<1>1. \A T \in SUBSET S : IsFiniteSet(T) /\ Cardinality(T) \in Nat
  BY FS_Subset, FS_CardinalityType
<1>2. 0 \in H
  <2>1. \A T \in SUBSET S : Cardinality(T) = 0 => T = {}
    BY <1>1, FS_EmptySet
  <2> QED BY <2>1
<1>3. ASSUME NEW n \in H PROVE n + 1 \in H
  <2> SUFFICES ASSUME NEW T \in SUBSET S, Cardinality(T) = n + 1 PROVE T \in G
    OBVIOUS
  <2>0. n \in Nat
    OBVIOUS
  <2>1. T # {}
    <3>1. Cardinality({}) = 0 /\ n + 1 # 0
      BY <2>0, FS_EmptySet
    <3> QED BY <3>1
  <2>2. Pick(T) \in T
    BY <2>1 DEF Pick
  <2>3. T \ {Pick(T)} \in SUBSET S /\ Cardinality(T \ {Pick(T)}) = Cardinality(T) - 1
    BY <1>1, <2>2, FS_RemoveElement
  <2>4. Cardinality(T \ {Pick(T)}) = n
    BY <2>3
  <2> QED BY <2>1, <2>3, <2>4
<1>4. H \in SUBSET Nat
  OBVIOUS
<1> HIDE DEF H
<1>5. H = Nat
  BY <1>2, <1>3, <1>4, Induct
<1> QED BY <1>1, <1>5 DEF H

\* h holds the sums of f over the subsets of S.
Sums(f, S, h) ==
  /\ SumOver(f, S) = h[S] /\ h[{}] = 0
  /\ \A T \in SUBSET S : /\ h[T] \in Int
                         /\ T # {} => h[T] = f[Pick(T)] + h[T \ {Pick(T)}]

\* A sum over a finite set is the last of the sums over its subsets.
LEMMA SumIs ==
  ASSUME NEW S, IsFiniteSet(S), NEW f \in [S -> Int]
  PROVE  \E h : Sums(f, S, h)
<1> DEFINE rest(T) == T \ {Pick(T)}
           step(k) == [T \in SUBSET S |-> IF T = {} THEN 0 ELSE f[Pick(T)] + k[rest(T)]]
           eq(k) == k = step(k)
           N == {n \in Nat : \E k \in [SUBSET S -> Int] :
                   \A T \in SUBSET S : Cardinality(T) <= n => k[T] = step(k)[T]}
<1>1. ASSUME NEW T \in SUBSET S, T # {}
      PROVE  /\ Pick(T) \in S /\ rest(T) \in SUBSET S
             /\ Cardinality(rest(T)) = Cardinality(T) - 1
  <2>1. Pick(T) \in T
    BY <1>1 DEF Pick
  <2>2. IsFiniteSet(T)
    BY FS_Subset
  <2> QED BY <2>1, <2>2, FS_RemoveElement
<1>2. \A T \in SUBSET S : IsFiniteSet(T) /\ Cardinality(T) \in Nat
  BY FS_Subset, FS_CardinalityType
<1> HIDE DEF rest
<1>3. \A k \in [SUBSET S -> Int] : step(k) \in [SUBSET S -> Int]
  BY <1>1
<1>4. 0 \in N
  <2> DEFINE k == [T \in SUBSET S |-> 0]
  <2>1. \A T \in SUBSET S : Cardinality(T) <= 0 => T = {}
    BY <1>2, FS_EmptySet
  <2>2. \A T \in SUBSET S : Cardinality(T) <= 0 => k[T] = step(k)[T]
    BY <2>1
  <2>3. k \in [SUBSET S -> Int]
    OBVIOUS
  <2> HIDE DEF k, step
  <2> QED BY <2>2, <2>3
<1>5. ASSUME NEW n \in N PROVE n + 1 \in N
  <2>1. PICK k \in [SUBSET S -> Int] :
          \A T \in SUBSET S : Cardinality(T) <= n => k[T] = step(k)[T]
    OBVIOUS
  <2> DEFINE m == step(k)
  <2>2. m \in [SUBSET S -> Int]
    BY <1>3
  <2>3. ASSUME NEW T \in SUBSET S, Cardinality(T) <= n + 1
        PROVE  m[T] = step(m)[T]
    <3>1. CASE T = {}
      BY <3>1
    <3>2. CASE T # {}
      <4>1. rest(T) \in SUBSET S /\ Cardinality(rest(T)) <= n
        BY <1>1, <1>2, <2>3, <3>2
      <4>2. m[rest(T)] = k[rest(T)]
        BY <2>1, <4>1
      <4>3. m[T] = f[Pick(T)] + k[rest(T)]
        BY <3>2
      <4>4. step(m)[T] = f[Pick(T)] + m[rest(T)]
        BY <3>2
      <4> QED BY <4>2, <4>3, <4>4
    <3> QED BY <3>1, <3>2
  <2> HIDE DEF m, step
  <2> QED BY <2>2, <2>3
<1>6. N \in SUBSET Nat
  OBVIOUS
<1> HIDE DEF N
<1>7. N = Nat
  BY <1>4, <1>5, <1>6, Induct
<1>8. \E k \in [SUBSET S -> Int] : eq(k)
  <2>1. Cardinality(S) \in N
    BY <1>2, <1>7
  <2>2. PICK k \in [SUBSET S -> Int] :
          \A T \in SUBSET S : Cardinality(T) <= Cardinality(S) => k[T] = step(k)[T]
    BY <2>1 DEF N
  <2>3. \A T \in SUBSET S : Cardinality(T) <= Cardinality(S)
    BY FS_Subset
  <2>4. \A T \in SUBSET S : k[T] = step(k)[T]
    BY <2>2, <2>3
  <2>5. step(k) \in [SUBSET S -> Int]
    BY <1>3
  <2>6. k = step(k)
    <3> HIDE DEF step
    <3> QED BY <2>4, <2>5
  <2> QED BY <2>6
<1> DEFINE h == CHOOSE k : eq(k)
<1>9. eq(h)
  <2> HIDE DEF eq
  <2> QED BY <1>8
<1>10. SumOver(f, S) = h[S]
  BY DEF SumOver, Pick, rest
<1> HIDE DEF h
<1>11. /\ h[{}] = 0
       /\ \A T \in SUBSET S : T # {} => h[T] = f[Pick(T)] + h[rest(T)]
  BY <1>9
<1> DEFINE G == {T \in SUBSET S : h[T] \in Int}
<1>12. G = SUBSET S
  <2>1. {} \in G
    BY <1>11
  <2>2. ASSUME NEW T \in SUBSET S, T # {}, rest(T) \in G PROVE T \in G
    BY <1>1, <1>11, <2>2
  <2>3. G \in SUBSET SUBSET S
    OBVIOUS
  <2> HIDE DEF G
  <2> QED BY <2>1, <2>2, <2>3, InductOverSets DEF rest
<1>13. \A T \in SUBSET S : h[T] \in Int
  BY <1>12
<1> QED BY <1>10, <1>11, <1>13 DEF rest, Sums

\* Nothing adds up to nothing.
LEMMA SumOfNothing ==
  ASSUME NEW S, IsFiniteSet(S), NEW f \in [S -> Int], \A p \in S : f[p] = 0
  PROVE  SumOver(f, S) = 0
<1>0. PICK h : Sums(f, S, h)
  BY SumIs
<1>1. /\ SumOver(f, S) = h[S] /\ h[{}] = 0
      /\ \A T \in SUBSET S : /\ h[T] \in Int
                             /\ T # {} => h[T] = f[Pick(T)] + h[T \ {Pick(T)}]
  BY <1>0 DEF Sums
<1> DEFINE G == {T \in SUBSET S : h[T] = 0}
<1>2. ASSUME NEW T \in SUBSET S, T # {}, T \ {Pick(T)} \in G PROVE T \in G
  <2>1. Pick(T) \in S
    BY <1>2 DEF Pick
  <2>2. h[T \ {Pick(T)}] = 0 /\ f[Pick(T)] = 0
    BY <1>2, <2>1
  <2>3. h[T] = f[Pick(T)] + h[T \ {Pick(T)}]
    BY <1>1, <1>2
  <2>4. h[T] = 0
    <3> HIDE DEF G
    <3> QED BY <2>2, <2>3
  <2> QED BY <2>4
<1>3. {} \in G /\ G \in SUBSET SUBSET S
  BY <1>1
<1> HIDE DEF G
<1>4. G = SUBSET S
  BY <1>2, <1>3, InductOverSets
<1> QED BY <1>1, <1>4 DEF G

\* One summand changed changes the sum by as much.
LEMMA SumChanges ==
  ASSUME NEW S, IsFiniteSet(S), NEW f \in [S -> Int], NEW g \in [S -> Int],
         NEW q \in S, NEW x \in Int, g[q] = f[q] + x, \A p \in S : p # q => g[p] = f[p]
  PROVE  SumOver(g, S) = SumOver(f, S) + x
<1>0. PICK h : Sums(f, S, h)
  BY SumIs
<1>1. /\ SumOver(f, S) = h[S] /\ h[{}] = 0
      /\ \A T \in SUBSET S : /\ h[T] \in Int
                             /\ T # {} => h[T] = f[Pick(T)] + h[T \ {Pick(T)}]
  BY <1>0 DEF Sums
<1>6. PICK k : Sums(g, S, k)
  BY SumIs
<1>2. /\ SumOver(g, S) = k[S] /\ k[{}] = 0
      /\ \A T \in SUBSET S : /\ k[T] \in Int
                             /\ T # {} => k[T] = g[Pick(T)] + k[T \ {Pick(T)}]
  BY <1>6 DEF Sums
<1> DEFINE G == {T \in SUBSET S : k[T] = h[T] + (IF q \in T THEN x ELSE 0)}
<1>3. ASSUME NEW T \in SUBSET S, T # {}, T \ {Pick(T)} \in G PROVE T \in G
  <2>1. Pick(T) \in T /\ Pick(T) \in S /\ T \ {Pick(T)} \in SUBSET S
    BY <1>3 DEF Pick
  <2>2. /\ h[T] = f[Pick(T)] + h[T \ {Pick(T)}] /\ k[T] = g[Pick(T)] + k[T \ {Pick(T)}]
        /\ h[T \ {Pick(T)}] \in Int /\ k[T \ {Pick(T)}] \in Int
        /\ f[Pick(T)] \in Int /\ g[Pick(T)] \in Int
    BY <1>1, <1>2, <1>3, <2>1
  <2>3. k[T \ {Pick(T)}] = h[T \ {Pick(T)}] + (IF q \in T \ {Pick(T)} THEN x ELSE 0)
    BY <1>3
  <2>4. CASE Pick(T) = q
    <3>1. q \in T /\ q \notin T \ {Pick(T)} /\ g[Pick(T)] = f[Pick(T)] + x
      BY <2>1, <2>4
    <3> QED BY <2>2, <2>3, <3>1
  <2>5. CASE Pick(T) # q
    <3>1. (q \in T <=> q \in T \ {Pick(T)}) /\ g[Pick(T)] = f[Pick(T)]
      BY <2>1, <2>5
    <3> QED BY <2>2, <2>3, <3>1
  <2> QED BY <2>4, <2>5
<1>4. {} \in G /\ G \in SUBSET SUBSET S
  BY <1>1, <1>2
<1> HIDE DEF G
<1>5. G = SUBSET S
  BY <1>3, <1>4, InductOverSets
<1> QED BY <1>1, <1>2, <1>5 DEF G

\* A sum of integers is one.
LEMMA SumType ==
  ASSUME NEW S, IsFiniteSet(S), NEW f \in [S -> Int]
  PROVE  SumOver(f, S) \in Int
<1>1. PICK h : Sums(f, S, h)
  BY SumIs
<1> QED BY <1>1 DEF Sums

\* Term by term, e is f and g together.
AddsUp(e, f, g, S) == \A p \in S : e[p] = f[p] + g[p]

\* Sums add up term by term.
LEMMA SumAdds ==
  ASSUME NEW S, IsFiniteSet(S), NEW f \in [S -> Int], NEW g \in [S -> Int],
         NEW e \in [S -> Int], AddsUp(e, f, g, S)
  PROVE  SumOver(e, S) = SumOver(f, S) + SumOver(g, S)
<1>1. PICK h : Sums(f, S, h)
  BY SumIs
<1>2. PICK k : Sums(g, S, k)
  BY SumIs
<1>3. PICK m : Sums(e, S, m)
  BY SumIs
<1>4. /\ SumOver(f, S) = h[S] /\ SumOver(g, S) = k[S] /\ SumOver(e, S) = m[S]
      /\ h[{}] = 0 /\ k[{}] = 0 /\ m[{}] = 0
  BY <1>1, <1>2, <1>3 DEF Sums
<1> DEFINE G == {T \in SUBSET S : m[T] = h[T] + k[T]}
<1>5. ASSUME NEW T \in SUBSET S, T # {}, T \ {Pick(T)} \in G PROVE T \in G
  <2>1. PICK U \in SUBSET S : U = T \ {Pick(T)}
    OBVIOUS
  <2>2. PICK p \in S : p = Pick(T)
    BY <1>5 DEF Pick
  <2>3. /\ h[T] = f[p] + h[U] /\ k[T] = g[p] + k[U] /\ m[T] = e[p] + m[U]
        /\ h[U] \in Int /\ k[U] \in Int /\ m[U] \in Int
    BY <1>1, <1>2, <1>3, <1>5, <2>1, <2>2 DEF Sums
  <2>4. m[U] = h[U] + k[U]
    BY <1>5, <2>1
  <2>5. f[p] \in Int /\ g[p] \in Int /\ e[p] = f[p] + g[p]
    BY DEF AddsUp
  <2>6. m[T] = h[T] + k[T]
    <3> HIDE DEF G
    <3> QED BY <2>3, <2>4, <2>5
  <2> QED BY <2>6
<1>6. {} \in G /\ G \in SUBSET SUBSET S
  BY <1>4
<1> HIDE DEF G
<1>7. G = SUBSET S
  BY <1>5, <1>6, InductOverSets
<1> QED BY <1>4, <1>7 DEF G

\* There are finitely many pairs of bills.
LEMMA PairsAreFinite == IsFiniteSet(Pair)
<1>1. IsFiniteSet(Request) /\ IsFiniteSet(1..MaxPairs)
  BY BucketAssumption, LengthAssumption, FS_Interval
<1>2. IsFiniteSet(Request \X (1..MaxPairs))
  BY <1>1, FS_Product
<1> QED BY <1>2 DEF Pair

\* One pair's share changed changes the sum over all pairs by as much.
LEMMA PairSumChanges ==
  ASSUME NEW f \in [Pair -> Int], NEW g \in [Pair -> Int],
         NEW q \in Pair, NEW x \in Int,
         g[q] = f[q] + x, \A p \in Pair : p # q => g[p] = f[p]
  PROVE  SumOver(g, Pair) = SumOver(f, Pair) + x
<1>1. IsFiniteSet(Pair)
  BY PairsAreFinite
<1> QED BY <1>1, SumChanges

\* The usages of a journal, as a journal.
LEMMA UsageFacts ==
  ASSUME NEW j \in Seq(Move)
  PROVE  /\ Len(Usage(j)) = Len(j)
         /\ \A i \in 1..Len(j) :
              Usage(j)[i].amount = IF j[i].bill = NoBill THEN j[i].amount ELSE 0
<1>1. Len(j) \in Nat /\ DOMAIN j = 1..Len(j) /\ \A i \in 1..Len(j) : j[i] \in Move
  BY LenProperties, ElementOfSeq
<1>2. ASSUME NEW i \in 1..Len(j)
      PROVE  /\ Usage(j)[i] \in Move
             /\ Usage(j)[i].amount = IF j[i].bill = NoBill THEN j[i].amount ELSE 0
  <2>1. Usage(j)[i] = IF j[i].bill = NoBill THEN j[i] ELSE [j[i] EXCEPT !.amount = 0]
    BY <1>1 DEF Usage
  <2> QED BY <1>1, <2>1 DEF Move
<1>3. Usage(j) \in [1..Len(j) -> Move]
  BY <1>1, <1>2 DEF Usage
<1>4. Len(Usage(j)) = Len(j)
  BY <1>1, <1>3, LenOfFunction
<1> QED BY <1>2, <1>4

\* Each bill's move in j is the only one of its pair and carries what the pair is due; a
\* pair with no move is due nothing.
Accounts(j, due) ==
  \A q \in Pair :
    /\ \A i \in 1..Len(j) : j[i].bill \in {q} \X Role =>
         /\ due[q] = j[i].amount
         /\ \A n \in 1..Len(j) : j[n].bill \in {q} \X Role => n = i
    /\ (\A i \in 1..Len(j) : j[i].bill \notin {q} \X Role) => due[q] = 0

\* A chained journal closes at its usages plus what its pairs are due.
LEMMA UsageIsTheRest ==
  ASSUME NEW j \in Seq(Move), Sub!Chained(0, j), NEW due \in [Pair -> Int],
         Accounts(j, due)
  PROVE  /\ Sub!Closing(0, j) = SumOver(due, Pair) + Total(Usage(j))
         /\ Total(Usage(j)) \in Int
<1> DEFINE by(q, i) == \E n \in 1..i : j[n].bill \in {q} \X Role
           f(i) == [q \in Pair |-> IF by(q, i) THEN due[q] ELSE 0]
           D(i) == SumOver(f(i), Pair)
           after(i) == IF i = 0 THEN 0 ELSE j[i].after
           g == [i \in 0..Len(j) |-> after(i) - D(i)]
<1>0. IsFiniteSet(Pair)
  BY PairsAreFinite
<1>1. /\ Len(j) \in Nat /\ \A i \in 1..Len(j) : j[i] \in Move
  BY LenProperties, ElementOfSeq
<1>2. \A i : f(i) \in [Pair -> Int]
  OBVIOUS
<1>3. \A i : D(i) \in Int
  BY <1>0, <1>2, SumType
<1>4. D(0) = 0
  <2>1. \A q \in Pair : f(0)[q] = 0
    OBVIOUS
  <2>2. f(0) \in [Pair -> Int]
    BY <1>2
  <2> HIDE DEF f
  <2> QED BY <1>0, <2>1, <2>2, SumOfNothing
<1>5. f(Len(j)) = due
  BY DEF Accounts
<1>6. \A i \in 0..Len(j) : after(i) \in Int
  BY <1>1 DEF Move
<1>7. ASSUME NEW i \in 1..Len(j)
      PROVE  after(i) = after(i - 1) + j[i].amount
  <2>1. j[i].after = Sub!Before(0, j, i) + j[i].amount
    BY DEF Sub!Chained
  <2>2. after(i - 1) = Sub!Before(0, j, i) /\ after(i) = j[i].after
    BY <1>1 DEF Sub!Before
  <2> QED BY <2>1, <2>2
<1>8. ASSUME NEW i \in 1..Len(j)
      PROVE  D(i) = D(i - 1) + (IF j[i].bill = NoBill THEN 0 ELSE j[i].amount)
  <2>1. \A q \in Pair : by(q, i) <=> (by(q, i - 1) \/ j[i].bill \in {q} \X Role)
    <3>1. \A n : n \in 1..i <=> (n \in 1..(i - 1) \/ n = i)
      BY <1>1
    <3> QED BY <3>1
  <2>2. i - 1 \in 0..Len(j)
    BY <1>1
  <2>3. j[i].bill \in Bill \cup {NoBill} /\ Bill = Pair \X Role /\ NoBill \notin Bill
    BY <1>1, RowFacts DEF Move
  <2>4. CASE j[i].bill = NoBill
    <3>1. \A q \in Pair : j[i].bill \notin {q} \X Role
      BY <2>3, <2>4
    <3>2. \A q \in Pair : by(q, i) <=> by(q, i - 1)
      BY <2>1, <3>1
    <3> HIDE DEF by
    <3>3. f(i) = f(i - 1)
      BY <3>2
    <3>4. D(i) = D(i - 1)
      BY <3>3
    <3>5. D(i - 1) \in Int
      BY <1>3
    <3> HIDE DEF D
    <3> QED BY <2>4, <3>4, <3>5
  <2>5. CASE j[i].bill # NoBill
    <3>1. PICK q \in Pair : j[i].bill \in {q} \X Role
      BY <2>3, <2>5
    <3>2. \A p \in Pair : j[i].bill \in {p} \X Role => p = q
      BY <3>1
    <3>3. /\ due[q] = j[i].amount
          /\ \A n \in 1..Len(j) : j[n].bill \in {q} \X Role => n = i
      BY <3>1 DEF Accounts
    <3>4. ~by(q, i - 1)
      <4>1. \A n \in 1..(i - 1) : n \in 1..Len(j) /\ n # i
        BY <1>1
      <4> QED BY <3>3, <4>1
    <3>5. by(q, i) /\ \A p \in Pair : p # q => (by(p, i) <=> by(p, i - 1))
      BY <2>1, <3>1, <3>2
    <3> HIDE DEF by
    <3>6. f(i)[q] = f(i - 1)[q] + due[q] /\ due[q] \in Int
      BY <3>4, <3>5
    <3>7. \A p \in Pair : p # q => f(i)[p] = f(i - 1)[p]
      BY <3>5
    <3>8. f(i) \in [Pair -> Int] /\ f(i - 1) \in [Pair -> Int]
      BY <1>2
    <3> HIDE DEF f
    <3>9. SumOver(f(i), Pair) = SumOver(f(i - 1), Pair) + due[q]
      <4>1. PICK u \in [Pair -> Int] : u = f(i)
        BY <3>8
      <4>2. PICK v \in [Pair -> Int] : v = f(i - 1)
        BY <3>8
      <4>3. PICK x \in Int : x = due[q]
        BY <3>6
      <4>4. u[q] = v[q] + x /\ \A p \in Pair : p # q => u[p] = v[p]
        BY <3>6, <3>7, <4>1, <4>2, <4>3
      <4>5. SumOver(u, Pair) = SumOver(v, Pair) + x
        BY <4>4, PairSumChanges
      <4> QED BY <4>1, <4>2, <4>3, <4>5
    <3> QED BY <2>5, <3>3, <3>9
  <2> QED BY <2>4, <2>5
<1> HIDE DEF D, after
<1>9. g[0] = 0 /\ Len(Usage(j)) = Len(j)
  BY <1>1, <1>4, UsageFacts DEF after
<1>10. ASSUME NEW i \in 1..Len(j)
       PROVE  g[i] \in Int /\ g[i] = g[i - 1] + Usage(j)[i].amount
  <2>1. i \in 0..Len(j) /\ i - 1 \in 0..Len(j)
    BY <1>1
  <2>2. g[i] = after(i) - D(i) /\ g[i - 1] = after(i - 1) - D(i - 1)
    BY <2>1
  <2>3. /\ after(i) \in Int /\ after(i - 1) \in Int /\ D(i) \in Int /\ D(i - 1) \in Int
        /\ j[i].amount \in Int
    BY <1>1, <1>3, <1>6, <2>1 DEF Move
  <2>4. Usage(j)[i].amount = IF j[i].bill = NoBill THEN j[i].amount ELSE 0
    BY UsageFacts
  <2>5. after(i) = after(i - 1) + j[i].amount
    BY <1>7
  <2>6. D(i) = D(i - 1) + (IF j[i].bill = NoBill THEN 0 ELSE j[i].amount)
    BY <1>8
  <2> HIDE DEF g
  <2>7. CASE j[i].bill = NoBill
    BY <2>2, <2>3, <2>4, <2>5, <2>6, <2>7
  <2>8. CASE j[i].bill # NoBill
    BY <2>2, <2>3, <2>4, <2>5, <2>6, <2>8
  <2> QED BY <2>7, <2>8
<1>11. Total(Usage(j)) = g[Len(j)]
  <2> HIDE DEF g
  <2> QED BY <1>1, <1>9, <1>10, TotalIs
<1>12. g[Len(j)] = after(Len(j)) - D(Len(j))
  BY <1>1
<1>13. after(Len(j)) = Sub!Closing(0, j)
  BY <1>1 DEF after, Sub!Closing
<1>14. D(Len(j)) = SumOver(due, Pair)
  BY <1>5 DEF D
<1>15. after(Len(j)) \in Int /\ D(Len(j)) \in Int
  BY <1>1, <1>3, <1>6
<1> HIDE DEF g
<1> QED BY <1>11, <1>12, <1>13, <1>14, <1>15

\* What the pairs of a bucket are due.
Due(b) == [p \in Pair |->
             IF db.topup[p].made /\ db.topup[p].bucket = b /\ db.topup[p].deposit > 0
             THEN db.topup[p].deposit ELSE 0]

\* The one move of a pair in the journal of a bucket carries what the pair is due.
LEMMA CreditsAccount ==
  ASSUME BucketInv, NEW b \in Bucket, NEW j \in Seq(Move), j = db.moves[b]
  PROVE  Due(b) \in [Pair -> Int] /\ Accounts(j, Due(b))
<1>1. db \in Database /\ db.topup \in [Pair -> Topup]
  BY DatabaseTypes DEF BucketInv, BucketTypeOK
<1>2. Due(b) \in [Pair -> Int]
  <2>1. \A p \in Pair : db.topup[p].deposit \in Int
    <3> SUFFICES ASSUME NEW p \in Pair PROVE db.topup[p].deposit \in Int
      OBVIOUS
    <3>1. db.topup[p] \in Topup
      BY <1>1
    <3> QED BY <3>1, TopupTypes
  <2> QED BY <2>1 DEF Due
<1>3. \A p \in Pair : /\ Once(db.moves, p, db.topup[p])
                     /\ Credits(db.moves, b, p) = {i \in 1..Len(j) : j[i].bill \in {p} \X Role}
  BY LenProperties DEF BucketInv, CommittedOK, Credits
<1>4. ASSUME NEW p \in Pair, NEW i \in 1..Len(j), j[i].bill \in {p} \X Role
      PROVE  /\ Due(b)[p] = j[i].amount
             /\ \A n \in 1..Len(j) : j[n].bill \in {p} \X Role => n = i
  <2>1. Once(db.moves, p, db.topup[p]) /\ i \in Credits(db.moves, b, p)
    BY <1>3, <1>4
  <2>2. db.topup[p].made /\ db.topup[p].deposit > 0
    BY <2>1 DEF Once, None
  <2>3. db.topup[p].bucket = b
    BY <2>1, <2>2 DEF Once
  <2>4. PICK k \in Credits(db.moves, b, p) :
          Credits(db.moves, b, p) = {k} /\ db.moves[b][k].amount = db.topup[p].deposit
    BY <2>1, <2>2, <2>3 DEF Once
  <2>5. i = k
    BY <2>1, <2>4
  <2>6. \A n \in 1..Len(j) : j[n].bill \in {p} \X Role => n = i
    BY <1>3, <2>4, <2>5
  <2> QED BY <2>2, <2>3, <2>4, <2>5, <2>6 DEF Due
<1>5. ASSUME NEW p \in Pair, \A i \in 1..Len(j) : j[i].bill \notin {p} \X Role
      PROVE  Due(b)[p] = 0
  <2>1. Once(db.moves, p, db.topup[p]) /\ Credits(db.moves, b, p) = {}
    BY <1>3, <1>5
  <2>2. ~(db.topup[p].made /\ db.topup[p].bucket = b /\ db.topup[p].deposit > 0)
    BY <2>1 DEF Once
  <2> QED BY <2>2 DEF Due
<1> QED BY <1>2, <1>4, <1>5 DEF Accounts

\* A pair whose bills are each posted or deleted left on the account what it is due, but
\* for a negative delta, which the hook skipped.
LEMMA BilledIsDue ==
  ASSUME BucketInv, NEW b \in Bucket, NEW p \in Pair,
         db.topup[p].made /\ db.topup[p].bucket = b =>
           Role \subseteq db.topup[p].posted \cup db.topup[p].gone
  PROVE  /\ BilledTo(b)[p] \in Int /\ Skipped(b)[p] \in Int
         /\ Due(b)[p] = BilledTo(b)[p] + Skipped(b)[p]
<1>1. db \in Database /\ Sound(db.topup[p])
  BY DEF BucketInv, BucketTypeOK, CommittedOK
<1>2. PICK t \in Topup : t = db.topup[p]
  BY <1>1, DatabaseTypes
<1>3. t.deposit \in Int /\ t.posted \in SUBSET Role /\ t.gone \in SUBSET Role /\ Sound(t)
  BY <1>1, <1>2, TopupTypes
<1>4. PICK x : x = BilledTo(b)[p]
  OBVIOUS
<1>5. x = IF t.bucket = b
          THEN (IF "dp_100" \in t.posted THEN BucketDelta(t, "dp_100") ELSE 0)
               + (IF "pelunasan" \in t.posted THEN BucketDelta(t, "pelunasan") ELSE 0)
          ELSE 0
  BY <1>2, <1>4 DEF BilledTo
<1>6. Skipped(b)[p] = IF x < 0 THEN -x ELSE 0
  BY <1>4 DEF Skipped
<1>7. Due(b)[p] = IF t.made /\ t.bucket = b /\ t.deposit > 0 THEN t.deposit ELSE 0
  BY <1>2 DEF Due
<1>8. x \in Int /\ Due(b)[p] = x + (IF x < 0 THEN -x ELSE 0)
  <2>1. x = IF t.bucket = b /\ CreditRole(t.timing) \in t.posted THEN t.deposit ELSE 0
    <3>1. CASE t.timing = "dp_post"
      BY <1>3, <1>5, <3>1 DEF BucketDelta, CreditRole
    <3>2. CASE t.timing # "dp_post"
      BY <1>3, <1>5, <3>2 DEF BucketDelta, CreditRole
    <3> QED BY <3>1, <3>2
  <2>2. CASE t.made /\ t.bucket = b
    <3>1. CreditRole(t.timing) \in t.posted \cup t.gone
      BY <1>2, <2>2 DEF CreditRole, Role
    <3>2. t.deposit > 0 => CreditRole(t.timing) \in t.posted
      BY <1>3, <3>1 DEF Sound
    <3> QED BY <1>3, <1>7, <2>1, <2>2, <3>2
  <2>3. CASE t.bucket = b /\ ~t.made
    <3>1. t.posted = {}
      BY <1>3, <2>3 DEF Sound
    <3> QED BY <1>7, <2>1, <2>3, <3>1
  <2>4. CASE t.bucket # b
    BY <1>7, <2>1, <2>4
  <2> QED BY <2>2, <2>3, <2>4
<1> QED BY <1>4, <1>6, <1>8

\* "This guarantees subledger == GL": once every bill of a bucket is posted that was not
\* deleted, the bucket's balance is the balance of its account in the general ledger, plus
\* what negative deltas took off the account alone.
THEOREM SubledgerTiesOut == BucketSpec => []TiesOut
<1>1. ASSUME BucketInv PROVE TiesOut
  <2> SUFFICES ASSUME NEW b \in Bucket,
                      \A p \in Pair :
                        db.topup[p].made /\ db.topup[p].bucket = b =>
                          Role \subseteq db.topup[p].posted \cup db.topup[p].gone
               PROVE  db.balance[b] = GeneralLedger(b) + SumOver(Skipped(b), Pair)
    BY DEF TiesOut
  <2>1. db \in Database
    BY <1>1 DEF BucketInv, BucketTypeOK
  <2>2. PICK j \in Seq(Move) : j = db.moves[b]
    BY <2>1, DatabaseTypes
  <2>3. Sub!Chained(0, j) /\ db.balance[b] = Sub!Closing(0, j)
    BY <1>1, <2>2 DEF BucketInv, CommittedOK, BalanceIsJournal
  <2>4. Due(b) \in [Pair -> Int] /\ Accounts(j, Due(b))
    BY <1>1, <2>2, CreditsAccount
  <2>5. /\ Sub!Closing(0, j) = SumOver(Due(b), Pair) + Total(Usage(j))
        /\ Total(Usage(j)) \in Int
    <3>1. PICK due \in [Pair -> Int] : due = Due(b)
      BY <2>4
    <3> QED BY <2>3, <2>4, <3>1, UsageIsTheRest
  <2>6. \A p \in Pair : /\ BilledTo(b)[p] \in Int /\ Skipped(b)[p] \in Int
                       /\ Due(b)[p] = BilledTo(b)[p] + Skipped(b)[p]
    BY <1>1, BilledIsDue
  <2>7. BilledTo(b) \in [Pair -> Int] /\ Skipped(b) \in [Pair -> Int]
    <3>1. /\ BilledTo(b) = [p \in Pair |-> BilledTo(b)[p]]
          /\ Skipped(b) = [p \in Pair |-> Skipped(b)[p]]
      BY DEF BilledTo, Skipped
    <3> QED BY <2>6, <3>1
  <2>8. /\ SumOver(Due(b), Pair) = SumOver(BilledTo(b), Pair) + SumOver(Skipped(b), Pair)
        /\ SumOver(BilledTo(b), Pair) \in Int /\ SumOver(Skipped(b), Pair) \in Int
    <3>1. PICK e \in [Pair -> Int] : e = Due(b)
      BY <2>4
    <3>2. PICK f \in [Pair -> Int] : f = BilledTo(b)
      BY <2>7
    <3>3. PICK g \in [Pair -> Int] : g = Skipped(b)
      BY <2>7
    <3>4. \A p \in Pair : e[p] = f[p] + g[p]
      BY <2>6, <3>1, <3>2, <3>3
    <3>5. SumOver(e, Pair) = SumOver(f, Pair) + SumOver(g, Pair)
      <4>1. PICK S : S = Pair
        OBVIOUS
      <4>2. IsFiniteSet(S) /\ e \in [S -> Int] /\ f \in [S -> Int] /\ g \in [S -> Int]
            /\ AddsUp(e, f, g, S)
        BY <3>4, <4>1, PairsAreFinite DEF AddsUp
      <4>3. SumOver(e, S) = SumOver(f, S) + SumOver(g, S)
        BY <4>2, SumAdds
      <4> QED BY <4>1, <4>3
    <3>6. SumOver(f, Pair) \in Int /\ SumOver(g, Pair) \in Int
      BY PairsAreFinite, SumType
    <3> QED BY <3>1, <3>2, <3>3, <3>5, <3>6
  <2> QED BY <2>2, <2>3, <2>5, <2>8 DEF GeneralLedger
<1> QED BY <1>1, SpecBucketInv, PTL

-----------------------------------------------------------------------------
(***************************************************************************)
(* The Oracle bridge: the cursor loses no row and a success has been       *)
(* delivered, for any set of keys, any length of the queue, and with       *)
(* backfills ahead of the cursor or without.                               *)
(***************************************************************************)
\* The initial values have their type.
LEMMA OracleTypes ==
  /\ NoTxn \in TxnRow /\ NoCall \in Call /\ Refused \in Call /\ Off \in Sweep
  /\ NoCall # Refused
<1>1. NoTxn \in TxnRow
  BY DEF NoTxn, TxnRow, State
<1>2. NoCall \in Call /\ Refused \in Call /\ NoCall # Refused
  BY DEF NoCall, Refused, Call
<1>3. Off \in Sweep
  <2>1. "absent" \in Status
    BY DEF Status
  <2> QED BY <2>1 DEF Off, Sweep
<1> QED BY <1>1, <1>2, <1>3

LEMMA InitIInv == Init => IInv
<1> SUFFICES ASSUME Init PROVE IInv
  OBVIOUS
<1>1. TypeOK
  <2>1. "absent" \in Status /\ (CHOOSE k \in Key : TRUE) \in Key
    BY NativeAssumption DEF Status
  <2>2. msg \in [Id -> [key: Key, status: Status]]
    BY <2>1 DEF Init
  <2>3. 0 \in Id \cup {0} /\ {} \in SUBSET Id
    OBVIOUS
  <2> QED BY <2>2, <2>3, OracleTypes DEF Init, TypeOK
<1>2. \A i \in Id : ~Visible(i) /\ msg[i].status = "absent"
  BY DEF Init, Visible
<1>3. \A k \in Key : txn[k] = NoTxn
  BY DEF Init
<1>4. \A k \in Native : sending[k] = NoCall
  BY DEF Init
<1>5. sweep.on = FALSE /\ sweep.rows = {} /\ sweep.missed = {}
  BY DEF Init, Off
<1>6. NothingLost /\ IdsInOrder /\ CursorIsRow /\ QuarantineIsVisible
  BY <1>2 DEF NothingLost, IdsInOrder, CursorIsRow, QuarantineIsVisible, Init
<1>7. SuccessIsDelivered /\ LinkIsOwn
  BY <1>3 DEF SuccessIsDelivered, LinkIsOwn, NoTxn
<1>8. SweepIsInOrder /\ ReadIsVisible /\ MissedExists
  BY <1>5 DEF SweepIsInOrder, ReadIsVisible, MissedExists
<1>9. SendingIsOwn
  BY <1>4 DEF SendingIsOwn
<1> QED BY <1>1, <1>6, <1>7, <1>8, <1>9 DEF IInv

\* What the ingestion under way misses grows by keys it has read, and nothing else changes.
LEMMA MissesTypes ==
  ASSUME TypeOK, NEW k \in Key, sweep' = Misses({k})
  PROVE  /\ sweep' \in Sweep
         /\ sweep'.on = sweep.on /\ sweep'.rows = sweep.rows
         /\ sweep'.status = sweep.status /\ sweep'.mapped = sweep.mapped
         /\ sweep'.missed \subseteq sweep.missed \cup {k}
<1>1. sweep \in Sweep
  BY DEF TypeOK
<1> QED BY <1>1 DEF Misses, Sweep

\* One transaction gets a state and perhaps a row of the queue that is its own.
LEMMA TxnStep ==
  ASSUME IInv, NEW k \in Key, NEW row \in TxnRow,
         txn' = [txn EXCEPT ![k] = row], sweep' = Misses({k}),
         UNCHANGED <<msg, last, late, mapped, broken, cursor>>,
         row.state # "none",
         row.oid # 0 => Visible(row.oid) /\ msg[row.oid].key = k,
         row.state = "success" => row.oid # 0 /\ msg[row.oid].status = "D",
         quarantine' \in SUBSET Id, UNCHANGED quarantine,
         replayed' \in SUBSET quarantine',
         sending' \in [Native -> Call],
         \A n \in Native : sending'[n] \in {sending[n], NoCall}
  PROVE  IInv'
<1>1. TypeOK
  BY DEF IInv
<1>2. /\ sweep' \in Sweep /\ sweep'.on = sweep.on /\ sweep'.rows = sweep.rows
      /\ sweep'.status = sweep.status /\ sweep'.missed \subseteq sweep.missed \cup {k}
  BY <1>1, MissesTypes
<1>3. txn' \in [Key -> TxnRow] /\ txn'[k] = row
  BY <1>1 DEF TypeOK
<1>4. \A n \in Key : n # k => txn'[n] = txn[n]
  BY <1>1 DEF TypeOK
<1>5. \A i \in Id : Visible(i)' <=> Visible(i)
  BY DEF Visible
<1>6. \A n \in Key : txn[n].state # "none" => txn'[n].state # "none"
  BY <1>3, <1>4
<1>7. TypeOK'
  BY <1>1, <1>2, <1>3 DEF TypeOK
<1>8. \A i \in Id : msg[i].key \in Key /\ msg[i] = [key |-> msg[i].key, status |-> msg[i].status]
  BY <1>1 DEF TypeOK
<1>9. NothingLost'
  BY <1>5, <1>6, <1>8 DEF IInv, NothingLost
<1>10. \A n \in Key : txn[n].oid \in Id \cup {0}
  BY <1>1 DEF TypeOK, TxnRow
<1>11. row.oid \in Id \cup {0}
  BY DEF TxnRow
<1>12. SuccessIsDelivered'
  <2> SUFFICES ASSUME NEW n \in Key, txn'[n].state = "success"
               PROVE  txn'[n].oid # 0 /\ msg[txn'[n].oid] = [key |-> n, status |-> "D"]
    BY DEF SuccessIsDelivered
  <2>1. CASE n = k
    BY <2>1, <1>3, <1>8, <1>11
  <2>2. CASE n # k
    BY <2>2, <1>4 DEF IInv, SuccessIsDelivered
  <2> QED BY <2>1, <2>2
<1>13. LinkIsOwn'
  <2> SUFFICES ASSUME NEW n \in Key, txn'[n].oid # 0
               PROVE  Visible(txn'[n].oid) /\ msg[txn'[n].oid].key = n
    BY DEF LinkIsOwn, Visible
  <2>1. CASE n = k
    BY <2>1, <1>3, <1>5, <1>11
  <2>2. CASE n # k
    BY <2>2, <1>4, <1>5, <1>10 DEF IInv, LinkIsOwn
  <2> QED BY <2>1, <2>2
<1>14. SweepIsInOrder'
  BY <1>2, <1>5 DEF IInv, SweepIsInOrder
<1>15. ReadIsVisible'
  BY <1>2, <1>5, <1>1 DEF IInv, ReadIsVisible, TypeOK, Sweep
<1>16. MissedExists'
  <2> SUFFICES ASSUME NEW n \in sweep'.missed PROVE txn'[n].state # "none"
    BY DEF MissedExists
  <2>1. CASE n = k
    BY <2>1, <1>3
  <2>2. CASE n # k
    <3>1. n \in sweep.missed /\ n \in Key
      BY <2>2, <1>1, <1>2 DEF TypeOK, Sweep
    <3> QED BY <3>1, <1>6 DEF IInv, MissedExists
  <2> QED BY <2>1, <2>2
<1>17. SendingIsOwn'
  <2> SUFFICES ASSUME NEW n \in Native, sending'[n] # NoCall
               PROVE  /\ txn'[n].state # "none"
                      /\ sending'[n] # Refused =>
                           sending'[n].oid # 0 /\ Visible(sending'[n].oid) /\ msg[sending'[n].oid].key = n
    BY DEF SendingIsOwn, Visible
  <2>1. sending'[n] = sending[n] /\ n \in Key
    BY NativeAssumption
  <2>2. sending[n].oid \in Id \cup {0}
    BY <1>1 DEF TypeOK, Call
  <2> QED BY <2>1, <2>2, <1>5, <1>6 DEF IInv, SendingIsOwn
<1>18. IdsInOrder' /\ CursorIsRow' /\ QuarantineIsVisible'
  BY <1>1, <1>5 DEF IInv, IdsInOrder, CursorIsRow, QuarantineIsVisible, TypeOK
<1> QED BY <1>7, <1>9, <1>12, <1>13, <1>14, <1>15, <1>16, <1>17, <1>18 DEF IInv

\* A row of the queue changes: it is given out hidden or published, appears, or is decided.
LEMMA QueueStep ==
  ASSUME IInv, NEW i \in Id, NEW row \in [key: Key, status: Status],
         msg' = [msg EXCEPT ![i] = row],
         UNCHANGED <<txn, mapped, quarantine, replayed, broken, cursor, sweep>>,
         last' \in Id \cup {0}, last <= last', i <= last',
         late' \in SUBSET Id, late \subseteq late',
         Visible(i) => row.key = msg[i].key /\ msg[i].status = "P" /\ row.status \in {"P", "D", "C"},
         ~Visible(i) => \/ row.status = "hidden"
                        \/ i \in late'
                        \/ \A j \in Id : j > i => ~Visible(j),
         sending' \in [Native -> Call],
         \A n \in Native : sending'[n] # NoCall =>
           \/ sending'[n] = sending[n]
           \/ txn[n].state # "none" /\ (sending'[n] # Refused =>
                sending'[n].oid = i /\ row.key = n /\ row.status = "P")
  PROVE  IInv'
<1>1. TypeOK
  BY DEF IInv
<1>2. msg' \in [Id -> [key: Key, status: Status]] /\ msg'[i] = row
  BY <1>1 DEF TypeOK
<1>3. \A j \in Id : j # i => msg'[j] = msg[j]
  BY <1>1 DEF TypeOK
<1>4. \A j \in Id : Visible(j) => msg'[j].key = msg[j].key /\ msg'[j].status \in {"P", "D", "C"}
  BY <1>2, <1>3 DEF Visible
<1>5. \A j \in Id : Visible(j) /\ msg[j].status # "P" => msg'[j] = msg[j]
  BY <1>3
<1>6. i \in Nat /\ i # 0 /\ last \in Nat /\ last' \in Nat /\ cursor \in Nat
  BY <1>1, BoundAssumption DEF TypeOK, Id
<1>7. cursor # 0 => cursor \in Id /\ Visible(cursor)
  BY <1>1 DEF IInv, CursorIsRow, TypeOK
<1>8. \A n \in Key : txn[n].oid \in Id \cup {0}
  BY <1>1 DEF TypeOK, TxnRow
<1>9. TypeOK'
  BY <1>1, <1>2 DEF TypeOK
<1>10. NothingLost'
  <2> SUFFICES ASSUME NEW j \in Id, msg'[j].status \in {"P", "D", "C"}, j <= cursor,
                      j \notin late' \cup broken
               PROVE  txn[msg'[j].key].state # "none" \/ j \in quarantine
    BY DEF NothingLost, Visible
  <2>1. CASE Visible(j)
    <3>1. txn[msg[j].key].state # "none" \/ j \in quarantine
      BY <2>1 DEF IInv, NothingLost
    <3> QED BY <3>1, <2>1, <1>4
  <2>2. CASE ~Visible(j)
    <3>1. j = i
      BY <2>2, <1>3 DEF Visible
    <3>2. \A z \in Id : z > i => ~Visible(z)
      BY <3>1, <2>2, <1>2
    <3>3. cursor # 0 /\ cursor > i
      BY <3>1, <2>2, <1>6, <1>7
    <3> QED BY <3>2, <3>3, <1>7
  <2> QED BY <2>1, <2>2
<1>11. SuccessIsDelivered'
  <2> SUFFICES ASSUME NEW n \in Key, txn[n].state = "success"
               PROVE  txn[n].oid # 0 /\ msg'[txn[n].oid] = [key |-> n, status |-> "D"]
    BY DEF SuccessIsDelivered
  <2>1. txn[n].oid # 0 /\ msg[txn[n].oid] = [key |-> n, status |-> "D"]
    BY DEF IInv, SuccessIsDelivered
  <2>2. Visible(txn[n].oid) /\ msg[txn[n].oid].status # "P"
    BY <2>1 DEF Visible
  <2> QED BY <2>1, <2>2, <1>5, <1>8
<1>12. SweepIsInOrder'
  <2> SUFFICES ASSUME sweep.on, NEW j \in Id, msg'[j].status \in {"P", "D", "C"}, j > cursor,
                      j \notin late'
               PROVE  j \in sweep.rows \/ \A z \in sweep.rows : z < j
    BY DEF SweepIsInOrder, Visible
  <2>1. CASE Visible(j)
    BY <2>1 DEF IInv, SweepIsInOrder
  <2>2. CASE ~Visible(j)
    <3>1. j = i
      BY <2>2, <1>3 DEF Visible
    <3>2. \A z \in Id : z > i => ~Visible(z)
      BY <3>1, <2>2, <1>2
    <3>3. \A z \in sweep.rows : z \in Id /\ Visible(z)
      BY <1>1 DEF IInv, ReadIsVisible, TypeOK, Sweep
    <3>4. \A z \in Id : z \in Nat
      BY BoundAssumption DEF Id
    <3>5. \A z \in sweep.rows : z \in Nat /\ ~(z > i) /\ z # i
      BY <3>1, <3>2, <3>3, <3>4, <2>2
    <3> QED BY <3>1, <3>5, <1>6
  <2> QED BY <2>1, <2>2
<1>13. ReadIsVisible'
  <2> SUFFICES ASSUME NEW j \in sweep.rows
               PROVE  /\ sweep.on /\ msg'[j].status \in {"P", "D", "C"}
                      /\ sweep.status[j] \in {"D", "C"} => msg'[j].status = sweep.status[j]
    BY DEF ReadIsVisible, Visible
  <2>1. j \in Id
    BY <1>1 DEF TypeOK, Sweep
  <2>2. sweep.on /\ Visible(j)
    BY DEF IInv, ReadIsVisible
  <2>3. sweep.status[j] \in {"D", "C"} => msg[j].status = sweep.status[j]
    BY DEF IInv, ReadIsVisible
  <2> QED BY <2>1, <2>2, <2>3, <1>4, <1>5
<1>14. MissedExists'
  BY DEF IInv, MissedExists
<1>15. SendingIsOwn'
  <2> SUFFICES ASSUME NEW n \in Native, sending'[n] # NoCall
               PROVE  /\ txn[n].state # "none"
                      /\ sending'[n] # Refused =>
                           /\ sending'[n].oid # 0 /\ msg'[sending'[n].oid].status \in {"P", "D", "C"}
                           /\ msg'[sending'[n].oid].key = n
    BY DEF SendingIsOwn, Visible
  <2>1. CASE sending'[n] = sending[n]
    <3>1. sending[n].oid \in Id \cup {0}
      BY <1>1 DEF TypeOK, Call
    <3>2. /\ txn[n].state # "none"
          /\ sending[n] # Refused =>
               sending[n].oid # 0 /\ Visible(sending[n].oid) /\ msg[sending[n].oid].key = n
      BY <2>1 DEF IInv, SendingIsOwn
    <3> QED BY <3>1, <3>2, <2>1, <1>4
  <2>2. CASE sending'[n] # sending[n]
    BY <2>2, <1>2, <1>6
  <2> QED BY <2>1, <2>2
<1>16. LinkIsOwn'
  <2> SUFFICES ASSUME NEW n \in Key, txn[n].oid # 0
               PROVE  msg'[txn[n].oid].status \in {"P", "D", "C"} /\ msg'[txn[n].oid].key = n
    BY DEF LinkIsOwn, Visible
  <2>1. Visible(txn[n].oid) /\ msg[txn[n].oid].key = n
    BY DEF IInv, LinkIsOwn
  <2> QED BY <2>1, <1>4, <1>8
<1>17. IdsInOrder'
  <2> SUFFICES ASSUME NEW j \in Id, j > last' PROVE msg'[j].status = "absent"
    BY DEF IdsInOrder
  <2>1. j \in Nat
    BY BoundAssumption DEF Id
  <2>2. j # i /\ j > last
    BY <2>1, <1>6
  <2> QED BY <2>2, <1>3 DEF IInv, IdsInOrder
<1>18. CursorIsRow'
  <2>1. cursor # 0 => msg'[cursor].status \in {"P", "D", "C"}
    BY <1>4, <1>7
  <2> QED BY <2>1 DEF CursorIsRow, Visible
<1>19. QuarantineIsVisible'
  <2>1. \A j \in quarantine : j \in Id /\ Visible(j)
    BY <1>1 DEF IInv, QuarantineIsVisible, TypeOK
  <2> QED BY <2>1, <1>4 DEF QuarantineIsVisible, Visible
<1> QED BY <1>9, <1>10, <1>11, <1>12, <1>13, <1>14, <1>15, <1>16, <1>17, <1>18, <1>19 DEF IInv

\* A dispatch ends or is refused, or a key is mapped: no row changes.
LEMMA QuietStep ==
  ASSUME IInv, UNCHANGED <<msg, last, late, txn, quarantine, replayed, broken, cursor, sweep>>,
         mapped' \in SUBSET Key, sending' \in [Native -> Call],
         \A n \in Native : sending'[n] \in {sending[n], NoCall}
                             \/ (sending'[n] = Refused /\ txn[n].state # "none")
  PROVE  IInv'
<1>1. TypeOK'
  BY DEF IInv, TypeOK
<1>2. NothingLost' /\ SuccessIsDelivered'
  BY DEF IInv, NothingLost, SuccessIsDelivered, Visible
<1>3. SweepIsInOrder' /\ ReadIsVisible' /\ MissedExists'
  BY DEF IInv, SweepIsInOrder, ReadIsVisible, MissedExists, Visible
<1>4. LinkIsOwn' /\ IdsInOrder' /\ CursorIsRow' /\ QuarantineIsVisible'
  BY DEF IInv, LinkIsOwn, IdsInOrder, CursorIsRow, QuarantineIsVisible, Visible
<1>5. SendingIsOwn'
  BY DEF IInv, SendingIsOwn, Visible
<1> QED BY <1>1, <1>2, <1>3, <1>4, <1>5 DEF IInv

-----------------------------------------------------------------------------
\* What the state of the queue becomes in Odoo.
LEMMA OdooStates ==
  ASSUME NEW s \in Status
  PROVE  /\ OdooState(s) \in {"in_progress", "success", "failed"}
         /\ OdooState(s) = "success" => s = "D"
BY DEF OdooState

LEMMA LegacySaleKeeps ==
  ASSUME IInv, NEW k \in Key, LegacySale(k)
  PROVE  IInv'
<1> DEFINE i == last + 1
           row == [key |-> k, status |-> "hidden"]
<1>1. TypeOK /\ last < MaxId
  BY DEF IInv, LegacySale, Insert
<1>2. last \in Nat /\ i \in Id /\ last <= i /\ i <= i
  BY <1>1, BoundAssumption DEF TypeOK, Id
<1>3. row \in [key: Key, status: Status] /\ row.status = "hidden"
  BY DEF Status
<1>4. ~Visible(i)
  BY <1>2 DEF IInv, IdsInOrder, Visible
<1>5. /\ msg' = [msg EXCEPT ![i] = row]
      /\ last' = i
      /\ UNCHANGED <<late, txn, sending, mapped, quarantine, replayed, broken, cursor, sweep>>
  BY DEF LegacySale, Insert
<1>6. sending' \in [Native -> Call] /\ late' \in SUBSET Id /\ late \subseteq late'
  BY <1>1, <1>5 DEF TypeOK
<1>7. \A n \in Native : sending'[n] = sending[n]
  BY <1>5
<1> HIDE DEF i, row
<1> QED BY <1>2, <1>3, <1>4, <1>5, <1>6, <1>7, QueueStep

LEMMA PublishKeeps ==
  ASSUME IInv, NEW i \in Id, Publish(i)
  PROVE  IInv'
<1>1. TypeOK
  BY DEF IInv
<1> DEFINE row == [msg[i] EXCEPT !.status = "P"]
<1>2. msg[i] \in [key: Key, status: Status]
  BY <1>1 DEF TypeOK
<1>3. row \in [key: Key, status: Status]
  BY <1>2 DEF Status
<1>10. msg' = [msg EXCEPT ![i] = row]
  BY DEF Publish
<1>4. ~Visible(i) /\ msg[i].status # "absent"
  BY DEF Publish, Visible
<1>5. i <= last /\ last \in Nat
  BY <1>1, <1>4, BoundAssumption DEF IInv, IdsInOrder, TypeOK, Id
<1>6. late' \in SUBSET Id /\ late \subseteq late'
  BY <1>1 DEF Publish, TypeOK
<1>7. i \in late' \/ \A j \in Id : j > i => ~Visible(j)
  BY DEF Publish
<1>8. UNCHANGED <<last, txn, sending, mapped, quarantine, replayed, broken, cursor, sweep>>
  BY DEF Publish
<1>9. sending' \in [Native -> Call] /\ last' \in Id \cup {0}
  BY <1>1, <1>8 DEF TypeOK
<1>11. last <= last' /\ i <= last' /\ \A n \in Native : sending'[n] = sending[n]
  BY <1>5, <1>8
<1> HIDE DEF row
<1> QED BY <1>3, <1>4, <1>6, <1>7, <1>8, <1>9, <1>10, <1>11, QueueStep

LEMMA DecideKeeps ==
  ASSUME IInv, NEW i \in Id, Decide(i)
  PROVE  IInv'
<1>1. TypeOK
  BY DEF IInv
<1>2. PICK end \in {"D", "C"} : msg' = [msg EXCEPT ![i].status = end]
  BY DEF Decide
<1> DEFINE row == [msg[i] EXCEPT !.status = end]
<1>10. msg[i] \in [key: Key, status: Status]
  BY <1>1 DEF TypeOK
<1>11. row \in [key: Key, status: Status]
  BY <1>10 DEF Status
<1>3. msg' = [msg EXCEPT ![i] = row]
  BY <1>2
<1>4. Visible(i) /\ msg[i].status = "P" /\ row.key = msg[i].key /\ row.status \in {"P", "D", "C"}
  BY <1>10 DEF Decide, Visible
<1>5. i <= last /\ last \in Nat
  BY <1>1, <1>4, BoundAssumption DEF IInv, IdsInOrder, TypeOK, Id
<1>8. UNCHANGED <<last, late, txn, sending, mapped, quarantine, replayed, broken, cursor, sweep>>
  BY DEF Decide
<1>9. sending' \in [Native -> Call] /\ last' \in Id \cup {0} /\ late' \in SUBSET Id
  BY <1>1, <1>8 DEF TypeOK
<1>12. /\ last <= last' /\ i <= last' /\ late \subseteq late'
       /\ \A n \in Native : sending'[n] = sending[n]
  BY <1>5, <1>8
<1> HIDE DEF row
<1> QED BY <1>3, <1>4, <1>8, <1>9, <1>11, <1>12, QueueStep

LEMMA DispatchKeeps ==
  ASSUME IInv, NEW k \in Native, Dispatch(k)
  PROVE  IInv'
<1>1. TypeOK /\ k \in Key /\ txn[k].state = "pending"
  BY NativeAssumption DEF IInv, Dispatch
<1>2. CASE Insert(k, "P") /\ \E answer \in {[step |-> "queued", oid |-> last + 1], Refused} :
                               sending' = [sending EXCEPT ![k] = answer]
  <2> DEFINE i == last + 1
             row == [key |-> k, status |-> "P"]
  <2>1. PICK answer \in {[step |-> "queued", oid |-> i], Refused} :
          sending' = [sending EXCEPT ![k] = answer]
    BY <1>2
  <2>2. last \in Nat /\ i \in Id /\ last <= i /\ i <= i
    BY <1>1, <1>2, BoundAssumption DEF TypeOK, Id, Insert
  <2>3. row \in [key: Key, status: Status] /\ row.key = k /\ row.status = "P"
    BY <1>1 DEF Status
  <2>4. ~Visible(i)
    BY <2>2 DEF IInv, IdsInOrder, Visible
  <2>5. \A j \in Id : j > i => ~Visible(j)
    BY <2>2, BoundAssumption DEF IInv, IdsInOrder, Visible, Id
  <2>6. answer \in Call
    BY <2>2, OracleTypes DEF Call
  <2>7. sending' \in [Native -> Call] /\ late' \in SUBSET Id /\ late \subseteq late'
    BY <1>1, <2>1, <2>6 DEF TypeOK, Dispatch
  <2>8. \A n \in Native : n # k => sending'[n] = sending[n]
    BY <1>1, <2>1 DEF TypeOK
  <2>9. sending'[k] # Refused => sending'[k].oid = i
    BY <1>1, <2>1 DEF TypeOK
  <2>10. /\ msg' = [msg EXCEPT ![i] = row]
         /\ last' = i
         /\ UNCHANGED <<late, txn, mapped, quarantine, replayed, broken, cursor, sweep>>
    BY <1>2 DEF Insert, Dispatch
  <2>11. \A n \in Native : sending'[n] # NoCall =>
           \/ sending'[n] = sending[n]
           \/ txn[n].state # "none" /\ (sending'[n] # Refused =>
                sending'[n].oid = i /\ row.key = n /\ row.status = "P")
    BY <1>1, <2>3, <2>8, <2>9
  <2> HIDE DEF i, row
  <2> QED BY <2>2, <2>3, <2>4, <2>5, <2>7, <2>10, <2>11, QueueStep
<1>3. CASE sending' = [sending EXCEPT ![k] = Refused] /\ UNCHANGED <<msg, last>>
  <2>1. sending' \in [Native -> Call] /\ mapped' \in SUBSET Key
    BY <1>1, <1>3, OracleTypes DEF TypeOK, Dispatch
  <2>2. \A n \in Native : sending'[n] \in {sending[n], NoCall}
                            \/ (sending'[n] = Refused /\ txn[n].state # "none")
    BY <1>1, <1>3 DEF TypeOK
  <2>3. UNCHANGED <<late, txn, quarantine, replayed, broken, cursor, sweep>>
    BY DEF Dispatch
  <2> QED BY <1>3, <2>1, <2>2, <2>3, QuietStep
<1> QED BY <1>2, <1>3 DEF Dispatch

LEMMA AbortDispatchKeeps ==
  ASSUME IInv, NEW k \in Native, AbortDispatch(k)
  PROVE  IInv'
<1>1. TypeOK
  BY DEF IInv
<1>2. sending' \in [Native -> Call] /\ mapped' \in SUBSET Key
  BY <1>1, OracleTypes DEF TypeOK, AbortDispatch
<1>3. \A n \in Native : sending'[n] \in {sending[n], NoCall}
  BY <1>1 DEF TypeOK, AbortDispatch
<1> QED BY <1>2, <1>3, QuietStep DEF AbortDispatch

LEMMA MapKeyKeeps ==
  ASSUME IInv, NEW k \in Key, MapKey(k)
  PROVE  IInv'
<1>1. mapped' \in SUBSET Key /\ sending' \in [Native -> Call]
  BY DEF IInv, TypeOK, MapKey
<1> QED BY <1>1, QuietStep DEF MapKey

-----------------------------------------------------------------------------
LEMMA CreateKeeps ==
  ASSUME IInv, NEW k \in Native, Create(k)
  PROVE  IInv'
<1>1. TypeOK /\ k \in Key
  BY NativeAssumption DEF IInv
<1>2. txn[k] \in TxnRow
  BY <1>1 DEF TypeOK
<1> DEFINE row == [txn[k] EXCEPT !.state = "pending"]
<1>3. row \in TxnRow /\ row.state = "pending" /\ row.oid = txn[k].oid
  BY <1>2 DEF TxnRow, State
<1>4. txn' = [txn EXCEPT ![k] = row]
  BY DEF Create
<1>5. row.oid # 0 => Visible(row.oid) /\ msg[row.oid].key = k
  BY <1>1, <1>3 DEF IInv, LinkIsOwn
<1>7. /\ sending' \in [Native -> Call] /\ quarantine' \in SUBSET Id
      /\ replayed' \in SUBSET quarantine' /\ quarantine' = quarantine
      /\ \A n \in Native : sending'[n] \in {sending[n], NoCall}
  BY <1>1 DEF Create, TypeOK
<1>8. sweep' = Misses({k}) /\ UNCHANGED <<msg, last, late, mapped, broken, cursor>>
  BY DEF Create
<1> HIDE DEF row
<1> QED BY <1>1, <1>3, <1>4, <1>5, <1>7, <1>8, TxnStep

LEMMA EndDispatchKeeps ==
  ASSUME IInv, NEW k \in Native, EndDispatch(k)
  PROVE  IInv'
<1>1. TypeOK /\ k \in Key
  BY NativeAssumption DEF IInv
<1>2. txn[k] \in TxnRow /\ sending[k] \in Call /\ sending[k] # NoCall
  BY <1>1 DEF TypeOK, EndDispatch
<1> DEFINE row == IF sending[k] = Refused THEN [txn[k] EXCEPT !.state = "failed"]
                                          ELSE [state |-> "in_progress", oid |-> sending[k].oid]
<1>3. row \in TxnRow
  BY <1>2 DEF TxnRow, State, Call
<1>4. txn' = [txn EXCEPT ![k] = row]
  BY DEF EndDispatch
<1>6. /\ row.state \in {"failed", "in_progress"}
      /\ row.oid = IF sending[k] = Refused THEN txn[k].oid ELSE sending[k].oid
  BY <1>2 DEF TxnRow
<1>5. row.oid # 0 => Visible(row.oid) /\ msg[row.oid].key = k
  BY <1>1, <1>2, <1>6 DEF IInv, LinkIsOwn, SendingIsOwn
<1>7. /\ sending' \in [Native -> Call] /\ quarantine' \in SUBSET Id
      /\ replayed' \in SUBSET quarantine' /\ quarantine' = quarantine
      /\ \A n \in Native : sending'[n] \in {sending[n], NoCall}
  BY <1>1, OracleTypes DEF EndDispatch, TypeOK
<1>8. sweep' = Misses({k}) /\ UNCHANGED <<msg, last, late, mapped, broken, cursor>>
  BY DEF EndDispatch
<1> HIDE DEF row
<1> QED BY <1>1, <1>3, <1>4, <1>5, <1>6, <1>7, <1>8, TxnStep

LEMMA SyncStatusKeeps ==
  ASSUME IInv, NEW k \in Key, SyncStatus(k)
  PROVE  IInv'
<1>1. TypeOK
  BY DEF IInv
<1>2. txn[k] \in TxnRow /\ txn[k].oid # 0
  BY <1>1 DEF TypeOK, SyncStatus
<1> DEFINE row == [txn[k] EXCEPT !.state = OdooState(msg[txn[k].oid].status)]
<1>3. msg[txn[k].oid].status \in Status
  BY <1>2 DEF SyncStatus, Status
<1>4. row.oid = txn[k].oid /\ row.state = OdooState(msg[txn[k].oid].status)
  BY <1>2 DEF TxnRow
<1>5. txn' = [txn EXCEPT ![k] = row]
  BY DEF SyncStatus
<1>6. row.oid # 0 /\ Visible(row.oid) /\ msg[row.oid].key = k
  BY <1>2, <1>4 DEF IInv, LinkIsOwn
<1>7. /\ sending' \in [Native -> Call] /\ quarantine' \in SUBSET Id
      /\ replayed' \in SUBSET quarantine' /\ quarantine' = quarantine
      /\ \A n \in Native : sending'[n] \in {sending[n], NoCall}
  BY <1>1 DEF SyncStatus, TypeOK
<1>8. sweep' = Misses({k}) /\ UNCHANGED <<msg, last, late, mapped, broken, cursor>>
  BY DEF SyncStatus
<1>9. row.state # "none" /\ (row.state = "success" => row.oid # 0 /\ msg[row.oid].status = "D")
  BY <1>3, <1>4, <1>6, OdooStates
<1>10. row \in TxnRow
  BY <1>2, <1>3, OdooStates DEF TxnRow, State
<1> HIDE DEF row
<1> QED BY <1>5, <1>6, <1>7, <1>8, <1>9, <1>10, TxnStep

LEMMA ReapUnreachableKeeps ==
  ASSUME IInv, NEW k \in Native, ReapUnreachable(k)
  PROVE  IInv'
<1>1. TypeOK /\ k \in Key
  BY NativeAssumption DEF IInv
<1>2. txn[k] \in TxnRow
  BY <1>1 DEF TypeOK
<1> DEFINE row == [txn[k] EXCEPT !.state = "timeout"]
<1>3. row \in TxnRow /\ row.state = "timeout" /\ row.oid = txn[k].oid
  BY <1>2 DEF TxnRow, State
<1>4. txn' = [txn EXCEPT ![k] = row]
  BY DEF ReapUnreachable
<1>5. row.oid # 0 => Visible(row.oid) /\ msg[row.oid].key = k
  BY <1>1, <1>3 DEF IInv, LinkIsOwn
<1>7. /\ sending' \in [Native -> Call] /\ quarantine' \in SUBSET Id
      /\ replayed' \in SUBSET quarantine' /\ quarantine' = quarantine
      /\ \A n \in Native : sending'[n] \in {sending[n], NoCall}
  BY <1>1 DEF ReapUnreachable, TypeOK
<1>8. sweep' = Misses({k}) /\ UNCHANGED <<msg, last, late, mapped, broken, cursor>>
  BY DEF ReapUnreachable
<1> HIDE DEF row
<1> QED BY <1>1, <1>3, <1>4, <1>5, <1>7, <1>8, TxnStep

\* Replay and backfill create the transaction of a row that is visible.
LEMMA CreatedFromRow ==
  ASSUME IInv, NEW i \in Id, Visible(i), NEW k \in Key, k = msg[i].key,
         txn' = [txn EXCEPT ![k] = [state |-> OdooState(msg[i].status), oid |-> i]],
         sweep' = Misses({k}),
         UNCHANGED <<msg, last, late, sending, mapped, quarantine, broken, cursor>>,
         replayed' \in SUBSET quarantine
  PROVE  IInv'
<1>1. TypeOK
  BY DEF IInv
<1> DEFINE row == [state |-> OdooState(msg[i].status), oid |-> i]
<1>2. msg[i].status \in Status
  BY DEF Visible, Status
<1>3. row \in TxnRow
  BY <1>2, OdooStates DEF TxnRow, State
<1>4. row.state # "none" /\ (row.state = "success" => row.oid # 0 /\ msg[row.oid].status = "D")
  BY <1>2, OdooStates, BoundAssumption DEF Id
<1>5. row.oid # 0 => Visible(row.oid) /\ msg[row.oid].key = k
  OBVIOUS
<1>6. /\ sending' \in [Native -> Call] /\ quarantine' \in SUBSET Id
      /\ \A n \in Native : sending'[n] \in {sending[n], NoCall}
  BY <1>1 DEF TypeOK
<1> HIDE DEF row
<1> QED BY <1>3, <1>4, <1>5, <1>6, TxnStep DEF row

LEMMA QuarantineKeeps ==
  ASSUME IInv, NEW i \in Id, Visible(i), quarantine' = quarantine \cup {i},
         UNCHANGED <<msg, last, late, txn, sending, mapped, replayed, broken, cursor, sweep>>
  PROVE  IInv'
<1>1. TypeOK'
  BY DEF IInv, TypeOK
<1>2. NothingLost' /\ SuccessIsDelivered'
  BY DEF IInv, NothingLost, SuccessIsDelivered, Visible
<1>3. SweepIsInOrder' /\ ReadIsVisible' /\ MissedExists'
  BY DEF IInv, SweepIsInOrder, ReadIsVisible, MissedExists, Visible
<1>4. LinkIsOwn' /\ IdsInOrder' /\ CursorIsRow' /\ SendingIsOwn' /\ QuarantineIsVisible'
  BY DEF IInv, LinkIsOwn, IdsInOrder, CursorIsRow, SendingIsOwn, QuarantineIsVisible, Visible
<1> QED BY <1>1, <1>2, <1>3, <1>4 DEF IInv

LEMMA ReplayKeeps ==
  ASSUME IInv, NEW i \in Id, Replay(i)
  PROVE  IInv'
<1> DEFINE k == msg[i].key
<1>1. TypeOK
  BY DEF IInv
<1>2. k \in Key
  BY <1>1 DEF TypeOK
<1>3. /\ txn' = [txn EXCEPT ![k] = [state |-> OdooState(msg[i].status), oid |-> i]]
      /\ sweep' = Misses({k})
      /\ UNCHANGED <<msg, last, late, sending, mapped, quarantine, broken, cursor>>
      /\ replayed' \in SUBSET quarantine
  BY <1>1 DEF Replay, TypeOK
<1>4. Visible(i)
  BY DEF IInv, QuarantineIsVisible, Replay
<1> HIDE DEF k
<1> QED BY <1>2, <1>3, <1>4, CreatedFromRow DEF k

LEMMA BackfillKeeps ==
  ASSUME IInv, NEW i \in Id, Backfill(i)
  PROVE  IInv'
<1> DEFINE k == msg[i].key
<1>1. TypeOK /\ Visible(i)
  BY DEF IInv, Backfill
<1>2. k \in Key
  BY <1>1 DEF TypeOK
<1>3. CASE quarantine' = quarantine \cup {i} /\ UNCHANGED <<txn, sweep>>
  BY <1>1, <1>3, QuarantineKeeps DEF Backfill
<1>4. CASE /\ txn' = [txn EXCEPT ![k] = [state |-> OdooState(msg[i].status), oid |-> i]]
           /\ sweep' = Misses({k})
           /\ UNCHANGED quarantine
  <2>1. UNCHANGED <<msg, last, late, sending, mapped, replayed, broken, cursor>>
    BY DEF Backfill
  <2>2. replayed' \in SUBSET quarantine
    BY <1>1, <2>1 DEF TypeOK
  <2> HIDE DEF k
  <2> QED BY <1>1, <1>2, <1>4, <2>1, <2>2, CreatedFromRow DEF k
<1> QED BY <1>3, <1>4 DEF Backfill

-----------------------------------------------------------------------------
LEMMA BeginIngestKeeps ==
  ASSUME IInv, BeginIngest
  PROVE  IInv'
<1>1. TypeOK
  BY DEF IInv
<1>2. /\ sweep'.on = TRUE /\ sweep'.missed = {}
      /\ sweep'.rows = {i \in Id : i > cursor /\ Visible(i)}
      /\ sweep'.status = [i \in Id |-> IF i > cursor /\ Visible(i) THEN msg[i].status ELSE "absent"]
      /\ sweep' \in Sweep
  <2>1. [i \in Id |-> IF i > cursor /\ Visible(i) THEN msg[i].status ELSE "absent"] \in [Id -> Status]
    BY <1>1 DEF TypeOK, Status
  <2> QED BY <1>1, <2>1 DEF BeginIngest, Sweep, TypeOK
<1>3. UNCHANGED <<msg, last, late, txn, sending, mapped, quarantine, replayed, broken, cursor>>
  BY DEF BeginIngest
<1>4. TypeOK'
  BY <1>1, <1>2, <1>3 DEF TypeOK
<1>5. NothingLost' /\ SuccessIsDelivered'
  BY <1>3 DEF IInv, NothingLost, SuccessIsDelivered, Visible
<1>6. SweepIsInOrder'
  BY <1>2, <1>3 DEF SweepIsInOrder, Visible
<1>7. ReadIsVisible'
  BY <1>2, <1>3 DEF ReadIsVisible, Visible
<1>8. MissedExists'
  BY <1>2 DEF MissedExists
<1>9. LinkIsOwn' /\ IdsInOrder' /\ CursorIsRow' /\ SendingIsOwn' /\ QuarantineIsVisible'
  BY <1>3 DEF IInv, LinkIsOwn, IdsInOrder, CursorIsRow, SendingIsOwn, QuarantineIsVisible, Visible
<1> QED BY <1>4, <1>5, <1>6, <1>7, <1>8, <1>9 DEF IInv

LEMMA AbortIngestKeeps ==
  ASSUME IInv, AbortIngest
  PROVE  IInv'
<1>1. sweep'.on = FALSE /\ sweep'.rows = {} /\ sweep'.missed = {} /\ sweep' \in Sweep
  BY OracleTypes DEF AbortIngest, Off
<1>2. UNCHANGED <<msg, last, late, txn, sending, mapped, quarantine, replayed, broken, cursor>>
  BY DEF AbortIngest
<1>3. TypeOK'
  BY <1>1, <1>2 DEF IInv, TypeOK
<1>4. NothingLost' /\ SuccessIsDelivered'
  BY <1>2 DEF IInv, NothingLost, SuccessIsDelivered, Visible
<1>5. SweepIsInOrder' /\ ReadIsVisible' /\ MissedExists'
  BY <1>1 DEF SweepIsInOrder, ReadIsVisible, MissedExists
<1>6. LinkIsOwn' /\ IdsInOrder' /\ CursorIsRow' /\ SendingIsOwn' /\ QuarantineIsVisible'
  BY <1>2 DEF IInv, LinkIsOwn, IdsInOrder, CursorIsRow, SendingIsOwn, QuarantineIsVisible, Visible
<1> QED BY <1>3, <1>4, <1>5, <1>6 DEF IInv

\* The first row of a key is one of its rows.
LEMMA FirstIsIn ==
  ASSUME NEW S \in SUBSET Id, S # {}
  PROVE  First(S) \in S
<1>1. S \subseteq Nat
  BY BoundAssumption DEF Id
<1>2. PICK m \in S : \A j \in S : <<j, m>> \notin OpToRel(<, Nat)
  BY <1>1, WFMin, NatLessThanWellFounded, Zenon
<1>3. \A j \in S : ~(j < m)
  BY <1>1, <1>2, Zenon DEF OpToRel
<1>4. \A j \in S : m <= j
  BY <1>1, <1>3
<1> QED BY <1>4 DEF First

\* What the ingestion makes of a key: nothing is undone, a new transaction has its row.
LEMMA IngestedRow ==
  ASSUME IInv, NEW k \in Key, NEW raised
  PROVE  /\ Ingested(k, raised) \in TxnRow
         /\ txn[k].state # "none" => Ingested(k, raised).state = txn[k].state
         /\ \/ Ingested(k, raised) = txn[k]
            \/ /\ txn[k].state = "none"
               /\ Ingested(k, raised).oid \in sweep.rows /\ msg[Ingested(k, raised).oid].key = k
               /\ Ingested(k, raised).state \in {"in_progress", "success", "failed"}
               /\ Ingested(k, raised).state = "success" => msg[Ingested(k, raised).oid].status = "D"
            \/ /\ txn[k].oid = 0 /\ txn[k].state # "none" /\ Ingested(k, raised).state = txn[k].state
               /\ Ingested(k, raised).oid \in sweep.rows /\ msg[Ingested(k, raised).oid].key = k
         /\ RowsOf(k) \ raised # {} => Ingested(k, raised).state # "none"
<1>1. TypeOK
  BY DEF IInv
<1>2. txn[k] \in TxnRow /\ sweep.rows \in SUBSET Id /\ sweep.status \in [Id -> Status]
  BY <1>1 DEF TypeOK, Sweep
<1>3. RowsOf(k) \ raised \in SUBSET Id /\ \A i \in RowsOf(k) \ raised : i \in sweep.rows /\ msg[i].key = k
  BY <1>2 DEF RowsOf
<1>4. CASE RowsOf(k) \ raised = {} \/ k \in sweep.missed
  <2>1. Ingested(k, raised) = txn[k]
    BY <1>4 DEF Ingested
  <2>2. k \in sweep.missed => txn[k].state # "none"
    BY DEF IInv, MissedExists
  <2> QED BY <1>2, <1>4, <2>1, <2>2
<1>5. CASE RowsOf(k) \ raised # {} /\ k \notin sweep.missed
  <2> DEFINE i == First(RowsOf(k) \ raised)
             s == sweep.status[i]
  <2>1. i \in RowsOf(k) \ raised /\ i \in Id /\ i \in sweep.rows /\ msg[i].key = k
    BY <1>3, <1>5, FirstIsIn
  <2>2. /\ s \in Status /\ OdooState(s) \in {"in_progress", "success", "failed"}
        /\ OdooState(s) = "success" => s = "D"
    BY <1>2, <2>1, OdooStates
  <2>3. s = "D" => msg[i].status = "D"
    BY <2>1 DEF IInv, ReadIsVisible
  <2>4. Ingested(k, raised) = IF txn[k].state = "none"
                        THEN [state |-> OdooState(s), oid |-> i]
                        ELSE IF txn[k].oid = 0 THEN [txn[k] EXCEPT !.oid = i] ELSE txn[k]
    BY <1>5 DEF Ingested
  <2> HIDE DEF i, s
  <2>5. CASE txn[k].state = "none"
    <3>1. Ingested(k, raised) = [state |-> OdooState(s), oid |-> i]
      BY <2>4, <2>5
    <3>2. Ingested(k, raised).state = OdooState(s) /\ Ingested(k, raised).oid = i
      BY <3>1
    <3>3. Ingested(k, raised) \in TxnRow
      BY <2>1, <2>2, <3>1 DEF TxnRow, State
    <3> QED BY <2>1, <2>2, <2>3, <2>5, <3>2, <3>3
  <2>6. CASE txn[k].state # "none" /\ txn[k].oid = 0
    <3>1. Ingested(k, raised) = [txn[k] EXCEPT !.oid = i]
      BY <2>4, <2>6
    <3>2. Ingested(k, raised).state = txn[k].state /\ Ingested(k, raised).oid = i /\ Ingested(k, raised) \in TxnRow
      BY <1>2, <2>1, <3>1 DEF TxnRow
    <3> QED BY <2>1, <2>6, <3>2
  <2>7. CASE txn[k].state # "none" /\ txn[k].oid # 0
    BY <1>2, <2>4, <2>7
  <2> QED BY <2>5, <2>6, <2>7
<1> QED BY <1>4, <1>5

LEMMA EndIngestKeeps ==
  ASSUME IInv, NEW raised, EndIngest(raised)
  PROVE  IInv'
<1>1. TypeOK /\ sweep.on
  BY DEF IInv, EndIngest
<1>2. /\ txn' = [k \in Key |-> Ingested(k, raised)]
      /\ quarantine' = quarantine \cup (Unmapped \ raised)
      /\ broken' = broken \cup {i \in raised : txn'[msg[i].key].state = "none"}
      /\ raised \subseteq sweep.rows
      /\ sweep' = Off
      /\ UNCHANGED <<msg, last, late, sending, mapped, replayed>>
  BY DEF EndIngest
<1>3. sweep'.on = FALSE /\ sweep'.rows = {} /\ sweep'.missed = {} /\ sweep' \in Sweep
  BY <1>2, OracleTypes DEF Off
<1>4. /\ cursor' \in sweep.rows \cup {cursor}
      /\ sweep.rows # {} => cursor' \in sweep.rows
      /\ sweep.rows = {} => cursor' = cursor
  BY DEF EndIngest, AdvanceCursor
<1>5. sweep.rows \in SUBSET Id /\ \A i \in sweep.rows : Visible(i)
  BY <1>1 DEF TypeOK, Sweep, IInv, ReadIsVisible
<1>6. Unmapped \in SUBSET Id /\ \A i \in Unmapped : Visible(i)
  BY <1>5 DEF Unmapped
<1>7. \A k \in Key : txn'[k] = Ingested(k, raised) /\ txn[k].oid \in Id \cup {0}
  BY <1>1, <1>2 DEF TypeOK, TxnRow
<1>8. \A i \in Id : i \in Nat /\ i # 0 /\ msg[i].key \in Key
                     /\ msg[i] = [key |-> msg[i].key, status |-> msg[i].status]
  BY <1>1, BoundAssumption DEF Id, TypeOK
<1>9. TypeOK'
  <2>1. txn' \in [Key -> TxnRow]
    BY <1>2, IngestedRow
  <2>2. cursor' \in Id \cup {0}
    BY <1>1, <1>4, <1>5 DEF TypeOK
  <2>3. quarantine' \in SUBSET Id /\ replayed' \in SUBSET quarantine'
    BY <1>1, <1>2, <1>6 DEF TypeOK
  <2>4. broken' \in SUBSET Id
    BY <1>1, <1>2, <1>5 DEF TypeOK
  <2> QED BY <1>1, <1>2, <1>3, <2>1, <2>2, <2>3, <2>4 DEF TypeOK
<1>10. \A k \in Key : txn[k].state # "none" => txn'[k].state = txn[k].state
  BY <1>7, IngestedRow
<1>11. NothingLost'
  <2> SUFFICES ASSUME NEW i \in Id, Visible(i), i <= cursor', i \notin late \cup broken'
               PROVE  txn'[msg[i].key].state # "none" \/ i \in quarantine'
    BY <1>2 DEF NothingLost, Visible
  <2>1. CASE i <= cursor
    BY <2>1, <1>2, <1>8, <1>10 DEF IInv, NothingLost
  <2>2. CASE ~(i <= cursor)
    <3>1. cursor \in Nat /\ i > cursor
      BY <2>2, <1>1, <1>8 DEF TypeOK
    <3>2. sweep.rows # {} /\ cursor' \in sweep.rows
      BY <2>2, <1>4
    <3>3. i \in sweep.rows
      <4>1. i \in sweep.rows \/ \A j \in sweep.rows : j < i
        BY <3>1, <1>1 DEF IInv, SweepIsInOrder
      <4>2. cursor' \in Nat /\ i \in Nat
        BY <3>2, <1>5, <1>8
      <4> QED BY <3>2, <4>1, <4>2
    <3>6. CASE i \in raised
      BY <3>6, <1>2
    <3>4. CASE i \in Unmapped \ raised
      BY <3>4, <1>2
    <3>5. CASE i \notin Unmapped /\ i \notin raised
      <4>1. i \in RowsOf(msg[i].key) \ raised
        BY <3>3, <3>5 DEF RowsOf
      <4>2. Ingested(msg[i].key, raised).state # "none"
        BY <4>1, <1>8, IngestedRow
      <4> QED BY <4>2, <1>7, <1>8
    <3> QED BY <3>4, <3>5, <3>6
  <2> QED BY <2>1, <2>2
<1>12. SuccessIsDelivered'
  <2> SUFFICES ASSUME NEW k \in Key, Ingested(k, raised).state = "success"
               PROVE  /\ Ingested(k, raised).oid # 0
                      /\ msg[Ingested(k, raised).oid] = [key |-> k, status |-> "D"]
    BY <1>2, <1>7 DEF SuccessIsDelivered
  <2>1. CASE txn[k].state = "success"
    <3>1. txn[k].oid # 0 /\ msg[txn[k].oid] = [key |-> k, status |-> "D"]
      BY <2>1 DEF IInv, SuccessIsDelivered
    <3>2. Ingested(k, raised) = txn[k]
      BY <2>1, <3>1, IngestedRow
    <3> QED BY <3>1, <3>2
  <2>2. CASE txn[k].state # "success"
    <3>1. /\ Ingested(k, raised).oid \in sweep.rows /\ msg[Ingested(k, raised).oid].key = k
          /\ msg[Ingested(k, raised).oid].status = "D"
      BY <2>2, IngestedRow
    <3> QED BY <3>1, <1>5, <1>8
  <2> QED BY <2>1, <2>2
<1>13. LinkIsOwn'
  <2> SUFFICES ASSUME NEW k \in Key, Ingested(k, raised).oid # 0
               PROVE  Visible(Ingested(k, raised).oid) /\ msg[Ingested(k, raised).oid].key = k
    BY <1>2, <1>7 DEF LinkIsOwn, Visible
  <2>1. CASE Ingested(k, raised) = txn[k]
    BY <2>1 DEF IInv, LinkIsOwn
  <2>2. CASE Ingested(k, raised) # txn[k]
    BY <2>2, <1>5, IngestedRow
  <2> QED BY <2>1, <2>2
<1>14. SweepIsInOrder' /\ ReadIsVisible' /\ MissedExists'
  BY <1>3 DEF SweepIsInOrder, ReadIsVisible, MissedExists
<1>15. SendingIsOwn'
  <2> SUFFICES ASSUME NEW k \in Native, sending[k] # NoCall
               PROVE  /\ txn'[k].state # "none"
                      /\ sending[k] # Refused =>
                           sending[k].oid # 0 /\ Visible(sending[k].oid) /\ msg[sending[k].oid].key = k
    BY <1>2 DEF SendingIsOwn, Visible
  <2>1. k \in Key
    BY NativeAssumption
  <2> QED BY <2>1, <1>10 DEF IInv, SendingIsOwn
<1>16. IdsInOrder'
  BY <1>2 DEF IInv, IdsInOrder
<1>17. CursorIsRow'
  <2>1. cursor' # 0 => Visible(cursor')
    BY <1>4, <1>5 DEF IInv, CursorIsRow
  <2> QED BY <1>2, <2>1 DEF CursorIsRow, Visible
<1>18. QuarantineIsVisible'
  BY <1>2, <1>6 DEF IInv, QuarantineIsVisible, Visible
<1> QED BY <1>9, <1>11, <1>12, <1>13, <1>14, <1>15, <1>16, <1>17, <1>18 DEF IInv

-----------------------------------------------------------------------------
LEMMA NextKeeps == IInv /\ [Next]_vars => IInv'
<1> SUFFICES ASSUME IInv, [Next]_vars PROVE IInv'
  OBVIOUS
<1>1. CASE \E k \in Key : LegacySale(k) \/ SyncStatus(k) \/ MapKey(k)
  BY <1>1, LegacySaleKeeps, SyncStatusKeeps, MapKeyKeeps
<1>2. CASE \E k \in Native : \/ ReapUnreachable(k) \/ Create(k) \/ Dispatch(k)
                             \/ EndDispatch(k) \/ AbortDispatch(k)
  BY <1>2, ReapUnreachableKeeps, CreateKeeps, DispatchKeeps, EndDispatchKeeps, AbortDispatchKeeps
<1>3. CASE \E i \in Id : Publish(i) \/ Decide(i) \/ Replay(i) \/ Backfill(i)
  BY <1>3, PublishKeeps, DecideKeeps, ReplayKeeps, BackfillKeeps
<1>4. CASE BeginIngest \/ AbortIngest \/ \E raised \in SUBSET Id : EndIngest(raised)
  BY <1>4, BeginIngestKeeps, EndIngestKeeps, AbortIngestKeeps
<1>5. CASE UNCHANGED vars
  <2>1. mapped' \in SUBSET Key /\ sending' \in [Native -> Call]
    BY <1>5 DEF vars, IInv, TypeOK
  <2> QED BY <1>5, <2>1, QuietStep DEF vars
<1> QED BY <1>1, <1>2, <1>3, <1>4, <1>5 DEF Next

\* The bridge keeps its bookkeeping in order: a transaction is linked to a row of its own
\* key, what a dispatch has been told exists, and nothing an ingestion will pass is unread.
THEOREM BridgeInOrder == Spec => []IInv
BY InitIInv, NextKeeps, PTL DEF Spec

\* A row the cursor has passed has a transaction or a record to replay, unless it became
\* visible after a higher one or its ingestion raised: the cursor passes the row whatever
\* the error, and only an unmapped row gets a record.
THEOREM CursorLosesNothing == Spec => []NothingLost
<1>1. IInv => NothingLost
  BY DEF IInv
<1> QED BY <1>1, InitIInv, NextKeeps, PTL DEF Spec

\* Odoo calls a success only what Oracle has delivered under the transaction's own row.
THEOREM SuccessesAreDelivered == Spec => []SuccessIsDelivered
<1>1. IInv => SuccessIsDelivered
  BY DEF IInv
<1> QED BY <1>1, InitIInv, NextKeeps, PTL DEF Spec
=============================================================================

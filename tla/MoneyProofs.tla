---------------------------- MODULE MoneyProofs ----------------------------
(***************************************************************************)
(* The arithmetic of a transfer, proved: for every scale, every amount and *)
(* any finite number of accounts the amount is rounded to the nearest one, *)
(* and the books stay exact over transfers of any number.                  *)
(***************************************************************************)
EXTENDS Money, FoldLemmas

\* What the columns hold.
MoneyTyped ==
    /\ opening \in [Account -> Int]
    /\ balance \in [Account -> 0 .. MaxStored]
    /\ entries \in [Account -> Seq(Int)]
    /\ transfers \in Seq([asked : Int, amount : Int])

\* Every transfer stored what from_value made of the amount it was asked for.
StoredAsRounded ==
    \A i \in 1 .. Len(transfers) : transfers[i].amount = HalfEven(transfers[i].asked)

MoneyInv == MoneyTyped /\ StoredAsRounded /\ ExactBooks

-----------------------------------------------------------------------------
\* Rounding

\* A column stores a multiple of the scale as it is, on either side of zero.
LEMMA StoredExactly ==
  ASSUME NEW k \in Int
  PROVE  Stored(k * Grain) = k /\ Stored(-(k * Grain)) = -k
<1>1. Stored(k * Grain) = k
  BY ScaleAssumption DEF Stored
<1>2. Stored(-(k * Grain)) = -k
  BY ScaleAssumption DEF Stored
<1> QED
  BY <1>1, <1>2

Distance(n, k) == IF k * Grain > n THEN k * Grain - n ELSE n - k * Grain

\* HalfEven finds the nearest multiple of the scale, of two the even one.
LEMMA HalfEvenNearest ==
  ASSUME NEW n \in Int
  PROVE  /\ HalfEven(n) \in Int
         /\ \A k \in Int :
               /\ Distance(n, HalfEven(n)) <= Distance(n, k)
               /\ Distance(n, k) = Distance(n, HalfEven(n)) /\ k # HalfEven(n) => HalfEven(n) % 2 = 0
         /\ n % Grain = 0 => HalfEven(n) * Grain = n
<1>1. HalfEven(n) \in Int
  BY ScaleAssumption DEF HalfEven
<1>2. ASSUME NEW k \in Int
      PROVE  /\ Distance(n, HalfEven(n)) <= Distance(n, k)
             /\ Distance(n, k) = Distance(n, HalfEven(n)) /\ k # HalfEven(n) => HalfEven(n) % 2 = 0
  BY ScaleAssumption DEF HalfEven, Distance
<1>3. ASSUME n % Grain = 0 PROVE HalfEven(n) * Grain = n
  BY <1>3, ScaleAssumption DEF HalfEven
<1> QED
  BY <1>1, <1>2, <1>3

-----------------------------------------------------------------------------
\* The steps

\* The opening balances that the API lets through are stored as they are.
LEMMA AdmittedStored ==
  ASSUME NEW n \in Int, Admitted(n)
  PROVE  Stored(n) \in 0 .. MaxStored /\ Stored(n) * Grain = n
<1> DEFINE k == n \div Grain
<1>1. k \in Int /\ n = k * Grain
  BY ScaleAssumption DEF Admitted
<1>2. n >= 0 /\ n <= MaxStored * Grain
  BY DEF Admitted
<1> HIDE DEF k
<1>3. Stored(n) = k
  BY <1>1, StoredExactly
<1>4. k >= 0 /\ k <= MaxStored
  BY <1>1, <1>2, ScaleAssumption, WidthAssumption
<1> QED
  BY <1>1, <1>3, <1>4, WidthAssumption

LEMMA MoneyInvInitially == Init => MoneyInv
<1> SUFFICES ASSUME Init PROVE MoneyInv
  OBVIOUS
<1>1. /\ opening \in [Account -> Int] /\ balance = [a \in Account |-> Stored(opening[a])]
      /\ \A a \in Account : Admitted(opening[a])
      /\ entries = [a \in Account |-> <<>>] /\ transfers = <<>>
  BY WidthAssumption DEF Init
<1>2. \A a \in Account : balance[a] \in 0 .. MaxStored /\ balance[a] * Grain = opening[a]
  BY <1>1, AdmittedStored
<1>3. MoneyTyped
  <2>1. balance \in [Account -> 0 .. MaxStored]
    BY <1>1, <1>2
  <2>2. entries \in [Account -> Seq(Int)] /\ transfers \in Seq([asked : Int, amount : Int])
    BY <1>1
  <2> QED
    BY <1>1, <2>1, <2>2 DEF MoneyTyped
<1>4. StoredAsRounded
  BY DEF Init, StoredAsRounded
<1>5. ExactBooks
  <2>1. \A a \in Account : Sum(entries[a]) = 0
    BY <1>1, SumAppended DEF Sum, SumSeq
  <2>2. Fine(balance) = opening
    BY <1>1, <1>2 DEF Fine
  <2>3. \A a \in Account : balance[a] * Grain = opening[a] + Sum(entries[a]) * Grain
    BY <1>1, <1>2, <2>1, ScaleAssumption
  <2> QED
    BY <2>2, <2>3 DEF ExactBooks
<1> QED
  BY <1>3, <1>4, <1>5 DEF MoneyInv

\* In whole units of the scale, a transfer takes from one balance what it adds to the other
\* and enters the same amounts.
LEMMA PostInUnits ==
  ASSUME MoneyTyped, NEW s \in Account, NEW d \in Account, NEW n \in Asked, s # d, Post(s, d, n)
  PROVE  /\ n \in Int /\ HalfEven(n) \in Int /\ opening' = opening
         /\ balance[s] - HalfEven(n) \in 0 .. MaxStored
         /\ balance[d] + HalfEven(n) \in 0 .. MaxStored
         /\ balance' = [balance EXCEPT ![s] = balance[s] - HalfEven(n), ![d] = balance[d] + HalfEven(n)]
         /\ entries' = [entries EXCEPT ![s] = Append(entries[s], -HalfEven(n)),
                                       ![d] = Append(entries[d], HalfEven(n))]
         /\ transfers' = Append(transfers, [asked |-> n, amount |-> HalfEven(n)])
<1> DEFINE h == HalfEven(n)
<1>1. n \in Int /\ h \in Int /\ h > 0 /\ balance[s] \in 0 .. MaxStored /\ balance[d] \in 0 .. MaxStored
  BY ScaleAssumption, HalfEvenNearest DEF Post, Invalid, MoneyTyped
<1> HIDE DEF h
<1>2. Debited(s, n) = (balance[s] - h) * Grain /\ Credited(d, n) = (balance[d] + h) * Grain
  BY <1>1, ScaleAssumption DEF Debited, Credited, MoneyAmount, h
<1>3. balance[s] - h \in Int /\ balance[d] + h \in Int
  BY <1>1
<1>4. Stored(Debited(s, n)) = balance[s] - h /\ Stored(Credited(d, n)) = balance[d] + h
  BY <1>2, <1>3, StoredExactly, Zenon
<1>5. Stored(MoneyAmount(n)) = h /\ Stored(-MoneyAmount(n)) = -h
  BY <1>1, StoredExactly, Zenon DEF MoneyAmount, h
<1>6. balance[s] - h >= 0
  <2>1. (balance[s] - h) * Grain >= 0
    BY <1>2 DEF Post
  <2> QED
    BY <1>3, <2>1, ScaleAssumption
<1>7. balance[d] + h <= MaxStored
  BY <1>4 DEF Post
<1>8. balance[s] - h \in 0 .. MaxStored /\ balance[d] + h \in 0 .. MaxStored
  BY <1>1, <1>6, <1>7, WidthAssumption
<1>9. /\ opening' = opening
      /\ balance' = [balance EXCEPT ![s] = Stored(Debited(s, n)), ![d] = Stored(Credited(d, n))]
      /\ entries' = [entries EXCEPT ![s] = Append(entries[s], Stored(-MoneyAmount(n))),
                                    ![d] = Append(entries[d], Stored(MoneyAmount(n)))]
      /\ transfers' = Append(transfers, [asked |-> n, amount |-> Stored(MoneyAmount(n))])
  BY <1>1 DEF Post, MoneyTyped
<1> QED
  BY <1>1, <1>4, <1>5, <1>8, <1>9 DEF h

LEMMA PostKeepsBooks ==
  ASSUME MoneyInv, NEW s \in Account, NEW d \in Account, NEW n \in Asked, s # d, Post(s, d, n)
  PROVE  MoneyInv'
<1> DEFINE h == HalfEven(n)
<1>t. MoneyTyped
  BY DEF MoneyInv
<1>1. /\ n \in Int /\ h \in Int /\ opening' = opening
      /\ balance[s] - h \in 0 .. MaxStored /\ balance[d] + h \in 0 .. MaxStored
      /\ balance' = [balance EXCEPT ![s] = balance[s] - h, ![d] = balance[d] + h]
      /\ entries' = [entries EXCEPT ![s] = Append(entries[s], -h), ![d] = Append(entries[d], h)]
      /\ transfers' = Append(transfers, [asked |-> n, amount |-> h])
  BY <1>t, PostInUnits
<1> HIDE DEF h
<1>2. MoneyTyped'
  <2>1. /\ opening' \in [Account -> Int]
        /\ balance' \in [Account -> 0 .. MaxStored]
    BY <1>t, <1>1 DEF MoneyTyped
  <2>2. entries' \in [Account -> Seq(Int)]
    <3>1. Append(entries[s], -h) \in Seq(Int) /\ Append(entries[d], h) \in Seq(Int)
      BY <1>t, <1>1 DEF MoneyTyped
    <3> QED
      BY <1>t, <1>1, <3>1 DEF MoneyTyped
  <2>3. transfers' \in Seq([asked : Int, amount : Int])
    BY <1>t, <1>1 DEF MoneyTyped
  <2> QED
    BY <2>1, <2>2, <2>3 DEF MoneyTyped
<1>3. StoredAsRounded'
  <2>1. /\ transfers \in Seq([asked : Int, amount : Int])
        /\ \A i \in 1 .. Len(transfers) : transfers[i].amount = HalfEven(transfers[i].asked)
    BY <1>t DEF MoneyInv, MoneyTyped, StoredAsRounded
  <2>2. ASSUME NEW i \in 1 .. Len(transfers') PROVE transfers'[i].amount = HalfEven(transfers'[i].asked)
    <3>1. CASE i = Len(transfers) + 1
      BY <1>1, <2>1, <3>1 DEF h
    <3>2. CASE i # Len(transfers) + 1
      <4>1. i \in 1 .. Len(transfers) /\ transfers'[i] = transfers[i]
        BY <1>1, <2>1, <3>2
      <4> QED
        BY <2>1, <4>1
    <3> QED
      BY <3>1, <3>2
  <2> QED
    BY <2>2 DEF StoredAsRounded
<1>4. \A a \in Account : balance'[a] * Grain = opening'[a] + Sum(entries'[a]) * Grain
  <2>0. \A a \in Account : /\ balance[a] \in Int /\ opening[a] \in Int
                           /\ entries[a] \in Seq(Int) /\ Sum(entries[a]) \in Int
                           /\ balance[a] * Grain = opening[a] + Sum(entries[a]) * Grain
    <3>1. \A a \in Account : balance[a] \in Int /\ opening[a] \in Int /\ entries[a] \in Seq(Int)
      BY <1>t DEF MoneyTyped
    <3>2. \A a \in Account : Sum(entries[a]) \in Int
      BY <3>1, SumAppended, Zenon DEF Sum, SumSeq
    <3> QED
      BY <3>1, <3>2 DEF MoneyInv, ExactBooks
  <2>s. \A q \in Seq(Int), v \in Int : Sum(Append(q, v)) = Sum(q) + v
    BY SumAppended, Zenon DEF Sum, SumSeq
  <2>m. -h \in Int /\ Grain \in Int
    BY <1>1, ScaleAssumption
  <2> TAKE a \in Account
  <2> DEFINE b == balance[a]
             o == opening[a]
             t == Sum(entries[a])
  <2>b. b \in Int /\ o \in Int /\ t \in Int /\ b * Grain = o + t * Grain
    BY <2>0
  <2> HIDE DEF b, o, t
  \* Moving v units changes both sides by v units of the scale.
  <2>k. ASSUME NEW v \in Int PROVE (b + v) * Grain = o + (t + v) * Grain
    <3>1. (b + v) * Grain = b * Grain + v * Grain /\ (t + v) * Grain = t * Grain + v * Grain
      BY ONLY <2>m, <2>b, v \in Int
    <3>2. b * Grain \in Int /\ t * Grain \in Int /\ v * Grain \in Int
      BY ONLY <2>m, <2>b, v \in Int
    <3> QED
      BY ONLY <2>b, <3>1, <3>2
  <2>1. CASE a = s
    <3>1. balance'[a] = balance[a] + (-h) /\ entries'[a] = Append(entries[a], -h)
      BY <1>t, <1>1, <2>0, <2>1 DEF MoneyTyped
    <3>2. Sum(entries'[a]) = Sum(entries[a]) + (-h) /\ opening'[a] = opening[a]
      BY <1>1, <2>0, <2>s, <2>m, <3>1
    <3>3. (b + (-h)) * Grain = o + (t + (-h)) * Grain
      BY <2>k, <2>m, Zenon
    <3> QED
      BY ONLY <3>1, <3>2, <3>3 DEF b, o, t
  <2>2. CASE a = d
    <3>1. balance'[a] = balance[a] + h /\ entries'[a] = Append(entries[a], h)
      BY <1>t, <1>1, <2>0, <2>2 DEF MoneyTyped
    <3>2. Sum(entries'[a]) = Sum(entries[a]) + h /\ opening'[a] = opening[a]
      BY <1>1, <2>0, <2>s, <3>1
    <3>3. (b + h) * Grain = o + (t + h) * Grain
      BY <1>1, <2>k, Zenon
    <3> QED
      BY ONLY <3>1, <3>2, <3>3 DEF b, o, t
  <2>3. CASE a # s /\ a # d
    BY <1>t, <1>1, <2>0, <2>3 DEF MoneyTyped
  <2> QED
    BY <2>1, <2>2, <2>3
<1>5. Total(Fine(balance')) = Total(Fine(balance))
  <2> DEFINE f == Fine(balance)
             g == Fine(balance')
             v == h * Grain
  <2>1. /\ \A a \in Account : balance[a] \in Int /\ balance'[a] \in Int
        /\ Grain \in Int /\ h \in Int /\ v \in Int
    <3>1. \A a \in Account : balance[a] \in Int /\ balance'[a] \in Int
      BY <1>t, <1>2 DEF MoneyTyped
    <3>2. Grain \in Int /\ h \in Int
      BY <1>1, ScaleAssumption
    <3>3. v \in Int
      BY ONLY <3>2
    <3> QED
      BY <3>1, <3>2, <3>3
  <2>2. f \in [Account -> Int] /\ g \in [Account -> Int]
    BY <2>1 DEF Fine
  <2>3. g = [f EXCEPT ![s] = f[s] - v, ![d] = f[d] + v]
    <3>1. \A a \in Account : f[a] = balance[a] * Grain /\ g[a] = balance'[a] * Grain
      BY DEF Fine
    <3>2. /\ balance'[s] = balance[s] - h /\ balance'[d] = balance[d] + h
          /\ \A a \in Account : a # s /\ a # d => balance'[a] = balance[a]
      BY <1>t, <1>1 DEF MoneyTyped
    <3>3. g[s] = f[s] - v /\ g[d] = f[d] + v
      BY <2>1, <3>1, <3>2
    <3>4. \A a \in Account : a # s /\ a # d => g[a] = f[a]
      BY <3>1, <3>2
    <3> HIDE DEF f, g, v
    <3> QED
      BY <2>2, <3>3, <3>4
  <2> HIDE DEF f, g, v
  <2>4. IsFiniteSet(Account)
    BY WidthAssumption
  <2>5. Moves(g, f, s, d, v)
    BY ONLY <2>3 DEF Moves
  <2>6. SumFun(g) = SumFun(f)
    BY ONLY <2>1, <2>2, <2>4, <2>5, s # d, s \in Account, d \in Account, SumFunMoved, Zenon
  <2> QED
    BY <2>6 DEF Total, SumFun, f, g
<1>6. ExactBooks'
  BY <1>1, <1>4, <1>5 DEF MoneyInv, ExactBooks
<1> QED
  BY <1>2, <1>3, <1>6 DEF MoneyInv

LEMMA MoneyInvKept == MoneyInv /\ [Next]_vars => MoneyInv'
<1> SUFFICES ASSUME MoneyInv, [Next]_vars PROVE MoneyInv'
  OBVIOUS
<1>1. ASSUME NEW s \in Account, NEW d \in Account, NEW n \in Asked, s # d, Post(s, d, n)
      PROVE  MoneyInv'
  BY <1>1, PostKeepsBooks
<1>2. ASSUME NEW s \in Account, NEW d \in Account, NEW n \in Asked, Refuse(s, d, n)
      PROVE  MoneyInv'
  BY <1>2 DEF Refuse, MoneyInv, MoneyTyped, StoredAsRounded, ExactBooks
<1>3. CASE UNCHANGED vars
  BY <1>3 DEF vars, MoneyInv, MoneyTyped, StoredAsRounded, ExactBooks
<1> QED
  BY <1>1, <1>2, <1>3 DEF Next

-----------------------------------------------------------------------------
\* Theorems

LEMMA MoneyInvAlways == Spec => []MoneyInv
<1> QED
  BY MoneyInvInitially, MoneyInvKept, PTL DEF Spec

\* Whatever amounts are asked for, in whatever units and to whatever width, a transfer
\* moves the nearest amount that the ledger can hold, the even one of two.
THEOREM RoundingIsFair == Spec => []RoundsHalfEven
<1>1. MoneyInv => RoundsHalfEven
  <2> SUFFICES ASSUME MoneyInv, NEW i \in 1 .. Len(transfers)
               PROVE  LET n == transfers[i].asked
                          m == transfers[i].amount
                          Far(k) == IF k * Grain > n THEN k * Grain - n ELSE n - k * Grain
                      IN  /\ \A k \in 0 .. MaxStored :
                                Far(m) <= Far(k) /\ (Far(k) = Far(m) /\ k # m => m % 2 = 0)
                          /\ n % Grain = 0 => m * Grain = n
    BY DEF RoundsHalfEven
  <2>1. transfers[i].asked \in Int /\ transfers[i].amount = HalfEven(transfers[i].asked)
    <3>1. transfers \in Seq([asked : Int, amount : Int])
      BY DEF MoneyInv, MoneyTyped
    <3> DEFINE R == [asked : Int, amount : Int]
    <3>2. transfers[i] \in R
      <4>1. transfers \in Seq(R)
        BY <3>1
      <4> HIDE DEF R
      <4> QED
        BY <4>1
    <3> QED
      BY <3>2 DEF MoneyInv, StoredAsRounded
  <2>2. \A k \in 0 .. MaxStored : k \in Int
    OBVIOUS
  <2> DEFINE n == transfers[i].asked
             m == transfers[i].amount
  <2> HIDE DEF n, m
  <2>3. n \in Int /\ m = HalfEven(n)
    BY <2>1 DEF n, m
  <2>4. \A k \in 0 .. MaxStored :
           Distance(n, m) <= Distance(n, k) /\ (Distance(n, k) = Distance(n, m) /\ k # m => m % 2 = 0)
    BY <2>2, <2>3, HalfEvenNearest
  <2>5. n % Grain = 0 => m * Grain = n
    BY <2>3, HalfEvenNearest
  <2> QED
    BY <2>4, <2>5 DEF n, m, Distance
<1> QED
  BY <1>1, MoneyInvAlways, PTL

\* However many accounts there are and whatever they transfer, every balance is its opening
\* balance and its entries, and the total never changes.
THEOREM BooksAlwaysExact == Spec => []ExactBooks
<1>1. MoneyInv => ExactBooks
  BY DEF MoneyInv
<1> QED
  BY <1>1, MoneyInvAlways, PTL

=============================================================================

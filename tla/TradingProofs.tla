---------------------------- MODULE TradingProofs ----------------------------
(***************************************************************************)
(* What holds of the trading components for every value of their constants.*)
(*   1. The ledger: fills, settlements, dividends, splits and marks, and   *)
(*      what each does to the cash and to what the account is worth, and   *)
(*      that each keeps the balances of the journal in agreement with it.  *)
(*   2. The backtest engine: money is conserved, reserved purchases stay   *)
(*      covered, a completed run is settled, and what risk approved is     *)
(*      executed.                                                          *)
(*   3. The offline broker: its sequence numbers, fills and kill switch.   *)
(***************************************************************************)
EXTENDS BacktestReplay, OfflineBroker, SumTheorems

-----------------------------------------------------------------------------
(* Least and greatest elements, and sums. *)
(* Min of the community modules, for a set of naturals. *)
LEMMA LeastIsMin ==
    ASSUME NEW S, S \subseteq Nat, S # {}
    PROVE  Min(S) \in S /\ \A x \in S : Min(S) <= x
<1>1. \E n \in S : \A m \in S : n <= m
  BY LeastNumber
<1> QED BY <1>1 DEF Min

\* A set of integers with an upper bound and a lower one has a greatest element.
LEMMA GreatestIsMax ==
    ASSUME NEW a \in Int, NEW b \in Int, NEW S, S \subseteq a .. b, S # {}
    PROVE  Max(S) \in S /\ \A x \in S : Max(S) >= x
<1> DEFINE gaps == {b - x : x \in S}
<1>1. gaps \subseteq Nat /\ gaps # {}
  OBVIOUS
<1>2. \E n \in gaps : \A m \in gaps : n <= m
  BY <1>1, LeastNumber
<1>3. PICK y \in S : \A m \in gaps : b - y <= m
  BY <1>2
<1>4. \A x \in S : y >= x
  BY <1>3
<1>5. \E z \in S : \A x \in S : z >= x
  BY <1>4
<1> QED BY <1>5 DEF Max

(* Min of a pair. *)
LEMMA PairMin ==
    ASSUME NEW a \in Int, NEW b \in Int
    PROVE  Min({a, b}) \in {a, b} /\ Min({a, b}) <= a /\ Min({a, b}) <= b
<1>1. \E x \in {a, b} : \A y \in {a, b} : x =< y
  <2>1. a <= b \/ b <= a
    OBVIOUS
  <2> QED BY <2>1
<1> QED BY <1>1 DEF Min

(* Max of a pair. *)
LEMMA PairMax ==
    ASSUME NEW a \in Int, NEW b \in Int
    PROVE  Max({a, b}) \in {a, b} /\ Max({a, b}) >= a /\ Max({a, b}) >= b
<1>1. \E x \in {a, b} : \A y \in {a, b} : x >= y
  <2>1. a <= b \/ b <= a
    OBVIOUS
  <2> QED BY <2>1
<1> QED BY <1>1 DEF Max

\* The sum over a set is the sum over a part of it and the sum over the rest.
LEMMA SumSplit ==
    ASSUME NEW S, IsFiniteSet(S), NEW T, T \subseteq S, NEW f, \A x \in S : f[x] \in Int
    PROVE  SumFunctionOnSet(f, S) = SumFunctionOnSet(f, T) + SumFunctionOnSet(f, S \ T)
<1> DEFINE F == {s \in SUBSET T : SumFunctionOnSet(f, s \cup (S \ T))
                                    = SumFunctionOnSet(f, s) + SumFunctionOnSet(f, S \ T)}
<1>1. IsFiniteSet(T) /\ IsFiniteSet(S \ T)
  BY FS_Subset
<1>2. SumFunctionOnSet(f, S \ T) \in Int
  BY <1>1, SumInt
<1>3. {} \in F
  <2>1. {} \cup (S \ T) = S \ T
    OBVIOUS
  <2> QED BY <1>2, <2>1, SumOfNone
<1>4. ASSUME NEW s \in SUBSET T, NEW x \in T \ s, s \in F PROVE s \cup {x} \in F
  <2> DEFINE u == s \cup (S \ T)
  <2>1. IsFiniteSet(s) /\ IsFiniteSet(u)
    BY <1>1, FS_Subset
  <2>2. x \notin u /\ u \cup {x} = (s \cup {x}) \cup (S \ T)
    OBVIOUS
  <2>3. \A y \in u \cup {x} : f[y] \in Int
    OBVIOUS
  <2>a. SumFunctionOnSet(f, u) = SumFunctionOnSet(f, s) + SumFunctionOnSet(f, S \ T)
    BY <1>4
  <2>b. \A y \in s \cup {x} : f[y] \in Int
    BY <1>4
  <2> HIDE DEF u
  <2>4. SumFunctionOnSet(f, u \cup {x}) = SumFunctionOnSet(f, u) + f[x]
    BY <2>1, <2>2, <2>3, SumAdd
  <2>5. SumFunctionOnSet(f, s \cup {x}) = SumFunctionOnSet(f, s) + f[x]
    BY <2>1, <2>b, SumAdd
  <2>6. SumFunctionOnSet(f, s) \in Int /\ f[x] \in Int
    BY <2>1, <2>b, SumInt
  <2>7. SumFunctionOnSet(f, u \cup {x}) = SumFunctionOnSet(f, s \cup {x}) + SumFunctionOnSet(f, S \ T)
    BY <1>2, <2>4, <2>5, <2>6, <2>a
  <2>8. SumFunctionOnSet(f, (s \cup {x}) \cup (S \ T))
          = SumFunctionOnSet(f, s \cup {x}) + SumFunctionOnSet(f, S \ T)
    BY ONLY <2>2, <2>7, Zenon
  <2> QED BY <2>8
<1>5. T \in F
  <2> HIDE DEF F
  <2>1. F \subseteq SUBSET T
    BY DEF F
  <2> QED BY <1>1, <1>3, <1>4, SetInduction
<1>6. T \cup (S \ T) = S
  OBVIOUS
<1> QED BY <1>5, <1>6

(* A sum of zeros is zero. *)
LEMMA SumOfZeros ==
    ASSUME NEW S, IsFiniteSet(S), NEW f, \A x \in S : f[x] = 0
    PROVE  SumFunctionOnSet(f, S) = 0
<1> DEFINE F == {s \in SUBSET S : SumFunctionOnSet(f, s) = 0}
<1>1. {} \in F
  BY SumOfNone
<1>2. ASSUME NEW s \in SUBSET S, NEW x \in S \ s, s \in F PROVE s \cup {x} \in F
  <2>1. IsFiniteSet(s) /\ \A y \in s \cup {x} : f[y] \in Int
    BY FS_Subset
  <2>2. SumFunctionOnSet(f, s \cup {x}) = SumFunctionOnSet(f, s) + f[x]
    BY <2>1, SumAdd
  <2> QED BY <1>2, <2>2
<1>3. F \subseteq SUBSET S
  OBVIOUS
<1> HIDE DEF F
<1>4. S \in F
  BY <1>1, <1>2, <1>3, SetInduction
<1> QED BY <1>4 DEF F

-----------------------------------------------------------------------------
(* Policies. *)
(* Rounding up gives a natural. *)
LEMMA CeilDivFacts ==
    ASSUME NEW a \in Nat, NEW b \in Nat \ {0}
    PROVE  CeilDiv(a, b) \in Nat
BY DEF CeilDiv

(* More is rounded up to more. *)
LEMMA CeilDivMonotone ==
    ASSUME NEW a \in Nat, NEW c \in Nat, a <= c, NEW b \in Nat \ {0}
    PROVE  CeilDiv(a, b) <= CeilDiv(c, b)
<1> DEFINE x == a + b - 1
           y == c + b - 1
           p == x \div b
           q == y \div b
<1>1. x \in Nat /\ y \in Nat /\ x <= y
  OBVIOUS
<1>2. p \in Nat /\ q \in Nat
  BY <1>1
<1>3. b * p <= x /\ y < b * (q + 1)
  BY <1>1
<1>4. ASSUME p > q PROVE FALSE
  <2>1. p >= q + 1
    BY <1>2, <1>4
  <2>2. b * p >= b * (q + 1)
    BY <1>2, <2>1
  <2> QED BY <1>1, <1>2, <1>3, <2>2
<1> QED BY <1>2, <1>4 DEF CeilDiv

(* A fee is a natural. *)
LEMMA FeeFacts ==
    ASSUME NEW g \in Nat
    PROVE  Fee(g) \in Nat
<1>1. RateUnit \in Nat \ {0} /\ CommissionRate \in Nat /\ MinimumCommission \in Nat
  BY PolicyAssumption
<1>2. g * CommissionRate \in Nat
  BY <1>1
<1>3. CeilDiv(g * CommissionRate, RateUnit) \in Nat
  BY <1>1, <1>2, CeilDivFacts
<1> DEFINE c == CeilDiv(g * CommissionRate, RateUnit)
<1> HIDE DEF c
<1>4. c \in Nat
  BY <1>3 DEF c
<1>5. Max({MinimumCommission, c}) \in {MinimumCommission, c}
  BY <1>1, <1>4, PairMax
<1> QED BY <1>1, <1>4, <1>5 DEF Fee, c

(* The fee of a larger order is not smaller: a later fill never takes back a fee. *)
LEMMA FeeMonotone ==
    ASSUME NEW g \in Nat, NEW h \in Nat, g <= h
    PROVE  Fee(g) <= Fee(h)
<1>1. RateUnit \in Nat \ {0} /\ CommissionRate \in Nat /\ MinimumCommission \in Nat
  BY PolicyAssumption
<1> DEFINE x == g * CommissionRate
           y == h * CommissionRate
<1>2. x \in Nat /\ y \in Nat /\ x <= y
  BY <1>1
<1> HIDE DEF x, y
<1> DEFINE c == CeilDiv(x, RateUnit)
           d == CeilDiv(y, RateUnit)
<1>3. c \in Nat /\ d \in Nat /\ c <= d
  BY <1>1, <1>2, CeilDivFacts, CeilDivMonotone
<1> HIDE DEF c, d
<1>4. Max({MinimumCommission, c}) \in {MinimumCommission, c}
  BY <1>1, <1>3, PairMax
<1>5. /\ Max({MinimumCommission, d}) >= MinimumCommission /\ Max({MinimumCommission, d}) >= d
      /\ Max({MinimumCommission, d}) \in {MinimumCommission, d}
  BY <1>1, <1>3, PairMax
<1> QED BY <1>1, <1>3, <1>4, <1>5 DEF Fee, x, y, c, d

(* A tax is a natural. *)
LEMMA TaxFacts ==
    ASSUME NEW side, NEW g \in Nat
    PROVE  Tax(side, g) \in Nat
BY PolicyAssumption DEF Tax

(* Rounding half to even gives an integer. *)
LEMMA RoundHalfEvenFacts ==
    ASSUME NEW n \in Int, NEW d \in Nat \ {0}
    PROVE  RoundHalfEven(n, d) \in Int
BY DEF RoundHalfEven

(* Every price has a positive tick, as the last band is unbounded. *)
LEMMA TickFacts ==
    ASSUME NEW scaled \in Int
    PROVE  Tick(scaled) \in Nat \ {0}
<1> DEFINE fits == {i \in DOMAIN TickBands :
                    TickBands[i].upper = 0 \/ scaled < TickBands[i].upper * RateUnit}
<1>1. fits \subseteq Nat /\ Len(TickBands) \in fits
  BY BandsAssumption
<1>2. Min(fits) \in fits
  BY <1>1, LeastIsMin
<1> QED BY <1>2, BandsAssumption DEF Tick

(* A price at which a fill is simulated is a natural; 0 is a raise. *)
LEMMA EstimatedPriceFacts ==
    ASSUME NEW side \in Sides, NEW open \in Nat
    PROVE  EstimatedPrice(side, open) \in Nat
<1> DEFINE raw == open * (IF side = "buy" THEN RateUnit + SlippageRate ELSE RateUnit - SlippageRate)
           Rounded(tick) == tick * (IF side = "buy" THEN CeilDiv(raw, tick * RateUnit)
                                                    ELSE raw \div (tick * RateUnit))
           Again(tick) == Tick(Rounded(tick) * RateUnit)
           tried == <<Tick(raw), Again(Tick(raw)), Again(Again(Tick(raw)))>>
           stable == {i \in 1 .. 3 : Rounded(tried[i]) > 0 /\ Again(tried[i]) = tried[i]}
<1>1. RateUnit \in Nat \ {0} /\ SlippageRate \in Nat /\ SlippageRate < RateUnit
  BY PolicyAssumption
<1>2. raw \in Nat
  BY <1>1
<1>3. ASSUME NEW t \in Nat \ {0} PROVE Rounded(t) \in Nat
  <2> DEFINE u == t * RateUnit
  <2>1. u \in Nat \ {0}
    BY <1>1
  <2> HIDE DEF raw, u
  <2>2. CeilDiv(raw, u) \in Nat
    BY ONLY <1>2, <2>1, CeilDivFacts
  <2>3. raw \div u \in Nat
    BY ONLY <1>2, <2>1
  <2> QED BY <2>2, <2>3 DEF u
<1> HIDE DEF raw, Rounded
<1>4. ASSUME NEW t \in Nat \ {0} PROVE Again(t) \in Nat \ {0}
  <2>1. Rounded(t) * RateUnit \in Int
    BY <1>1, <1>3
  <2> QED BY <2>1, TickFacts
<1>5. Tick(raw) \in Nat \ {0}
  BY <1>2, TickFacts
<1> HIDE DEF Again
<1>6. \A i \in 1 .. 3 : tried[i] \in Nat \ {0}
  BY <1>4, <1>5
<1> HIDE DEF tried
<1>7. CASE stable # {}
  <2>1. Min(stable) \in stable
    BY <1>7, LeastIsMin
  <2>2. Rounded(tried[Min(stable)]) \in Nat
    BY <1>3, <1>6, <2>1
  <2> QED BY <1>7, <2>2 DEF EstimatedPrice, stable, tried, Again, Rounded, raw
<1>8. CASE stable = {}
  BY <1>8 DEF EstimatedPrice, stable, tried, Again, Rounded, raw
<1> QED BY <1>7, <1>8

(* No more is filled than was asked for. *)
LEMMA FilledQuantityFacts ==
    ASSUME NEW quantity \in Nat, NEW quote, ValidQuote(quote)
    PROVE  FilledQuantity(quantity, quote) \in Nat /\ FilledQuantity(quantity, quote) <= quantity
<1> DEFINE capacity == (quote.volume * ParticipationRate) \div RateUnit
<1>1. capacity \in Nat
  BY PolicyAssumption DEF ValidQuote
<1> HIDE DEF capacity
<1>2. Min({quantity, capacity}) \in {quantity, capacity} /\ Min({quantity, capacity}) <= quantity
  BY <1>1, PairMin
<1> QED BY <1>1, <1>2 DEF FilledQuantity, capacity

-----------------------------------------------------------------------------
(* The ledger. *)
Fields ==
    {"settled", "capital", "pending", "receivables", "positions", "applied", "realized", "fees",
     "taxes", "dividends", "filledFees", "filledGain", "balance", "ordered", "lastAt", "error"}

OrderIds == (Nat \X Instruments) \cup Nat

Items == [id : OrderIds, due : Nat, side : Sides, amount : Int, done : BOOLEAN]

Positions == [known : BOOLEAN, quantity : Nat, book : Int, price : Int, stale : Nat]

LedgerTyped(l) ==
    /\ DOMAIN l = Fields
    /\ l.settled \in Int /\ l.realized \in Int /\ l.dividends \in Int
    /\ l.pending \in Seq(Items)
    /\ l.positions \in [Instruments -> Positions]
    /\ IsFiniteSet(l.receivables)
    /\ \A d \in l.receivables : d.action \in l.applied /\ d.pay \in Nat /\ d.amount \in Nat

FillTyped(f) ==
    /\ f.id \in OrderIds /\ f.instrument \in Instruments /\ f.side \in Sides
    /\ f.quantity \in Nat \ {0} /\ f.price \in Nat /\ f.fee \in Nat /\ f.tax \in Nat
    /\ f.side = "buy" => f.tax = 0

BookTotal(l) == SumFunction([i \in Instruments |-> l.positions[i].book])

(* What a ledger is worth apart from what its shares cost, sales gained and dividends paid. *)
Worth(l) ==
    l.settled + Receivables(l) - Payables(l) + DividendReceivables(l)
        + BookTotal(l) - l.realized - l.dividends

(* Obligations are finitely many, and typed. *)
LEMMA PendingFacts ==
    ASSUME NEW pending \in Seq(Items)
    PROVE  /\ Len(pending) \in Nat /\ DOMAIN pending = 1 .. Len(pending)
           /\ IsFiniteSet(DOMAIN pending)
           /\ \A k \in DOMAIN pending :
                /\ pending[k] \in Items /\ pending[k].amount \in Int /\ pending[k].due \in Nat
                /\ pending[k].side \in Sides /\ pending[k].done \in BOOLEAN
<1>1. Len(pending) \in Nat /\ DOMAIN pending = 1 .. Len(pending)
      /\ \A k \in DOMAIN pending : pending[k] \in Items
  OBVIOUS
<1>2. PICK n \in Nat : n = Len(pending)
  BY <1>1
<1>3. IsFiniteSet(1 .. n)
  BY FS_Interval
<1> QED BY <1>1, <1>2, <1>3 DEF Items

(* What is outstanding is an integer. *)
LEMMA OutstandingInt ==
    ASSUME NEW l, l.pending \in Seq(Items), NEW side
    PROVE  Outstanding(l, side) \in Int
<1> DEFINE f == [k \in DOMAIN l.pending |-> l.pending[k].amount]
           S == {k \in DOMAIN l.pending : ~l.pending[k].done /\ l.pending[k].side = side}
<1>1. IsFiniteSet(DOMAIN l.pending) /\ \A k \in DOMAIN l.pending : l.pending[k].amount \in Int
  BY PendingFacts
<1>2. IsFiniteSet(S)
  BY <1>1, FS_Subset
<1>3. \A k \in S : f[k] \in Int
  BY <1>1
<1> QED BY <1>2, <1>3, SumInt DEF Outstanding

(* What Outstanding sums, and over what. *)
Amounts(l) == [k \in DOMAIN l.pending |-> l.pending[k].amount]

OpenItems(l, side) == {k \in DOMAIN l.pending : ~l.pending[k].done /\ l.pending[k].side = side}

(* What Outstanding sums, by the names used here. *)
LEMMA OutstandingIs ==
    ASSUME NEW l, NEW side
    PROVE  Outstanding(l, side) = SumFunctionOnSet(Amounts(l), OpenItems(l, side))
BY DEF Outstanding, Amounts, OpenItems

(* The open obligations are finitely many. *)
LEMMA OpenFacts ==
    ASSUME NEW l, l.pending \in Seq(Items), NEW side
    PROVE  /\ IsFiniteSet(OpenItems(l, side)) /\ OpenItems(l, side) \subseteq DOMAIN l.pending
           /\ \A k \in DOMAIN l.pending : Amounts(l)[k] = l.pending[k].amount /\ Amounts(l)[k] \in Int
           /\ SumFunctionOnSet(Amounts(l), OpenItems(l, side)) \in Int
<1>1. IsFiniteSet(DOMAIN l.pending) /\ \A k \in DOMAIN l.pending : l.pending[k].amount \in Int
  BY PendingFacts
<1>2. OpenItems(l, side) \subseteq DOMAIN l.pending
  BY DEF OpenItems
<1>3. IsFiniteSet(OpenItems(l, side))
  BY <1>1, <1>2, FS_Subset
<1>4. \A k \in DOMAIN l.pending : Amounts(l)[k] = l.pending[k].amount /\ Amounts(l)[k] \in Int
  BY <1>1 DEF Amounts
<1> QED BY <1>2, <1>3, <1>4, SumInt

(* A new obligation adds its amount to what is outstanding on its side. *)
LEMMA OutstandingAppended ==
    ASSUME NEW l, l.pending \in Seq(Items), NEW item \in Items, ~item.done,
           NEW m, m.pending = Append(l.pending, item), NEW side
    PROVE  /\ Outstanding(l, side) \in Int
           /\ Outstanding(m, side) = Outstanding(l, side)
                                        + (IF item.side = side THEN item.amount ELSE 0)
<1> DEFINE f == Amounts(l)
           g == Amounts(m)
           S == OpenItems(l, side)
           T == OpenItems(m, side)
           n == Len(l.pending)
<1>1. DOMAIN l.pending = 1 .. n /\ n \in Nat
  BY PendingFacts
<1>2. /\ DOMAIN m.pending = 1 .. n + 1 /\ m.pending[n + 1] = item
      /\ \A k \in 1 .. n : m.pending[k] = l.pending[k]
  BY <1>1
<1>3. IsFiniteSet(S) /\ S \subseteq 1 .. n /\ SumFunctionOnSet(f, S) \in Int
      /\ \A k \in 1 .. n : f[k] = l.pending[k].amount /\ f[k] \in Int
  BY <1>1, OpenFacts
<1>4. \A k \in S : g[k] = f[k]
  BY <1>1, <1>2, <1>3 DEF Amounts
<1>5. g[n + 1] = item.amount /\ item.amount \in Int
  BY <1>1, <1>2 DEF Amounts, Items
<1>6. T = IF item.side = side THEN S \cup {n + 1} ELSE S
  BY <1>1, <1>2 DEF OpenItems
<1>7. n + 1 \notin S
  BY <1>1, <1>3
<1>8. Outstanding(l, side) = SumFunctionOnSet(f, S) /\ Outstanding(m, side) = SumFunctionOnSet(g, T)
  BY OutstandingIs
<1> HIDE DEF f, g, S, T, n
<1>9. SumFunctionOnSet(g, S) = SumFunctionOnSet(f, S)
  BY <1>3, <1>4, SumAgrees
<1>10. CASE item.side = side
  <2>1. \A k \in S \cup {n + 1} : g[k] \in Int
    BY <1>3, <1>4, <1>5
  <2>2. SumFunctionOnSet(g, S \cup {n + 1}) = SumFunctionOnSet(g, S) + g[n + 1]
    BY <1>3, <1>7, <2>1, SumAdd
  <2> QED BY <1>3, <1>5, <1>6, <1>8, <1>9, <1>10, <2>2
<1>11. CASE item.side # side
  BY <1>3, <1>6, <1>8, <1>9, <1>11
<1> QED BY <1>10, <1>11

(* An obligation that is done no longer counts. *)
LEMMA OutstandingSettled ==
    ASSUME NEW l, l.pending \in Seq(Items), NEW n \in DOMAIN l.pending, ~l.pending[n].done,
           NEW m, m.pending = [l.pending EXCEPT ![n].done = TRUE], NEW side
    PROVE  /\ Outstanding(l, side) \in Int
           /\ Outstanding(m, side) = Outstanding(l, side)
                    - (IF l.pending[n].side = side THEN l.pending[n].amount ELSE 0)
<1> DEFINE f == Amounts(l)
           g == Amounts(m)
           S == OpenItems(l, side)
           T == OpenItems(m, side)
           D == DOMAIN l.pending
<1>1. \A k \in D : l.pending[k] \in Items
  BY PendingFacts
<1>2. m.pending[n] = [l.pending[n] EXCEPT !.done = TRUE] /\ l.pending[n] \in Items
  BY <1>1
<1>3. m.pending[n].done /\ m.pending[n].amount = l.pending[n].amount
      /\ m.pending[n].side = l.pending[n].side
  BY <1>2 DEF Items
<1>4. DOMAIN m.pending = D /\ \A k \in D : k # n => m.pending[k] = l.pending[k]
  OBVIOUS
<1>5. IsFiniteSet(S) /\ S \subseteq D /\ SumFunctionOnSet(f, S) \in Int
      /\ \A k \in D : f[k] = l.pending[k].amount /\ f[k] \in Int
  BY OpenFacts
<1>6. T = S \ {n}
  BY <1>3, <1>4 DEF OpenItems
<1>7. \A k \in T : g[k] = f[k]
  <2>1. \A k \in T : k \in D /\ k # n
    BY <1>5, <1>6
  <2> QED BY <1>4, <1>5, <2>1 DEF Amounts
<1>8. n \in S <=> l.pending[n].side = side
  BY DEF OpenItems
<1>9. f[n] = l.pending[n].amount /\ f[n] \in Int
  BY <1>5
<1>10. Outstanding(l, side) = SumFunctionOnSet(f, S) /\ Outstanding(m, side) = SumFunctionOnSet(g, T)
  BY OutstandingIs
<1> HIDE DEF f, g, S, T, D
<1>11. IsFiniteSet(T)
  BY <1>5, <1>6, FS_Subset
<1>12. SumFunctionOnSet(g, T) = SumFunctionOnSet(f, T)
  BY <1>7, <1>11, SumAgrees
<1>13. CASE l.pending[n].side = side
  <2>1. SumFunctionOnSet(f, S) = f[n] + SumFunctionOnSet(f, S \ {n})
    BY <1>5, <1>8, <1>13, SumRemove
  <2>2. SumFunctionOnSet(f, T) \in Int
    BY <1>5, <1>6, <1>11, SumInt
  <2> QED BY <1>5, <1>6, <1>9, <1>10, <1>12, <1>13, <2>1, <2>2
<1>14. CASE l.pending[n].side # side
  <2>1. T = S
    BY <1>6, <1>8, <1>14
  <2>2. Outstanding(m, side) = Outstanding(l, side)
    BY <1>10, <1>12, <2>1
  <2> QED BY <1>5, <1>10, <1>14, <2>2
<1> QED BY <1>13, <1>14

(* Dividends receivable are a natural. *)
LEMMA DividendsInt ==
    ASSUME NEW l, IsFiniteSet(l.receivables), \A d \in l.receivables : d.amount \in Nat
    PROVE  DividendReceivables(l) \in Nat
<1> DEFINE f == [d \in l.receivables |-> d.amount]
<1>1. \A d \in l.receivables : f[d] \in Nat
  OBVIOUS
<1> QED BY <1>1, SumNat DEF DividendReceivables, SumFunction

(* The cost of all shares is an integer. *)
LEMMA BookInt ==
    ASSUME NEW l, l.positions \in [Instruments -> Positions]
    PROVE  BookTotal(l) \in Int
<1> DEFINE f == [i \in Instruments |-> l.positions[i].book]
<1>1. \A i \in Instruments : f[i] \in Int
  BY DEF Positions
<1> QED BY <1>1, SumInt, LedgerAssumption DEF BookTotal, SumFunction

\* One position costs more, or less, than it did.
LEMMA BookChanged ==
    ASSUME NEW l, l.positions \in [Instruments -> Positions], NEW i \in Instruments,
           NEW p \in Positions, NEW m, m.positions = [l.positions EXCEPT ![i] = p]
    PROVE  BookTotal(l) \in Int /\ BookTotal(m) = BookTotal(l) - l.positions[i].book + p.book
<1> DEFINE f == [j \in Instruments |-> l.positions[j].book]
           g == [j \in Instruments |-> m.positions[j].book]
<1>1. \A j \in Instruments : f[j] \in Int /\ g[j] \in Int
  BY DEF Positions
<1>2. \A j \in Instruments \ {i} : g[j] = f[j]
  OBVIOUS
<1>3. f[i] = l.positions[i].book /\ g[i] = p.book /\ DOMAIN f = Instruments /\ DOMAIN g = Instruments
  OBVIOUS
<1> HIDE DEF f, g
<1>4. SumFunctionOnSet(g, Instruments) = SumFunctionOnSet(f, Instruments) - f[i] + g[i]
  BY <1>1, <1>2, SumChange, LedgerAssumption
<1> QED BY <1>3, <1>4, BookInt DEF BookTotal, SumFunction, f, g

\* Positions whose cost stays.
LEMMA BookSame ==
    ASSUME NEW l, NEW m, \A i \in Instruments : m.positions[i].book = l.positions[i].book
    PROVE  BookTotal(m) = BookTotal(l)
<1>1. [i \in Instruments |-> m.positions[i].book] = [i \in Instruments |-> l.positions[i].book]
  OBVIOUS
<1> QED BY <1>1 DEF BookTotal

(* The fields that say what an account owns and owes. *)
SameAccount(l, m) ==
    /\ DOMAIN m = Fields
    /\ m.settled = l.settled /\ m.realized = l.realized /\ m.dividends = l.dividends
    /\ m.pending = l.pending /\ m.positions = l.positions
    /\ m.receivables = l.receivables /\ m.applied = l.applied

(* A ledger that differs only in its journal is worth the same. *)
LEMMA SameAccountFacts ==
    ASSUME NEW l, NEW m, SameAccount(l, m)
    PROVE  /\ LedgerTyped(l) => LedgerTyped(m)
           /\ \A side : Outstanding(m, side) = Outstanding(l, side)
           /\ Worth(m) = Worth(l) /\ Available(m) = Available(l)
<1>1. LedgerTyped(l) => LedgerTyped(m)
  BY DEF SameAccount, LedgerTyped
<1>2. \A side : Outstanding(m, side) = Outstanding(l, side)
  BY DEF SameAccount, Outstanding
<1>3. DividendReceivables(m) = DividendReceivables(l) /\ BookTotal(m) = BookTotal(l)
  BY DEF SameAccount, DividendReceivables, BookTotal
<1> QED BY <1>1, <1>2, <1>3 DEF SameAccount, Worth, Available, Payables, Receivables

\* A transaction that balances changes only the journal.
LEMMA PostFacts ==
    ASSUME NEW l, DOMAIN l = Fields, NEW at, NEW postings, Good(Post(l, at, postings))
    PROVE  SameAccount(l, Post(l, at, postings)) /\ Good(l)
<1>1. SumFunction(postings) = 0
  <2>1. Fail(l, "unbalanced").error = "unbalanced"
    BY DEF Fail, Fields
  <2> QED BY <2>1 DEF Post, Good
<1> QED BY <1>1 DEF Post, SameAccount, Good, Fields

(* The figures of a ledger are integers. *)
LEMMA LedgerNumbers ==
    ASSUME NEW l, LedgerTyped(l)
    PROVE  /\ Available(l) \in Int /\ Payables(l) \in Int /\ Receivables(l) \in Int
           /\ DividendReceivables(l) \in Nat /\ BookTotal(l) \in Int /\ l.settled \in Int
           /\ l.realized \in Int /\ l.dividends \in Int
<1>1. l.settled \in Int /\ l.pending \in Seq(Items) /\ l.positions \in [Instruments -> Positions]
      /\ l.realized \in Int /\ l.dividends \in Int
      /\ IsFiniteSet(l.receivables) /\ \A d \in l.receivables : d.amount \in Nat
  BY DEF LedgerTyped
<1>2. Payables(l) \in Int /\ Receivables(l) \in Int
  BY <1>1, OutstandingInt DEF Payables, Receivables
<1>3. DividendReceivables(l) \in Nat /\ BookTotal(l) \in Int
  BY <1>1, DividendsInt, BookInt
<1> QED BY <1>1, <1>2, <1>3 DEF Available

(* A ledger that raised carries its reason. *)
LEMMA FailFacts ==
    ASSUME NEW l, DOMAIN l = Fields, NEW reason
    PROVE  DOMAIN Fail(l, reason) = Fields /\ Fail(l, reason).error = reason
BY DEF Fail, Fields

(* A ledger that reconciles is left as it is and has its payables covered. *)
LEMMA ReconcileFacts ==
    ASSUME NEW l, LedgerTyped(l), Good(Reconcile(l))
    PROVE  Reconcile(l) = l /\ Available(l) >= 0 /\ Good(l)
<1>1. DOMAIN l = Fields /\ Available(l) \in Int
  BY LedgerNumbers DEF LedgerTyped
<1>2. \A reason : Fail(l, reason).error = reason
  BY <1>1, FailFacts
<1> QED BY <1>1, <1>2 DEF Reconcile, Good

(* A snapshot changes nothing. *)
LEMMA CheckedFacts ==
    ASSUME NEW l, LedgerTyped(l), Good(Checked(l))
    PROVE  Checked(l) = l
<1>1. Fail(l, "stale_mark").error = "stale_mark"
  BY FailFacts DEF LedgerTyped
<1> QED BY <1>1, ReconcileFacts DEF Checked, Good

-----------------------------------------------------------------------------
(* Fills. *)
(* From l to m the position in i became p, against an obligation. *)
Trade(l, m, i, p, item) ==
    /\ DOMAIN m = Fields /\ i \in Instruments /\ p \in Positions /\ item \in Items /\ ~item.done
    /\ m.positions = [l.positions EXCEPT ![i] = p] /\ m.pending = Append(l.pending, item)
    /\ m.settled = l.settled /\ m.dividends = l.dividends /\ m.receivables = l.receivables
    /\ m.applied = l.applied
    /\ m.realized = l.realized + (IF item.side = "sell" THEN item.amount ELSE -item.amount)
                        + p.book - l.positions[i].book

(* A trade changes what the account is worth by nothing: its obligation, its cost and its gain
   cancel. *)
LEMMA TradeFacts ==
    ASSUME NEW l, LedgerTyped(l), NEW m, NEW i, NEW p, NEW item, Trade(l, m, i, p, item)
    PROVE  /\ LedgerTyped(m) /\ Worth(m) = Worth(l)
           /\ Available(m) = Available(l) - (IF item.side = "buy" THEN item.amount ELSE 0)
<1>1. /\ l.pending \in Seq(Items) /\ l.positions \in [Instruments -> Positions]
      /\ l.realized \in Int /\ item.amount \in Int /\ item.side \in Sides
      /\ p.book \in Int /\ l.positions[i].book \in Int
  BY DEF LedgerTyped, Items, Positions, Trade
<1>2. LedgerTyped(m)
  <2>1. m.pending \in Seq(Items) /\ m.positions \in [Instruments -> Positions]
    BY <1>1 DEF Trade
  <2>2. m.settled \in Int /\ m.realized \in Int /\ m.dividends \in Int
    BY <1>1 DEF LedgerTyped, Trade
  <2>3. IsFiniteSet(m.receivables)
        /\ \A d \in m.receivables : d.action \in m.applied /\ d.pay \in Nat /\ d.amount \in Nat
    BY DEF LedgerTyped, Trade
  <2> QED BY <2>1, <2>2, <2>3 DEF LedgerTyped, Trade
<1> DEFINE a == IF item.side = "buy" THEN item.amount ELSE 0
           b == IF item.side = "sell" THEN item.amount ELSE 0
<1>a. item \in Items /\ ~item.done /\ m.pending = Append(l.pending, item)
  BY DEF Trade
<1>3. Outstanding(m, "buy") = Outstanding(l, "buy") + a
  BY ONLY <1>a, <1>1, OutstandingAppended
<1>4. Outstanding(m, "sell") = Outstanding(l, "sell") + b
  BY ONLY <1>a, <1>1, OutstandingAppended
<1>b. i \in Instruments /\ p \in Positions /\ m.positions = [l.positions EXCEPT ![i] = p]
  BY DEF Trade
<1>5. BookTotal(m) = BookTotal(l) - l.positions[i].book + p.book
  BY ONLY <1>b, <1>1, BookChanged
<1>6. DividendReceivables(m) = DividendReceivables(l)
  BY DEF DividendReceivables, Trade
<1>7. /\ Outstanding(l, "buy") \in Int /\ Outstanding(l, "sell") \in Int
      /\ BookTotal(l) \in Int /\ DividendReceivables(l) \in Nat
      /\ l.settled \in Int /\ l.dividends \in Int
  BY LedgerNumbers DEF Payables, Receivables
<1>8. /\ m.settled = l.settled /\ m.dividends = l.dividends /\ a \in Int /\ b \in Int
      /\ m.realized = l.realized + (b - a) + p.book - l.positions[i].book
  BY <1>1 DEF Sides, Trade
<1> HIDE DEF a, b
<1>9. Available(m) = Available(l) - a
  BY ONLY <1>3, <1>7, <1>8 DEF Available, Payables
<1>10. Worth(m) = Worth(l)
  <2>1. Worth(l) = l.settled + Outstanding(l, "sell") - Outstanding(l, "buy")
                        + DividendReceivables(l) + BookTotal(l) - l.realized - l.dividends
    BY DEF Worth, Payables, Receivables
  <2>2. Worth(m) = m.settled + Outstanding(m, "sell") - Outstanding(m, "buy")
                        + DividendReceivables(m) + BookTotal(m) - m.realized - m.dividends
    BY DEF Worth, Payables, Receivables
  <2>3. Worth(m) = l.settled + (Outstanding(l, "sell") + b) - (Outstanding(l, "buy") + a)
                      + DividendReceivables(l) + (BookTotal(l) - l.positions[i].book + p.book)
                      - (l.realized + (b - a) + p.book - l.positions[i].book) - l.dividends
    BY ONLY <1>3, <1>4, <1>5, <1>6, <1>8, <2>2
  <2>4. \A s, r, o, d, c, g, v, x, y, u, w \in Int :
          s + (r + w) - (o + u) + d + (c - x + y) - (g + (w - u) + y - x) - v
            = s + r - o + d + c - g - v
    OBVIOUS
  <2> HIDE DEF a, b
  <2>5. /\ l.settled \in Int /\ Outstanding(l, "sell") \in Int /\ Outstanding(l, "buy") \in Int
        /\ DividendReceivables(l) \in Int /\ BookTotal(l) \in Int /\ l.realized \in Int
        /\ l.dividends \in Int /\ l.positions[i].book \in Int /\ p.book \in Int
        /\ a \in Int /\ b \in Int
    BY ONLY <1>1, <1>7, <1>8
  <2> QED BY ONLY <2>1, <2>3, <2>4, <2>5
<1> QED BY ONLY <1>2, <1>9, <1>10 DEF a

(* The position after a trade. *)
LEMMA TradedFacts ==
    ASSUME NEW p \in Positions, NEW quantity \in Nat, NEW cost \in Int, NEW price \in Int
    PROVE  /\ Traded(p, quantity, cost, price) \in Positions
           /\ Traded(p, quantity, cost, price).book = cost
           /\ Traded(p, quantity, cost, price).quantity = quantity
BY DEF Traded, Positions

(* The obligation a fill leaves. *)
Obligation(fill, due, amount) ==
    [id |-> fill.id, due |-> due, side |-> fill.side, amount |-> amount, done |-> FALSE]

(* The shares of instrument i changed by x, and no other. *)
SharesAfter(l, m, i, x) ==
    \A j \in Instruments :
        m.positions[j].quantity = l.positions[j].quantity + (IF j = i THEN x ELSE 0)

(* What a fill adds to the shares. *)
Moved(fill) == IF fill.side = "buy" THEN fill.quantity ELSE -fill.quantity

Spent(fill) == IF fill.side = "buy" THEN fill.price * fill.quantity + fill.fee ELSE 0

(* A purchase: what the shares cost is owed. *)
LEMMA BoughtFacts ==
    ASSUME NEW l, LedgerTyped(l), NEW fill, FillTyped(fill), fill.side = "buy", NEW due \in Nat,
           Good(Bought(l, fill, due))
    PROVE  LET m == Bought(l, fill, due)
           IN /\ LedgerTyped(m) /\ Worth(m) = Worth(l) /\ Available(m) = Available(l) - Spent(fill)
              /\ m.pending = Append(l.pending, Obligation(fill, due, Spent(fill)))
              /\ m.settled = l.settled /\ m.receivables = l.receivables /\ m.applied = l.applied
              /\ SharesAfter(l, m, fill.instrument, fill.quantity)
<1> DEFINE i == fill.instrument
           p == l.positions[i]
           total == fill.price * fill.quantity + fill.fee
           q == Traded(p, p.quantity + fill.quantity, p.book + total, fill.price)
           item == Obligation(fill, due, total)
           n == [l EXCEPT
               !.positions[i] = q,
               !.fees = @ + fill.fee, !.filledFees = @ + fill.fee,
               !.taxes = @ + fill.tax,
               !.pending = Owed(l, fill, due, total)]
           m == Bought(l, fill, due)
<1>1. /\ i \in Instruments /\ fill.quantity \in Nat /\ fill.price \in Nat /\ fill.fee \in Nat
      /\ fill.id \in OrderIds /\ fill.side \in Sides
  BY DEF FillTyped
<1>2. total \in Nat
  BY <1>1
<1>3. DOMAIN l = Fields /\ l.positions \in [Instruments -> Positions] /\ l.realized \in Int
  BY DEF LedgerTyped
<1>4. p \in Positions /\ p.quantity \in Nat /\ p.book \in Int
  BY <1>1, <1>3 DEF Positions
<1> HIDE DEF total
<1>5. q \in Positions /\ q.book = p.book + total /\ q.quantity = p.quantity + fill.quantity
  <2>1. p.quantity + fill.quantity \in Nat /\ p.book + total \in Int /\ fill.price \in Int
    BY ONLY <1>1, <1>2, <1>4
  <2> HIDE DEF p
  <2> QED BY <1>4, <2>1, TradedFacts DEF q
<1>6. item \in Items /\ ~item.done /\ item.side = "buy" /\ item.amount = total
  BY <1>1, <1>2 DEF Obligation, Items
<1> HIDE DEF q, item
<1>7. /\ DOMAIN n = Fields /\ n.positions = [l.positions EXCEPT ![i] = q]
      /\ n.settled = l.settled /\ n.dividends = l.dividends /\ n.receivables = l.receivables
      /\ n.applied = l.applied /\ n.realized = l.realized
  BY <1>3 DEF Fields
<1>8. n.pending = Append(l.pending, item)
  BY <1>3 DEF Fields, Owed, item, Obligation
<1>9. m = Post(n, fill.at, WithInventory(i, total, [settlement_payable |-> -total]))
  BY DEF Bought, q, total
<1> HIDE DEF n, m, p, i
<1>10. Trade(l, n, i, q, item)
  BY <1>1, <1>2, <1>3, <1>4, <1>5, <1>6, <1>7, <1>8 DEF Trade, p
<1>11. LedgerTyped(n) /\ Worth(n) = Worth(l) /\ Available(n) = Available(l) - total
  BY <1>6, <1>10, TradeFacts
<1>12. SameAccount(n, m)
  BY <1>7, <1>9, PostFacts DEF m
<1>13. /\ LedgerTyped(m) /\ Worth(m) = Worth(l) /\ Available(m) = Available(l) - total
       /\ m.pending = Append(l.pending, item)
       /\ m.settled = l.settled /\ m.receivables = l.receivables /\ m.applied = l.applied
  BY <1>7, <1>8, <1>11, <1>12, SameAccountFacts DEF SameAccount
<1>14. Spent(fill) = total
  BY DEF Spent, total
<1>15. SharesAfter(l, n, i, fill.quantity)
  BY <1>1, <1>3, <1>4, <1>5, <1>7 DEF SharesAfter, p, Positions
<1>16. SharesAfter(l, m, fill.instrument, fill.quantity)
  BY <1>12, <1>15 DEF SameAccount, SharesAfter, i
<1> QED BY <1>13, <1>14, <1>16 DEF m, item

\* What a sale realizes is what it brings in after costs, less the cost of the shares.
Proceeds(fill) == fill.price * fill.quantity - fill.fee - fill.tax

Owing(fill) == IF fill.side = "buy" THEN fill.price * fill.quantity + fill.fee ELSE Proceeds(fill)

(* A sale: the proceeds are owed to the account, the gain is what they exceed the cost by. *)
LEMMA SoldFacts ==
    ASSUME NEW l, LedgerTyped(l), NEW fill, FillTyped(fill), fill.side = "sell", NEW due \in Nat,
           fill.quantity <= l.positions[fill.instrument].quantity,
           Good(Sold(l, fill, due))
    PROVE  LET m == Sold(l, fill, due)
           IN /\ LedgerTyped(m) /\ Worth(m) = Worth(l) /\ Available(m) = Available(l)
              /\ m.pending = Append(l.pending, Obligation(fill, due, Proceeds(fill)))
              /\ m.settled = l.settled /\ m.receivables = l.receivables /\ m.applied = l.applied
              /\ SharesAfter(l, m, fill.instrument, -fill.quantity)
<1> DEFINE i == fill.instrument
           p == l.positions[i]
           gross == fill.price * fill.quantity
           net == gross - fill.fee - fill.tax
           cost == IF fill.quantity = p.quantity THEN p.book
                   ELSE RoundHalfEven(p.book * fill.quantity, p.quantity)
           q == Traded(p, p.quantity - fill.quantity, p.book - cost, fill.price)
           item == Obligation(fill, due, net)
           n == [l EXCEPT
               !.positions[i] = q,
               !.realized = @ + Gain(net, cost), !.filledGain = @ + Gain(net, cost),
               !.fees = @ + fill.fee, !.filledFees = @ + fill.fee,
               !.taxes = @ + fill.tax,
               !.pending = Owed(l, fill, due, net)]
           m == Sold(l, fill, due)
<1>1. /\ i \in Instruments /\ fill.quantity \in Nat \ {0} /\ fill.price \in Nat /\ fill.fee \in Nat
      /\ fill.id \in OrderIds /\ fill.side \in Sides /\ fill.tax \in Nat
  BY DEF FillTyped
<1>2. net \in Int
  BY <1>1
<1>3. DOMAIN l = Fields /\ l.positions \in [Instruments -> Positions] /\ l.realized \in Int
  BY DEF LedgerTyped
<1>4. p \in Positions /\ p.quantity \in Nat \ {0} /\ p.book \in Int /\ p.quantity - fill.quantity \in Nat
  BY <1>1, <1>3 DEF Positions
<1> HIDE DEF net
<1>5. cost \in Int
  <2>1. p.book * fill.quantity \in Int
    BY <1>1, <1>4
  <2> QED BY <1>4, <2>1, RoundHalfEvenFacts
<1> HIDE DEF cost
<1>6. q \in Positions /\ q.book = p.book - cost /\ q.quantity = p.quantity - fill.quantity
  <2>1. p.book - cost \in Int /\ fill.price \in Int
    BY ONLY <1>1, <1>4, <1>5
  <2> HIDE DEF p
  <2> QED BY <1>4, <2>1, TradedFacts DEF q
<1>7. item \in Items /\ ~item.done /\ item.side = "sell" /\ item.amount = net
  BY <1>1, <1>2 DEF Obligation, Items
<1> HIDE DEF q, item
<1>8. /\ DOMAIN n = Fields /\ n.positions = [l.positions EXCEPT ![i] = q]
      /\ n.settled = l.settled /\ n.dividends = l.dividends /\ n.receivables = l.receivables
      /\ n.applied = l.applied /\ n.realized = l.realized + (net - cost)
  BY <1>3 DEF Fields, Gain
<1>9. n.pending = Append(l.pending, item)
  BY <1>3 DEF Fields, Owed, item, Obligation
<1>10. m = Post(n, fill.at,
               WithInventory(i, -cost,
                   [cost_of_sales |-> cost, settlement_receivable |-> net, sale_proceeds |-> -gross,
                    commission_expense |-> fill.fee, transaction_tax_expense |-> fill.tax]))
  BY DEF Sold, q, cost, net
<1> HIDE DEF n, m, p, i
<1>11. n.realized = l.realized + (IF item.side = "sell" THEN item.amount ELSE -item.amount)
                        + q.book - l.positions[i].book
  BY <1>2, <1>3, <1>4, <1>5, <1>6, <1>7, <1>8 DEF p
<1>12. Trade(l, n, i, q, item)
  BY <1>1, <1>6, <1>7, <1>8, <1>9, <1>11 DEF Trade
<1>13. Available(l) \in Int
  BY LedgerNumbers
<1>14. LedgerTyped(n) /\ Worth(n) = Worth(l) /\ Available(n) = Available(l)
  BY <1>7, <1>12, <1>13, TradeFacts
<1>15. SameAccount(n, m)
  BY <1>8, <1>10, PostFacts DEF m
<1>16. /\ LedgerTyped(m) /\ Worth(m) = Worth(l) /\ Available(m) = Available(l)
       /\ m.pending = Append(l.pending, item)
       /\ m.settled = l.settled /\ m.receivables = l.receivables /\ m.applied = l.applied
  BY <1>8, <1>9, <1>14, <1>15, SameAccountFacts DEF SameAccount
<1>17. Proceeds(fill) = net
  BY DEF Proceeds, net
<1>18. SharesAfter(l, n, i, -fill.quantity)
  BY <1>1, <1>3, <1>4, <1>6, <1>8 DEF SharesAfter, p, Positions
<1>19. SharesAfter(l, m, fill.instrument, -fill.quantity)
  BY <1>15, <1>18 DEF SameAccount, SharesAfter, i
<1> QED BY <1>16, <1>17, <1>19 DEF m, item

(* A due date within the calendar. *)
LEMMA DueDateFacts ==
    ASSUME NEW date \in Nat, NEW horizon \in Nat, DueDate(date, horizon) # 0
    PROVE  DueDate(date, horizon) = date + SettlementLag /\ date + SettlementLag \in Nat
           /\ date + SettlementLag <= horizon
BY PolicyAssumption DEF DueDate

(* apply_fill: the account is worth the same, and a purchase takes its cost from the cash
   available. *)
LEMMA FillFacts ==
    ASSUME NEW l, LedgerTyped(l), NEW fill, FillTyped(fill), NEW date \in Nat, NEW horizon \in Nat,
           Good(ApplyFill(l, fill, date, horizon))
    PROVE  LET m == ApplyFill(l, fill, date, horizon)
           IN /\ LedgerTyped(m) /\ Worth(m) = Worth(l)
              /\ Available(m) = Available(l) - Spent(fill) /\ Available(m) >= 0
              /\ m.pending = Append(l.pending, Obligation(fill, date + SettlementLag, Owing(fill)))
              /\ m.settled = l.settled /\ m.receivables = l.receivables /\ m.applied = l.applied
              /\ SharesAfter(l, m, fill.instrument, Moved(fill))
<1> DEFINE m == ApplyFill(l, fill, date, horizon)
           due == DueDate(date, horizon)
           i == fill.instrument
<1>1. \A reason : DOMAIN l = Fields /\ Fail(l, reason).error = reason
  BY FailFacts DEF LedgerTyped
<1>2. i \in Instruments /\ fill.quantity \in Nat \ {0} /\ fill.side \in Sides
      /\ l.positions \in [Instruments -> Positions] /\ l.positions[i].quantity \in Nat
  BY DEF FillTyped, LedgerTyped, Positions
<1>3. CASE fill.side = "buy"
  <2>1. due # 0 /\ m = Reconcile(Bought(l, fill, due))
    BY <1>1, <1>2, <1>3 DEF ApplyFill, Good
  <2>2. due \in Nat /\ due = date + SettlementLag
    BY <2>1, DueDateFacts
  <2>3. Good(m)
    OBVIOUS
  <2> HIDE DEF m, due
  <2> DEFINE n == Bought(l, fill, due)
  <2>4. Good(n)
    BY <2>1, <2>3 DEF Reconcile, Good
  <2>5. /\ LedgerTyped(n) /\ Worth(n) = Worth(l) /\ Available(n) = Available(l) - Spent(fill)
        /\ n.pending = Append(l.pending, Obligation(fill, due, Spent(fill)))
        /\ n.settled = l.settled /\ n.receivables = l.receivables /\ n.applied = l.applied
        /\ SharesAfter(l, n, i, fill.quantity)
    BY <1>3, <2>2, <2>4, BoughtFacts
  <2> HIDE DEF n
  <2>6. m = n /\ Available(n) >= 0
    BY <2>1, <2>3, <2>5, ReconcileFacts DEF n
  <2>7. Owing(fill) = Spent(fill) /\ Moved(fill) = fill.quantity
    BY <1>3 DEF Owing, Spent, Moved
  <2> QED BY <2>2, <2>5, <2>6, <2>7 DEF m
<1>4. CASE fill.side = "sell"
  <2>1. due # 0 /\ m = Reconcile(Sold(l, fill, due)) /\ ~(fill.quantity > l.positions[i].quantity)
    BY <1>1, <1>2, <1>4 DEF ApplyFill, Good
  <2>2. due \in Nat /\ due = date + SettlementLag
    BY <2>1, DueDateFacts
  <2>3. Good(m) /\ fill.quantity <= l.positions[fill.instrument].quantity
    BY <1>2, <2>1
  <2> HIDE DEF m, due
  <2> DEFINE n == Sold(l, fill, due)
  <2>4. Good(n)
    BY <2>1, <2>3 DEF Reconcile, Good
  <2>5. /\ LedgerTyped(n) /\ Worth(n) = Worth(l) /\ Available(n) = Available(l)
        /\ n.pending = Append(l.pending, Obligation(fill, due, Proceeds(fill)))
        /\ n.settled = l.settled /\ n.receivables = l.receivables /\ n.applied = l.applied
        /\ SharesAfter(l, n, i, -fill.quantity)
    BY <1>4, <2>2, <2>3, <2>4, SoldFacts
  <2> HIDE DEF n
  <2>6. m = n /\ Available(n) >= 0
    BY <2>1, <2>3, <2>5, ReconcileFacts DEF n
  <2>7. /\ Owing(fill) = Proceeds(fill) /\ Spent(fill) = 0 /\ Moved(fill) = -fill.quantity
        /\ Available(l) \in Int
    BY <1>4, LedgerNumbers DEF Owing, Spent, Moved
  <2> QED BY <2>2, <2>5, <2>6, <2>7 DEF m
<1> QED BY <1>2, <1>3, <1>4 DEF Sides

-----------------------------------------------------------------------------
(* Settlements. *)
SalesPayIn(l) == \A k \in DOMAIN l.pending : l.pending[k].amount >= 0

(* The ledger after settlements: the same obligations, some of them done by now. *)
SettledFrom(l, m) ==
    /\ LedgerTyped(m) /\ Worth(m) = Worth(l) /\ DOMAIN m.pending = DOMAIN l.pending
    /\ \A k \in DOMAIN l.pending :
        /\ m.pending[k].due = l.pending[k].due /\ m.pending[k].amount = l.pending[k].amount
        /\ m.pending[k].id = l.pending[k].id
        /\ l.pending[k].done => m.pending[k].done
    /\ m.applied = l.applied /\ m.positions = l.positions
    /\ SalesPayIn(l) => Available(m) >= Available(l)

(* An element of a sequence replaced. *)
LEMMA SeqExcept ==
    ASSUME NEW S, NEW s \in Seq(S), NEW k \in DOMAIN s, NEW e \in S
    PROVE  [s EXCEPT ![k] = e] \in Seq(S)
OBVIOUS

(* No settlement at all. *)
LEMMA SettledFromItself ==
    ASSUME NEW l, LedgerTyped(l)
    PROVE  SettledFrom(l, l)
BY LedgerNumbers DEF SettledFrom

(* One settlement after another. *)
LEMMA SettledFromTwice ==
    ASSUME NEW l, NEW m, NEW n, LedgerTyped(l), SettledFrom(l, m), SettledFrom(m, n)
    PROVE  SettledFrom(l, n)
<1>1. Available(l) \in Int /\ Available(m) \in Int /\ Available(n) \in Int
  BY LedgerNumbers DEF SettledFrom
<1>2. SalesPayIn(l) => SalesPayIn(m)
  BY DEF SettledFrom, SalesPayIn
<1> QED BY <1>1, <1>2 DEF SettledFrom

(* One pass of the loop of process_settlements over an obligation. *)
LEMMA SettleOneFacts ==
    ASSUME NEW l, LedgerTyped(l), NEW k \in DOMAIN l.pending, NEW date \in Nat, NEW at,
           Good(SettleOne(l, k, date, at))
    PROVE  LET m == SettleOne(l, k, date, at)
           IN /\ SettledFrom(l, m) /\ m.receivables = l.receivables /\ Good(l)
              /\ m.pending[k].done \/ m.pending[k].due > date
              /\ \A j \in DOMAIN l.pending : j # k => m.pending[j] = l.pending[j]
<1> DEFINE m == SettleOne(l, k, date, at)
           item == l.pending[k]
           gain == IF item.side = "sell" THEN item.amount ELSE -item.amount
           n == [l EXCEPT !.settled = @ + gain, !.pending[k].done = TRUE]
<1>1. /\ DOMAIN l = Fields /\ l.pending \in Seq(Items) /\ l.settled \in Int
      /\ IsFiniteSet(DOMAIN l.pending)
      /\ item \in Items /\ item.amount \in Int /\ item.due \in Nat /\ item.side \in Sides
      /\ item.done \in BOOLEAN
  BY PendingFacts DEF LedgerTyped
<1>2. Fail(l, "payable_exceeds_cash").error = "payable_exceeds_cash"
  BY <1>1, FailFacts
<1>3. CASE ~Good(l) \/ ~IsDue(item, date)
  <2>1. m = l
    BY <1>3 DEF SettleOne
  <2>2. Good(l)
    BY <2>1
  <2>3. item.done \/ item.due > date
    BY <1>1, <1>3, <2>2 DEF IsDue
  <2> QED BY <2>1, <2>2, <2>3, SettledFromItself
<1>4. CASE Good(l) /\ IsDue(item, date)
  <2>1. ~item.done
    BY <1>4 DEF IsDue
  <2>2. \E postings : m = Post(n, at, postings)
    <3>1. CASE item.side = "buy"
      <4>1. m = Post([l EXCEPT !.settled = @ - item.amount, !.pending[k].done = TRUE],
                     at, [settlement_payable |-> item.amount, cash |-> -item.amount])
        BY <1>2, <1>4, <3>1 DEF SettleOne, Good
      <4>2. l.settled - item.amount = l.settled + gain
        BY <1>1, <3>1
      <4> HIDE DEF m, gain, item
      <4> QED BY <4>1, <4>2
    <3>2. CASE item.side = "sell"
      <4>1. m = Post([l EXCEPT !.settled = @ + item.amount, !.pending[k].done = TRUE],
                     at, [cash |-> item.amount, settlement_receivable |-> -item.amount])
        BY <1>4, <3>2 DEF SettleOne
      <4>2. item.amount = gain
        BY <3>2
      <4> HIDE DEF m, gain, item
      <4> QED BY <4>1, <4>2
    <3> QED BY <1>1, <3>1, <3>2 DEF Sides
  <2>3. Good(m)
    OBVIOUS
  <2> HIDE DEF m
  <2>4. /\ DOMAIN n = Fields /\ n.settled = l.settled + gain
        /\ n.pending = [l.pending EXCEPT ![k].done = TRUE]
        /\ n.positions = l.positions /\ n.receivables = l.receivables /\ n.applied = l.applied
        /\ n.realized = l.realized /\ n.dividends = l.dividends
    BY <1>1 DEF Fields
  <2> HIDE DEF n
  <2>5. SameAccount(n, m)
    BY <2>2, <2>3, <2>4, PostFacts
  <2>6. /\ Outstanding(n, "buy") = Outstanding(l, "buy") - (IF item.side = "buy" THEN item.amount ELSE 0)
        /\ Outstanding(n, "sell") = Outstanding(l, "sell") - (IF item.side = "sell" THEN item.amount ELSE 0)
    <3>1. l.pending \in Seq(Items) /\ k \in DOMAIN l.pending /\ ~l.pending[k].done
          /\ n.pending = [l.pending EXCEPT ![k].done = TRUE]
      BY <1>1, <2>1, <2>4
    <3> QED BY ONLY <3>1, OutstandingSettled DEF item
  <2>7. DividendReceivables(n) = DividendReceivables(l) /\ BookTotal(n) = BookTotal(l)
    BY <2>4 DEF DividendReceivables, BookTotal
  <2>8. /\ n.pending[k] = [item EXCEPT !.done = TRUE]
        /\ \A j \in DOMAIN l.pending : j # k => n.pending[j] = l.pending[j]
        /\ DOMAIN n.pending = DOMAIN l.pending
    BY <1>1, <2>4
  <2>9. n.pending[k] \in Items /\ n.pending[k].done /\ n.pending[k].due = item.due
        /\ n.pending[k].amount = item.amount /\ n.pending[k].id = item.id
    BY <1>1, <2>8 DEF Items
  <2>10. n.pending \in Seq(Items)
    <3>1. n.pending = [l.pending EXCEPT ![k] = n.pending[k]]
      BY <1>1, <2>4, <2>8
    <3> QED BY <1>1, <2>9, <3>1, SeqExcept
  <2>11. LedgerTyped(n)
    <3>1. gain \in Int
      BY <1>1
    <3>2. n.settled \in Int
      BY <1>1, <2>4, <3>1
    <3>a. n.realized \in Int /\ n.dividends \in Int
      BY <2>4 DEF LedgerTyped
    <3>3. /\ n.positions \in [Instruments -> Positions] /\ IsFiniteSet(n.receivables)
          /\ \A d \in n.receivables : d.action \in n.applied /\ d.pay \in Nat /\ d.amount \in Nat
      BY <2>4 DEF LedgerTyped
    <3> QED BY <2>4, <2>10, <3>2, <3>a, <3>3 DEF LedgerTyped
  <2>12. /\ Outstanding(l, "buy") \in Int /\ Outstanding(l, "sell") \in Int
         /\ DividendReceivables(l) \in Int /\ BookTotal(l) \in Int
         /\ l.settled \in Int /\ l.dividends \in Int /\ l.realized \in Int
    BY LedgerNumbers DEF Payables, Receivables
  <2>13. Worth(n) = Worth(l)
    <3>1. Worth(l) = l.settled + Outstanding(l, "sell") - Outstanding(l, "buy")
                        + DividendReceivables(l) + BookTotal(l) - l.realized - l.dividends
      BY DEF Worth, Payables, Receivables
    <3>2. Worth(n) = n.settled + Outstanding(n, "sell") - Outstanding(n, "buy")
                        + DividendReceivables(n) + BookTotal(n) - n.realized - n.dividends
      BY DEF Worth, Payables, Receivables
    <3>3. \A a, s, r, o, d, c, g, v \in Int :
            /\ (s + a) + (r - a) - o + d + c - g - v = s + r - o + d + c - g - v
            /\ (s + -a) + r - (o - a) + d + c - g - v = s + r - o + d + c - g - v
      OBVIOUS
    <3>4. CASE item.side = "buy"
      <4>1. /\ n.settled = l.settled + -item.amount
            /\ Outstanding(n, "buy") = Outstanding(l, "buy") - item.amount
            /\ Outstanding(n, "sell") = Outstanding(l, "sell")
        BY <2>4, <2>6, <2>12, <3>4
      <4>2. Worth(n) = (l.settled + -item.amount) + Outstanding(l, "sell")
                         - (Outstanding(l, "buy") - item.amount)
                        + DividendReceivables(l) + BookTotal(l) - l.realized - l.dividends
        BY ONLY <2>4, <2>7, <3>2, <4>1
      <4>3. item.amount \in Int
        BY <1>1
      <4> QED BY ONLY <2>12, <3>1, <3>3, <4>2, <4>3
    <3>5. CASE item.side = "sell"
      <4>1. /\ n.settled = l.settled + item.amount
            /\ Outstanding(n, "buy") = Outstanding(l, "buy")
            /\ Outstanding(n, "sell") = Outstanding(l, "sell") - item.amount
        BY <2>4, <2>6, <2>12, <3>5
      <4>2. Worth(n) = (l.settled + item.amount) + (Outstanding(l, "sell") - item.amount)
                         - Outstanding(l, "buy")
                        + DividendReceivables(l) + BookTotal(l) - l.realized - l.dividends
        BY ONLY <2>4, <2>7, <3>2, <4>1
      <4>3. item.amount \in Int
        BY <1>1
      <4> QED BY ONLY <2>12, <3>1, <3>3, <4>2, <4>3
    <3> QED BY <1>1, <3>4, <3>5 DEF Sides
  <2>14. SalesPayIn(l) => Available(n) >= Available(l)
    <3>1. SalesPayIn(l) => item.amount >= 0
      BY DEF SalesPayIn
    <3>2. CASE item.side = "buy"
      <4>1. n.settled = l.settled - item.amount /\ Payables(n) = Payables(l) - item.amount
        BY <1>1, <2>4, <2>6, <2>12, <3>2 DEF Payables
      <4> QED BY <1>1, <2>12, <4>1 DEF Available, Payables
    <3>3. CASE item.side = "sell"
      <4>1. n.settled = l.settled + item.amount /\ Payables(n) = Payables(l)
        BY <1>1, <2>4, <2>6, <2>12, <3>3 DEF Payables
      <4> QED BY <1>1, <2>12, <3>1, <4>1 DEF Available, Payables
    <3> QED BY <1>1, <3>2, <3>3 DEF Sides
  <2>15. SettledFrom(l, n)
    BY <2>4, <2>8, <2>9, <2>11, <2>13, <2>14 DEF SettledFrom
  <2>16. SettledFrom(l, m)
    BY <2>5, <2>15, SameAccountFacts DEF SettledFrom, SameAccount
  <2> QED BY <1>4, <2>4, <2>5, <2>8, <2>9, <2>16 DEF SameAccount, m
<1> QED BY <1>3, <1>4

\* The ledgers between the settlements of the first n obligations.
Settles(f, l, n, date, at) ==
    f = [k \in 0 .. n |-> IF k = 0 THEN l ELSE SettleOne(f[k - 1], k, date, at)]

(* The passes of the loop are a function of the index. *)
LEMMA SettlesExist ==
    ASSUME NEW l, NEW date, NEW at, NEW n \in Nat
    PROVE  \E f : Settles(f, l, n, date, at)
<1> DEFINE bad == {k \in Nat : ~\E f : Settles(f, l, k, date, at)}
<1> SUFFICES ASSUME bad # {} PROVE FALSE
  OBVIOUS
<1>1. PICK k \in bad : \A j \in bad : k <= j
  BY LeastNumber
<1>2. CASE k = 0
  <2> DEFINE f == [j \in 0 .. 0 |-> l]
  <2>1. f = [j \in 0 .. 0 |-> IF j = 0 THEN l ELSE SettleOne(f[j - 1], j, date, at)]
    OBVIOUS
  <2> HIDE DEF f
  <2>2. Settles(f, l, k, date, at)
    BY <1>2, <2>1 DEF Settles
  <2> QED BY <2>2
<1>3. CASE k # 0
  <2>1. k - 1 \in Nat /\ k - 1 \notin bad
    BY <1>1, <1>3
  <2>2. PICK g : Settles(g, l, k - 1, date, at)
    BY <2>1
  <2> DEFINE f == [j \in 0 .. k |-> IF j = k THEN SettleOne(g[k - 1], k, date, at) ELSE g[j]]
  <2>3. \A j \in 0 .. k - 1 : g[j] = IF j = 0 THEN l ELSE SettleOne(g[j - 1], j, date, at)
    BY <2>2, Zenon DEF Settles
  <2>4. \A j \in 0 .. k : f[j] = IF j = 0 THEN l ELSE SettleOne(f[j - 1], j, date, at)
    <3> SUFFICES ASSUME NEW j \in 0 .. k
                 PROVE  f[j] = IF j = 0 THEN l ELSE SettleOne(f[j - 1], j, date, at)
      OBVIOUS
    <3>1. CASE j = k
      <4>1. f[j] = SettleOne(g[k - 1], k, date, at) /\ f[j - 1] = g[k - 1]
        BY <1>1, <1>3, <3>1
      <4> HIDE DEF f
      <4> QED BY <1>3, <3>1, <4>1
    <3>2. CASE j # k
      <4>1. j \in 0 .. k - 1 /\ f[j] = g[j]
        BY <1>1, <3>2
      <4>2. j # 0 => f[j - 1] = g[j - 1]
        BY <1>1, <4>1
      <4> HIDE DEF f
      <4> QED BY <2>3, <4>1, <4>2
    <3> QED BY <3>1, <3>2
  <2>5. DOMAIN f = 0 .. k /\ f = [j \in DOMAIN f |-> f[j]]
    OBVIOUS
  <2> HIDE DEF f
  <2>6. Settles(f, l, k, date, at)
    BY <2>4, <2>5 DEF Settles
  <2> QED BY <2>6
<1> QED BY <1>2, <1>3

(* All obligations that are due are settled, and no other. *)
LEMMA SettleTradesFacts ==
    ASSUME NEW l, LedgerTyped(l), NEW date \in Nat, NEW at, Good(SettleTrades(l, date, at))
    PROVE  LET m == SettleTrades(l, date, at)
           IN /\ SettledFrom(l, m) /\ m.receivables = l.receivables /\ Good(l)
              /\ \A k \in DOMAIN l.pending : m.pending[k].done \/ m.pending[k].due > date
<1> DEFINE n == Len(l.pending)
           f == CHOOSE f : Settles(f, l, n, date, at)
           Done(k) == /\ SettledFrom(l, f[k]) /\ f[k].receivables = l.receivables /\ Good(l)
                      /\ \A j \in DOMAIN l.pending :
                            j <= k => f[k].pending[j].done \/ f[k].pending[j].due > date
           bad == {k \in 0 .. n : Good(f[k]) /\ ~Done(k)}
<1>1. n \in Nat /\ DOMAIN l.pending = 1 .. n /\ l.pending \in Seq(Items)
  BY PendingFacts DEF LedgerTyped
<1>2. Settles(f, l, n, date, at)
  BY <1>1, SettlesExist
<1>3. SettleTrades(l, date, at) = f[n]
  BY DEF SettleTrades, Settles
<1> HIDE DEF f
<1>4. \A k \in 0 .. n : f[k] = IF k = 0 THEN l ELSE SettleOne(f[k - 1], k, date, at)
  BY <1>2, Zenon DEF Settles
<1>5. bad = {}
  <2> SUFFICES ASSUME bad # {} PROVE FALSE
    OBVIOUS
  <2>1. bad \subseteq Nat
    BY <1>1
  <2>2. PICK k \in bad : \A j \in bad : k <= j
    BY <2>1, LeastNumber
  <2>3. CASE k = 0
    <3>1. f[k] = l
      BY <1>1, <1>4, <2>3
    <3>2. \A j \in DOMAIN l.pending : ~(j <= k)
      BY <1>1, <2>3
    <3> QED BY <2>2, <3>1, <3>2, SettledFromItself
  <2>4. CASE k # 0
    <3>1. k \in DOMAIN l.pending /\ k - 1 \in 0 .. n /\ f[k] = SettleOne(f[k - 1], k, date, at)
      BY <1>1, <1>4, <2>2, <2>4
    <3>2. k - 1 \notin bad
      BY <1>1, <2>2, <2>4
    <3>3. Good(f[k - 1])
      <4>1. Good(f[k]) /\ (~Good(f[k - 1]) => f[k] = f[k - 1])
        BY <2>2, <3>1 DEF SettleOne
      <4> QED BY <4>1
    <3>4. Done(k - 1)
      BY <3>1, <3>2, <3>3
    <3> DEFINE g == f[k - 1]
    <3>5. LedgerTyped(g) /\ k \in DOMAIN g.pending /\ DOMAIN g.pending = DOMAIN l.pending
      BY <3>1, <3>4 DEF SettledFrom
    <3>6. g.receivables = l.receivables /\ SettledFrom(l, g) /\ Good(l)
      BY <3>4
    <3>7. \A j \in DOMAIN l.pending : j <= k - 1 => g.pending[j].done \/ g.pending[j].due > date
      BY <3>4
    <3>8. Good(f[k]) /\ f[k] = SettleOne(g, k, date, at)
      BY <2>2, <3>1
    <3> HIDE DEF g
    <3>9. /\ SettledFrom(g, f[k]) /\ f[k].receivables = g.receivables
          /\ f[k].pending[k].done \/ f[k].pending[k].due > date
          /\ \A j \in DOMAIN g.pending : j # k => f[k].pending[j] = g.pending[j]
      BY <3>5, <3>8, SettleOneFacts
    <3>10. SettledFrom(l, f[k])
      BY <3>6, <3>9, SettledFromTwice
    <3>11. \A j \in DOMAIN l.pending : j <= k => f[k].pending[j].done \/ f[k].pending[j].due > date
      <4> SUFFICES ASSUME NEW j \in DOMAIN l.pending, j <= k
                   PROVE  f[k].pending[j].done \/ f[k].pending[j].due > date
        OBVIOUS
      <4>1. CASE j = k
        BY <3>9, <4>1
      <4>2. CASE j # k
        <5>1. j <= k - 1
          BY <1>1, <2>2, <4>2
        <5> QED BY <3>5, <3>7, <3>9, <4>2, <5>1
      <4> QED BY <4>1, <4>2
    <3> QED BY <2>2, <3>6, <3>9, <3>10, <3>11
  <2> QED BY <2>3, <2>4
<1>6. Done(n)
  BY <1>1, <1>3, <1>5
<1> QED BY <1>1, <1>3, <1>6

(* _pay_dividends: what was receivable becomes cash. *)
LEMMA PayDividendsFacts ==
    ASSUME NEW l, LedgerTyped(l), NEW date \in Nat, NEW at, Good(PayDividends(l, date, at))
    PROVE  LET m == PayDividends(l, date, at)
           IN /\ SettledFrom(l, m) /\ m.pending = l.pending
              /\ m.receivables = {d \in l.receivables : d.pay > date}
<1> DEFINE m == PayDividends(l, date, at)
           due == {d \in l.receivables : d.pay <= date}
           rest == l.receivables \ due
           f == [d \in l.receivables |-> d.amount]
           g == [d \in due |-> d.amount]
           h == [d \in rest |-> d.amount]
           amount == SumFunction(g)
           n == [l EXCEPT !.settled = @ + amount, !.receivables = @ \ due]
<1>1. /\ DOMAIN l = Fields /\ l.settled \in Int /\ IsFiniteSet(l.receivables)
      /\ \A d \in l.receivables : d.pay \in Nat /\ d.amount \in Nat
  BY DEF LedgerTyped
<1>2. rest = {d \in l.receivables : d.pay > date}
  BY <1>1
<1>3. due \subseteq l.receivables /\ IsFiniteSet(due) /\ IsFiniteSet(rest)
  BY <1>1, FS_Subset
<1>4. DividendReceivables(l) = amount + SumFunction(h) /\ amount \in Nat /\ SumFunction(h) \in Nat
  <2>1. \A d \in l.receivables : f[d] \in Int
    BY <1>1
  <2>2. \A d \in due : g[d] = f[d] /\ g[d] \in Nat
    BY <1>1
  <2>3. \A d \in rest : h[d] = f[d] /\ h[d] \in Nat
    BY <1>1
  <2>4. DOMAIN f = l.receivables /\ DOMAIN g = due /\ DOMAIN h = rest /\ rest = l.receivables \ due
    OBVIOUS
  <2>5. DividendReceivables(l) = SumFunction(f)
    BY DEF DividendReceivables
  <2> HIDE DEF f, g, h, due, rest
  <2>6. SumFunctionOnSet(f, l.receivables) = SumFunctionOnSet(f, due) + SumFunctionOnSet(f, rest)
    BY <1>1, <1>3, <2>1, <2>4, SumSplit
  <2>7. SumFunctionOnSet(g, due) = SumFunctionOnSet(f, due) /\ SumFunctionOnSet(g, due) \in Nat
    BY <1>3, <2>2, SumAgrees, SumNat
  <2>8. SumFunctionOnSet(h, rest) = SumFunctionOnSet(f, rest) /\ SumFunctionOnSet(h, rest) \in Nat
    BY <1>3, <2>3, SumAgrees, SumNat
  <2> QED BY <2>4, <2>5, <2>6, <2>7, <2>8 DEF SumFunction
<1>5. CASE ~Good(l) \/ due = {}
  <2>1. m = l
    BY <1>5 DEF PayDividends
  <2>2. due = {}
    BY <1>5, <2>1
  <2>3. rest = l.receivables
    BY <2>2
  <2> QED BY <1>2, <2>1, <2>3, SettledFromItself
<1>6. CASE Good(l) /\ due # {}
  <2>1. m = Post(n, at, [cash |-> amount, dividend_receivable |-> -amount]) /\ Good(m)
    BY <1>6 DEF PayDividends
  <2> HIDE DEF m, amount
  <2>2. /\ DOMAIN n = Fields /\ n.settled = l.settled + amount /\ n.receivables = rest
        /\ n.pending = l.pending
        /\ n.positions = l.positions /\ n.applied = l.applied
        /\ n.realized = l.realized /\ n.dividends = l.dividends
    BY <1>1 DEF Fields
  <2> HIDE DEF n
  <2>3. SameAccount(n, m)
    BY <2>1, <2>2, PostFacts
  <2>4. LedgerTyped(n)
    BY <1>1, <1>3, <1>4, <2>2 DEF LedgerTyped
  <2>5. /\ Outstanding(n, "buy") = Outstanding(l, "buy")
        /\ Outstanding(n, "sell") = Outstanding(l, "sell")
        /\ BookTotal(n) = BookTotal(l)
    BY <2>2 DEF Outstanding, BookTotal
  <2>6. DividendReceivables(n) = SumFunction(h)
    BY <2>2 DEF DividendReceivables
  <2>7. /\ Outstanding(l, "buy") \in Int /\ Outstanding(l, "sell") \in Int
        /\ BookTotal(l) \in Int /\ l.settled \in Int /\ l.dividends \in Int /\ l.realized \in Int
    BY LedgerNumbers DEF Payables, Receivables
  <2> HIDE DEF h
  <2>8. Worth(n) = Worth(l)
    <3>1. Worth(l) = l.settled + Outstanding(l, "sell") - Outstanding(l, "buy")
                        + (amount + SumFunction(h)) + BookTotal(l) - l.realized - l.dividends
      BY <1>4 DEF Worth, Payables, Receivables
    <3>2. Worth(n) = (l.settled + amount) + Outstanding(l, "sell") - Outstanding(l, "buy")
                        + SumFunction(h) + BookTotal(l) - l.realized - l.dividends
      BY <2>2, <2>5, <2>6 DEF Worth, Payables, Receivables
    <3>3. \A a, s, r, o, d, c, p, v \in Int :
            (s + a) + r - o + d + c - p - v = s + r - o + (a + d) + c - p - v
      OBVIOUS
    <3> QED BY ONLY <1>4, <2>7, <3>1, <3>2, <3>3
  <2>9. Available(n) >= Available(l)
    BY <1>4, <2>2, <2>5, <2>7 DEF Available, Payables
  <2>10. SettledFrom(l, n)
    BY <2>2, <2>4, <2>8, <2>9 DEF SettledFrom
  <2>11. SettledFrom(l, m)
    BY <2>3, <2>10, SameAccountFacts DEF SettledFrom, SameAccount
  <2> QED BY <1>2, <2>2, <2>3, <2>11 DEF SameAccount, m
<1> QED BY <1>5, <1>6

(* process_settlements: after it nothing is due, and only a sale at a loss took cash. *)
LEMMA SettlementFacts ==
    ASSUME NEW l, LedgerTyped(l), NEW date \in Nat, NEW at, Good(ProcessSettlements(l, date, at))
    PROVE  LET m == ProcessSettlements(l, date, at)
           IN /\ SettledFrom(l, m) /\ Available(m) >= 0 /\ Good(l)
              /\ \A k \in DOMAIN m.pending : m.pending[k].done \/ m.pending[k].due > date
              /\ m.receivables = {d \in l.receivables : d.pay > date}
<1> DEFINE s == SettleTrades(l, date, at)
           n == PayDividends(s, date, at)
           m == ProcessSettlements(l, date, at)
<1>1. m = Reconcile(n) /\ Good(m)
  BY DEF ProcessSettlements
<1>2. Good(s)
  <2>1. ASSUME ~Good(s) PROVE FALSE
    <3>1. n = s
      BY <2>1 DEF PayDividends
    <3>2. Reconcile(n) = n
      BY <2>1, <3>1 DEF Reconcile
    <3> QED BY <1>1, <2>1, <3>1, <3>2
  <2> QED BY <2>1
<1>3. Good(n)
  BY <1>1 DEF Reconcile
<1> HIDE DEF m
<1>4. /\ SettledFrom(l, s) /\ s.receivables = l.receivables /\ Good(l)
      /\ \A k \in DOMAIN l.pending : s.pending[k].done \/ s.pending[k].due > date
  BY <1>2, SettleTradesFacts
<1> HIDE DEF s
<1>5. LedgerTyped(s) /\ DOMAIN s.pending = DOMAIN l.pending
  BY <1>4 DEF SettledFrom
<1>6. /\ SettledFrom(s, n) /\ n.pending = s.pending
      /\ n.receivables = {d \in s.receivables : d.pay > date}
  BY <1>3, <1>5, PayDividendsFacts
<1> HIDE DEF n
<1>7. LedgerTyped(n)
  BY <1>6 DEF SettledFrom
<1>8. m = n /\ Available(n) >= 0
  BY <1>1, <1>7, ReconcileFacts
<1>9. SettledFrom(l, n)
  BY <1>4, <1>6, SettledFromTwice
<1> QED BY <1>4, <1>5, <1>6, <1>8, <1>9 DEF m

-----------------------------------------------------------------------------
(* Corporate actions and marks. *)

(* Nothing but the shares and their prices differ. *)
SameCash(l, m) ==
    /\ LedgerTyped(m) /\ Worth(m) = Worth(l) /\ Available(m) = Available(l)
    /\ m.pending = l.pending

(* A dividend adds to the receivables what it adds to the income. *)
LEMMA AccrueFacts ==
    ASSUME NEW l, LedgerTyped(l), NEW a, ValidAction(a), NEW at, Good(AccrueDividend(l, a, at))
    PROVE  LET m == AccrueDividend(l, a, at)
           IN /\ SameCash(l, m) /\ Available(m) >= 0
              /\ \A d \in m.receivables : d \in l.receivables \/ d.pay = a.pay
<1> DEFINE m == AccrueDividend(l, a, at)
           amount == a.perShare * l.positions[a.instrument].quantity
           new == [action |-> a.id, pay |-> a.pay, amount |-> amount]
           n == [l EXCEPT !.receivables = @ \cup {new}, !.applied = @ \cup {a.id},
                          !.dividends = @ + amount]
           p == Post(n, at, [dividend_receivable |-> amount, dividend_income |-> -amount])
           f == [d \in l.receivables |-> d.amount]
           g == [d \in l.receivables \cup {new} |-> d.amount]
<1>1. /\ DOMAIN l = Fields /\ l.settled \in Int /\ l.dividends \in Int /\ IsFiniteSet(l.receivables)
      /\ l.positions \in [Instruments -> Positions] /\ l.pending \in Seq(Items) /\ l.realized \in Int
      /\ \A d \in l.receivables : d.action \in l.applied /\ d.pay \in Nat /\ d.amount \in Nat
  BY DEF LedgerTyped
<1>2. a.perShare \in Nat /\ a.instrument \in Instruments /\ a.pay \in Nat
  BY DEF ValidAction
<1>3. amount \in Nat
  <2>1. l.positions[a.instrument].quantity \in Nat
    BY <1>1, <1>2 DEF Positions
  <2> QED BY <1>2, <2>1
<1>4. Fail(l, "action_repeated").error = "action_repeated"
  BY <1>1, FailFacts
<1>5. Good(l) /\ a.id \notin l.applied /\ m = Reconcile(p)
  BY <1>4 DEF AccrueDividend, Good
<1>6. Good(m)
  OBVIOUS
<1>7. Good(p)
  BY <1>5, <1>6 DEF Reconcile
<1> HIDE DEF m, amount
<1>8. new \notin l.receivables /\ new.amount = amount /\ new.pay = a.pay /\ new.action = a.id
  BY <1>1, <1>5
<1>9. /\ DOMAIN n = Fields /\ n.settled = l.settled
      /\ n.receivables = l.receivables \cup {new} /\ n.applied = l.applied \cup {a.id}
      /\ n.pending = l.pending /\ n.positions = l.positions
      /\ n.realized = l.realized /\ n.dividends = l.dividends + amount
  BY <1>1 DEF Fields
<1> HIDE DEF n, new
<1>10. SameAccount(n, p)
  BY <1>7, <1>9, PostFacts
<1>11. IsFiniteSet(n.receivables)
  <2>1. IsFiniteSet(l.receivables) /\ n.receivables = l.receivables \cup {new}
    BY <1>1, <1>9
  <2> QED BY ONLY <2>1, FS_AddElement
<1>12. LedgerTyped(n)
  BY <1>1, <1>2, <1>3, <1>8, <1>9, <1>11 DEF LedgerTyped
<1>13. DividendReceivables(n) = DividendReceivables(l) + amount
  <2>1. \A d \in l.receivables : g[d] = f[d] /\ f[d] \in Int
    BY <1>1
  <2>2. \A d \in l.receivables \cup {new} : g[d] \in Int
    BY <1>1, <1>3, <1>8
  <2>3. g[new] = amount
    BY <1>8
  <2>4. DOMAIN f = l.receivables /\ DOMAIN g = l.receivables \cup {new}
    OBVIOUS
  <2>5. DividendReceivables(n) = SumFunction(g) /\ DividendReceivables(l) = SumFunction(f)
    BY <1>9 DEF DividendReceivables
  <2> HIDE DEF f, g
  <2>6. SumFunctionOnSet(g, l.receivables \cup {new}) = SumFunctionOnSet(g, l.receivables) + g[new]
    BY <1>1, <1>8, <2>2, SumAdd
  <2>7. SumFunctionOnSet(g, l.receivables) = SumFunctionOnSet(f, l.receivables)
    BY <1>1, <2>1, SumAgrees
  <2> QED BY <2>3, <2>4, <2>5, <2>6, <2>7 DEF SumFunction
<1>14. /\ Outstanding(n, "buy") = Outstanding(l, "buy")
       /\ Outstanding(n, "sell") = Outstanding(l, "sell")
       /\ BookTotal(n) = BookTotal(l)
  BY <1>9 DEF Outstanding, BookTotal
<1>15. /\ Outstanding(l, "buy") \in Int /\ Outstanding(l, "sell") \in Int
       /\ BookTotal(l) \in Int /\ DividendReceivables(l) \in Int
  BY LedgerNumbers DEF Payables, Receivables
<1>16. Worth(n) = Worth(l)
  <2>1. Worth(l) = l.settled + Outstanding(l, "sell") - Outstanding(l, "buy")
                      + DividendReceivables(l) + BookTotal(l) - l.realized - l.dividends
    BY DEF Worth, Payables, Receivables
  <2>2. Worth(n) = l.settled + Outstanding(l, "sell") - Outstanding(l, "buy")
                      + (DividendReceivables(l) + amount) + BookTotal(l) - l.realized
                      - (l.dividends + amount)
    BY <1>9, <1>13, <1>14 DEF Worth, Payables, Receivables
  <2>3. \A e, s, r, o, d, c, q, v \in Int :
          s + r - o + (d + e) + c - q - (v + e) = s + r - o + d + c - q - v
    OBVIOUS
  <2>4. l.settled \in Int /\ l.realized \in Int /\ l.dividends \in Int /\ amount \in Int
    BY <1>1, <1>3
  <2> QED BY ONLY <1>15, <2>1, <2>2, <2>3, <2>4
<1>17. Available(n) = Available(l)
  BY <1>9, <1>14 DEF Available, Payables
<1>18. LedgerTyped(p) /\ Worth(p) = Worth(l) /\ Available(p) = Available(l)
       /\ p.pending = l.pending /\ p.receivables = l.receivables \cup {new}
  BY <1>9, <1>10, <1>12, <1>16, <1>17, SameAccountFacts DEF SameAccount
<1> HIDE DEF p
<1>19. m = p /\ Available(p) >= 0
  BY <1>5, <1>6, <1>18, ReconcileFacts
<1> QED BY <1>8, <1>18, <1>19 DEF m, SameCash

(* A ledger with other shares of the same cost is worth the same. *)
LEMMA SharesFacts ==
    ASSUME NEW l, LedgerTyped(l), NEW m, DOMAIN m = Fields,
           m.positions \in [Instruments -> Positions],
           \A i \in Instruments : m.positions[i].book = l.positions[i].book,
           m.settled = l.settled, m.realized = l.realized, m.dividends = l.dividends,
           m.pending = l.pending, m.receivables = l.receivables, l.applied \subseteq m.applied
    PROVE  SameCash(l, m)
<1>1. LedgerTyped(m)
  BY DEF LedgerTyped
<1>2. BookTotal(m) = BookTotal(l)
  BY BookSame
<1>3. /\ Outstanding(m, "buy") = Outstanding(l, "buy")
      /\ Outstanding(m, "sell") = Outstanding(l, "sell")
      /\ DividendReceivables(m) = DividendReceivables(l)
  BY DEF Outstanding, DividendReceivables
<1> QED BY <1>1, <1>2, <1>3 DEF SameCash, Worth, Available, Payables, Receivables

(* A split moves no cash and keeps what the shares cost. *)
LEMMA SplitFacts ==
    ASSUME NEW l, LedgerTyped(l), NEW a, ValidAction(a), NEW at, Good(ApplySplit(l, a, at))
    PROVE  LET m == ApplySplit(l, a, at)
           IN SameCash(l, m) /\ Available(m) >= 0 /\ m.receivables = l.receivables
<1> DEFINE m == ApplySplit(l, a, at)
           i == a.instrument
           p == l.positions[i]
           q == [p EXCEPT !.quantity = (@ * a.num) \div a.den, !.price = (@ * a.den) \div a.num]
           applied == [l EXCEPT !.applied = @ \cup {a.id}]
           split == [applied EXCEPT !.positions[i].quantity = (@ * a.num) \div a.den,
                                    !.positions[i].price = (@ * a.den) \div a.num]
<1>1. DOMAIN l = Fields /\ l.positions \in [Instruments -> Positions]
  BY DEF LedgerTyped
<1>2. i \in Instruments /\ a.num \in Nat \ {0} /\ a.den \in Nat \ {0}
  BY DEF ValidAction
<1>3. p \in Positions /\ p.quantity \in Nat /\ p.price \in Int
  BY <1>1, <1>2 DEF Positions
<1>4. \A reason : Fail(l, reason).error = reason
  BY <1>1, FailFacts
<1>5. Good(m)
  OBVIOUS
<1>6. \E n \in {applied, split} : m = Reconcile(Post(n, at, <<>>))
  <2>1. Good(l)
    BY <1>5 DEF ApplySplit
  <2>2. m \in {Fail(l, "action_repeated"), Fail(l, "fractional_shares"),
               Reconcile(Post(applied, at, <<>>)), Reconcile(Post(split, at, <<>>))}
    BY <2>1, Zenon DEF ApplySplit
  <2>3. ~Good(Fail(l, "action_repeated")) /\ ~Good(Fail(l, "fractional_shares"))
    BY <1>4 DEF Good
  <2> HIDE DEF m, applied, split
  <2> QED BY <1>5, <2>2, <2>3
<1>7. /\ DOMAIN applied = Fields /\ applied.positions = l.positions
      /\ applied.settled = l.settled /\ applied.realized = l.realized
      /\ applied.dividends = l.dividends /\ applied.pending = l.pending
      /\ applied.receivables = l.receivables /\ l.applied \subseteq applied.applied
  BY <1>1 DEF Fields
<1>8. SameCash(l, applied)
  <2> HIDE DEF applied
  <2> QED BY <1>1, <1>7, SharesFacts
<1>9. q \in Positions /\ q.book = p.book
  <2>1. (p.quantity * a.num) \div a.den \in Nat
    <3> DEFINE x == p.quantity * a.num
    <3>1. x \in Nat
      BY <1>2, <1>3
    <3> HIDE DEF x, p
    <3> QED BY <1>2, <3>1 DEF x
  <2>2. (p.price * a.den) \div a.num \in Int
    <3> DEFINE x == p.price * a.den
    <3>1. x \in Int
      BY <1>2, <1>3
    <3> HIDE DEF x, p
    <3> QED BY <1>2, <3>1 DEF x
  <2> HIDE DEF p
  <2> QED BY <1>3, <2>1, <2>2 DEF Positions
<1>10. /\ DOMAIN split = Fields /\ split.positions = [l.positions EXCEPT ![i] = q]
       /\ split.settled = l.settled /\ split.realized = l.realized
       /\ split.dividends = l.dividends /\ split.pending = l.pending
       /\ split.receivables = l.receivables /\ l.applied \subseteq split.applied
  BY <1>1, <1>2, <1>3 DEF Fields, Positions
<1>11. SameCash(l, split)
  <2> HIDE DEF split, q
  <2>1. split.positions \in [Instruments -> Positions]
        /\ \A j \in Instruments : split.positions[j].book = l.positions[j].book
    BY <1>1, <1>9, <1>10
  <2> QED BY <1>10, <2>1, SharesFacts
<1> HIDE DEF m, split, applied
<1>12. PICK n \in {applied, split} : m = Reconcile(Post(n, at, <<>>))
  BY <1>6
<1>13. DOMAIN n = Fields /\ SameCash(l, n) /\ n.receivables = l.receivables
  BY <1>7, <1>8, <1>10, <1>11
<1> DEFINE r == Post(n, at, <<>>)
<1>14. Good(r)
  BY <1>5, <1>12 DEF Reconcile
<1>15. SameAccount(n, r)
  BY <1>13, <1>14, PostFacts
<1> HIDE DEF r
<1>16. SameCash(l, r) /\ r.receivables = l.receivables /\ LedgerTyped(r)
  BY <1>13, <1>15, SameAccountFacts DEF SameCash, SameAccount
<1>17. m = r /\ Available(r) >= 0
  BY <1>5, <1>12, <1>16, ReconcileFacts DEF r
<1> QED BY <1>16, <1>17 DEF m

(* Marks move no cash. *)
LEMMA MarkFacts ==
    ASSUME NEW l, LedgerTyped(l), NEW price, \A i \in Instruments \cap DOMAIN price : price[i] \in Int
    PROVE  LET m == MarkAll(l, price)
           IN /\ SameCash(l, m) /\ m.receivables = l.receivables
              /\ \A i \in Instruments : m.positions[i].quantity = l.positions[i].quantity
<1> DEFINE m == MarkAll(l, price)
<1>1. DOMAIN l = Fields /\ l.positions \in [Instruments -> Positions]
  BY DEF LedgerTyped
<1>2. ASSUME NEW i \in Instruments
      PROVE  /\ m.positions[i] \in Positions /\ m.positions[i].book = l.positions[i].book
             /\ m.positions[i].quantity = l.positions[i].quantity
  <2>1. l.positions[i] \in Positions
    BY <1>1
  <2>2. CASE i \in DOMAIN price /\ Good(l) /\ l.positions[i].known
    <3>1. m.positions[i] = [l.positions[i] EXCEPT !.price = price[i], !.stale = 0]
      BY <1>1, <2>2 DEF MarkAll, Mark, Fields
    <3>2. price[i] \in Int
      BY <2>2
    <3>3. \A p \in Positions, x \in Int :
            /\ [p EXCEPT !.price = x, !.stale = 0] \in Positions
            /\ [p EXCEPT !.price = x, !.stale = 0].book = p.book
            /\ [p EXCEPT !.price = x, !.stale = 0].quantity = p.quantity
      BY DEF Positions
    <3> DEFINE u == [l.positions[i] EXCEPT !.price = price[i], !.stale = 0]
    <3>4. /\ u \in Positions /\ u.book = l.positions[i].book
          /\ u.quantity = l.positions[i].quantity
      BY <2>1, <3>2, <3>3
    <3> HIDE DEF m, u
    <3>5. m.positions[i] = u
      BY <3>1 DEF u
    <3> QED BY <3>4, <3>5
  <2>3. CASE ~(i \in DOMAIN price /\ Good(l) /\ l.positions[i].known)
    <3>1. m.positions[i] = l.positions[i]
      BY <1>1, <2>3 DEF MarkAll, Mark, Fields
    <3> QED BY <2>1, <3>1
  <2> QED BY <2>2, <2>3
<1>3. /\ DOMAIN m = Fields /\ DOMAIN m.positions = Instruments
      /\ m.settled = l.settled /\ m.realized = l.realized /\ m.dividends = l.dividends
      /\ m.pending = l.pending /\ m.receivables = l.receivables /\ m.applied = l.applied
      /\ m.positions = [i \in Instruments |-> m.positions[i]]
  BY <1>1 DEF MarkAll, Fields
<1> HIDE DEF m
<1>4. m.positions \in [Instruments -> Positions]
  BY <1>2, <1>3
<1> QED BY <1>2, <1>3, <1>4, SharesFacts DEF m

(* Ageing moves no cash. *)
LEMMA AgeFacts ==
    ASSUME NEW l, LedgerTyped(l), NEW marked
    PROVE  LET m == AgeUnmarked(l, marked)
           IN /\ SameCash(l, m) /\ m.receivables = l.receivables
              /\ \A i \in Instruments : m.positions[i].quantity = l.positions[i].quantity
<1> DEFINE m == AgeUnmarked(l, marked)
<1>1. DOMAIN l = Fields /\ l.positions \in [Instruments -> Positions]
  BY DEF LedgerTyped
<1>2. ASSUME NEW i \in Instruments
      PROVE  /\ m.positions[i] \in Positions /\ m.positions[i].book = l.positions[i].book
             /\ m.positions[i].quantity = l.positions[i].quantity
  <2>1. l.positions[i] \in Positions
    BY <1>1
  <2>2. m.positions[i] \in {l.positions[i], [l.positions[i] EXCEPT !.stale = @ + 1]}
    BY <1>1 DEF AgeUnmarked, Fields
  <2> QED BY <2>1, <2>2 DEF Positions
<1>3. /\ DOMAIN m = Fields /\ m.positions = [i \in Instruments |-> m.positions[i]]
      /\ m.settled = l.settled /\ m.realized = l.realized /\ m.dividends = l.dividends
      /\ m.pending = l.pending /\ m.receivables = l.receivables /\ m.applied = l.applied
  BY <1>1 DEF AgeUnmarked, Fields
<1> HIDE DEF m
<1>4. m.positions \in [Instruments -> Positions]
  BY <1>2, <1>3
<1> QED BY <1>2, <1>3, <1>4, SharesFacts DEF m

(* A new ledger is worth the cash that was paid in. *)
LEMMA OpenLedgerFacts ==
    ASSUME NEW cash \in Int, NEW at
    PROVE  LET l == OpenLedger(cash, at)
           IN /\ LedgerTyped(l) /\ Worth(l) = cash /\ Available(l) = cash
              /\ l.pending = <<>> /\ l.receivables = {}
              /\ \A i \in Instruments : l.positions[i].quantity = 0
<1> DEFINE n == [settled |-> cash, capital |-> cash, pending |-> <<>>, receivables |-> {},
                 positions |-> [i \in Instruments |-> NoPosition], applied |-> {},
                 realized |-> 0, fees |-> 0, taxes |-> 0, dividends |-> 0,
                 filledFees |-> 0, filledGain |-> 0,
                 balance |-> [a \in Accounts \cup Instruments |-> 0],
                 ordered |-> TRUE, lastAt |-> at, error |-> "none"]
           postings == [cash |-> cash, contributed_capital |-> -cash]
           l == OpenLedger(cash, at)
<1>1. l = Post(n, at, postings)
  BY DEF OpenLedger
<1>2. /\ DOMAIN n = Fields /\ n.settled = cash /\ n.pending = <<>> /\ n.receivables = {}
      /\ n.positions = [i \in Instruments |-> NoPosition] /\ n.realized = 0 /\ n.dividends = 0
      /\ n.applied = {}
  BY DEF Fields
<1> HIDE DEF n, postings, l
<1>3. SameAccount(n, l)
  BY <1>1, <1>2 DEF SameAccount, Post, Fail, Fields
<1>4. NoPosition \in Positions /\ NoPosition.book = 0 /\ NoPosition.quantity = 0
  BY DEF NoPosition, Positions
<1>5. LedgerTyped(n)
  BY <1>2, <1>4, FS_EmptySet DEF LedgerTyped
<1>6. Outstanding(n, "buy") = 0 /\ Outstanding(n, "sell") = 0
  <2>1. \A side : OpenItems(n, side) = {}
    BY <1>2 DEF OpenItems
  <2> QED BY <2>1, OutstandingIs, SumOfNone
<1>7. DividendReceivables(n) = 0
  <2> DEFINE f == [d \in n.receivables |-> d.amount]
  <2>1. DOMAIN f = {} /\ DividendReceivables(n) = SumFunction(f)
    BY <1>2 DEF DividendReceivables
  <2> HIDE DEF f
  <2> QED BY <2>1, SumOfNone DEF SumFunction
<1>8. BookTotal(n) = 0
  <2> DEFINE f == [i \in Instruments |-> n.positions[i].book]
  <2>1. DOMAIN f = Instruments /\ BookTotal(n) = SumFunction(f) /\ \A i \in Instruments : f[i] = 0
    BY <1>2, <1>4 DEF BookTotal
  <2> HIDE DEF f
  <2>2. SumFunctionOnSet(f, Instruments) = 0
    BY <2>1, SumOfZeros, LedgerAssumption
  <2> QED BY <2>1, <2>2 DEF SumFunction
<1>9. Worth(n) = cash /\ Available(n) = cash
  BY <1>2, <1>6, <1>7, <1>8 DEF Worth, Available, Payables, Receivables
<1>10. \A i \in Instruments : l.positions[i].quantity = 0
  BY <1>2, <1>3, <1>4 DEF SameAccount
<1> QED BY <1>2, <1>3, <1>5, <1>9, <1>10, SameAccountFacts DEF SameAccount, l

-----------------------------------------------------------------------------
(* Targets and intents. *)
Weights == [num : Nat, den : Nat \ {0}]

(* The predicted instruments are finitely many. *)
LEMMA PredictedFacts ==
    ASSUME NEW rows \in Rows
    PROVE  /\ DOMAIN rows \subseteq Instruments /\ IsFiniteSet(Predicted(rows))
           /\ Cardinality(Predicted(rows)) \in Nat
<1>1. DOMAIN rows \subseteq Instruments /\ IsFiniteSet(Instruments)
  BY EngineAssumption, LedgerAssumption
<1>2. Predicted(rows) \subseteq Instruments
  BY <1>1 DEF Predicted
<1> QED BY <1>1, <1>2, FS_Subset, FS_CardinalityType

(* A rank is a positive natural. *)
LEMMA RankFacts ==
    ASSUME NEW rows \in Rows, NEW i
    PROVE  Rank(rows, i) \in Nat \ {0}
<1> DEFINE above == {j \in Predicted(rows) : \/ rows[j] > rows[i]
                                             \/ rows[j] = rows[i] /\ Key(j) < Key(i)}
<1>1. above \subseteq Predicted(rows)
  OBVIOUS
<1> HIDE DEF above
<1>2. Cardinality(above) \in Nat
  BY <1>1, PredictedFacts, FS_Subset, FS_CardinalityType
<1> QED BY <1>2 DEF Rank, above

(* How many are selected. *)
LEMMA CountFacts ==
    ASSUME NEW p, ValidPolicy(p), NEW rows \in Rows
    PROVE  SelectedCount(p, rows) \in Int
<1> DEFINE n == Cardinality(Predicted(rows))
<1>1. n \in Nat
  BY PredictedFacts
<1>2. CASE p.kind = "top_k"
  <2>1. Min({p.topK, n}) \in Int
    <3>1. PICK k \in Int : k = p.topK
      BY DEF ValidPolicy
    <3> HIDE DEF n
    <3>2. Min({k, n}) \in {k, n}
      BY <1>1, <3>1, PairMin
    <3> QED BY <1>1, <3>1, <3>2
  <2> QED BY <1>2, <2>1 DEF SelectedCount
<1>3. CASE p.kind = "quantile"
  <2> DEFINE c == CeilDiv(n * p.quantile, RateUnit)
  <2>1. c \in Nat
    <3> DEFINE x == n * p.quantile
    <3>1. x \in Nat /\ RateUnit \in Nat \ {0}
      BY <1>1, PolicyAssumption DEF ValidPolicy
    <3> HIDE DEF x
    <3> QED BY <3>1, CeilDivFacts DEF x
  <2>2. Min({n, c}) \in Int
    <3> HIDE DEF n, c
    <3> QED BY <1>1, <2>1, PairMin
  <2> QED BY <1>3, <2>2 DEF SelectedCount
<1>4. CASE p.kind = "threshold"
  <2> DEFINE over == {i \in Predicted(rows) : rows[i] > p.threshold}
  <2>1. over \subseteq Predicted(rows)
    OBVIOUS
  <2> HIDE DEF over
  <2>2. Cardinality(over) \in Nat
    BY <2>1, PredictedFacts, FS_Subset, FS_CardinalityType
  <2> QED BY <1>4, <2>2 DEF SelectedCount, over
<1> QED BY <1>2, <1>3, <1>4 DEF ValidPolicy

(* The weight of a selected instrument. *)
LEMMA WeightFacts ==
    ASSUME NEW p, ValidPolicy(p), NEW count \in Nat \ {0}
    PROVE  Weight(p, count) \in Weights
<1>1. RateUnit \in Nat \ {0} /\ RateUnit * count \in Nat \ {0}
      /\ RateUnit - p.cashBuffer \in Nat /\ p.maximumWeight \in Nat
  BY PolicyAssumption DEF ValidPolicy
<1> QED BY <1>1 DEF Weight, Weights

(* Targets are weights of instruments. *)
LEMMA TargetsFacts ==
    ASSUME NEW p, ValidPolicy(p), NEW rows \in Rows, NEW rebalance
    PROVE  /\ DOMAIN StrategyTargets(p, rebalance, rows) \subseteq Instruments
           /\ \A i \in DOMAIN StrategyTargets(p, rebalance, rows) :
                StrategyTargets(p, rebalance, rows)[i] \in Weights
<1> DEFINE pinned == BuildTargets(p, rows)
           absent == Instruments \ DOMAIN rows
           count == SelectedCount(p, rows)
<1>1. NoWeight \in Weights
  BY DEF NoWeight, Weights
<1>2. DOMAIN pinned = DOMAIN rows /\ \A i \in DOMAIN pinned : pinned[i] \in Weights
  <2>1. DOMAIN pinned = DOMAIN rows
    BY DEF BuildTargets
  <2>2. ASSUME NEW i \in DOMAIN rows PROVE pinned[i] \in Weights
    <3>1. pinned[i] = IF rows[i] # 0 /\ Rank(rows, i) <= count THEN Weight(p, count) ELSE NoWeight
      BY DEF BuildTargets
    <3>2. CASE rows[i] # 0 /\ Rank(rows, i) <= count
      <4>1. count \in Nat \ {0}
        BY <3>2, CountFacts, RankFacts
      <4> HIDE DEF count
      <4> QED BY <3>1, <3>2, <4>1, WeightFacts
    <3> QED BY <1>1, <3>1, <3>2
  <2> QED BY <2>1, <2>2
<1>3. DOMAIN rows \subseteq Instruments
  BY PredictedFacts
<1> HIDE DEF pinned
<1> DEFINE all == [i \in DOMAIN pinned \cup absent |-> IF i \in absent THEN NoWeight ELSE pinned[i]]
<1>4. DOMAIN all \subseteq Instruments /\ \A i \in DOMAIN all : all[i] \in Weights
  BY <1>1, <1>2, <1>3
<1>5. /\ DOMAIN <<>> \subseteq Instruments
      /\ \A i \in DOMAIN <<>> : <<>>[i] \in Weights
  OBVIOUS
<1> HIDE DEF all
<1>6. StrategyTargets(p, rebalance, rows) \in {<<>>, all, pinned}
  BY DEF StrategyTargets, all, pinned
<1> QED BY <1>2, <1>3, <1>4, <1>5, <1>6

(* A target quantity is an integer. *)
LEMMA QuantityFacts ==
    ASSUME NEW weight \in Weights, NEW nav \in Int, NEW price \in Nat \ {0}, NEW held \in Nat
    PROVE  TargetQuantity(weight, nav, price, held) \in Int
<1> DEFINE x == nav * weight.num
           y == weight.den * price
           most == x \div y
           Affordable(q) == (price * q + Fee(price * (q - held))) * weight.den <= nav * weight.num
           S == {held} \cup {q \in held + 1 .. most : Affordable(q)}
<1>1. x \in Int /\ y \in Nat \ {0}
  BY DEF Weights
<1>2. most \in Int
  <2> HIDE DEF x, y
  <2> QED BY <1>1
<1> HIDE DEF most, Affordable
<1>3. CASE most <= held
  BY <1>2, <1>3 DEF TargetQuantity, most, x, y
<1>4. CASE ~(most <= held)
  <2>1. S \subseteq held .. most /\ S # {}
    BY <1>2, <1>4
  <2> HIDE DEF S
  <2>a. held \in Int
    OBVIOUS
  <2>2. Max(S) \in S
    BY ONLY <1>2, <2>a, <2>1, GreatestIsMax
  <2>3. Max(S) \in Int
    <3>1. \A z \in held .. most : z \in Int
      BY <1>2
    <3> QED BY <2>1, <2>2, <3>1
  <2>4. TargetQuantity(weight, nav, price, held) = Max(S)
    BY <1>4 DEF TargetQuantity, S, most, x, y, Affordable
  <2> QED BY <2>3, <2>4
<1> QED BY <1>3, <1>4

IntentTyped(a, d) ==
    /\ a.id = <<d, a.instrument>> /\ a.instrument \in Instruments
    /\ a.side \in Sides /\ a.quantity \in Nat \ {0}

(* An intent is of its instrument, and for some quantity. *)
LEMMA IntentFacts ==
    ASSUME NEW d, NEW i \in Instruments, NEW wanted \in Int, NEW held \in Nat, wanted # held
    PROVE  LET a == Intent(<<d, i>>, i, wanted, held)
           IN IntentTyped(a, d) /\ a.instrument = i /\ a.id = <<d, i>>
BY DEF Intent, IntentTyped, Sides

(* A net asset value is an integer. *)
LEMMA NavInt ==
    ASSUME NEW l, LedgerTyped(l)
    PROVE  NetAssetValue(l) \in Int
<1> DEFINE f == [i \in Instruments |-> l.positions[i].price * l.positions[i].quantity]
<1>1. \A i \in Instruments : f[i] \in Int
  <2> SUFFICES ASSUME NEW i \in Instruments PROVE f[i] \in Int
    OBVIOUS
  <2>1. l.positions[i].price \in Int /\ l.positions[i].quantity \in Int
    BY DEF LedgerTyped, Positions
  <2> QED BY <2>1
<1>2. DOMAIN f = Instruments /\ MarketValue(l, Instruments) = SumFunction(f)
  BY DEF MarketValue
<1> HIDE DEF f
<1>3. MarketValue(l, Instruments) \in Int
  BY <1>1, <1>2, SumInt, LedgerAssumption DEF SumFunction
<1> QED BY <1>3, LedgerNumbers DEF NetAssetValue

(* What _validate_inputs accepts: the last session settles within the calendar. *)
LEMMA ConfigFacts ==
    ASSUME config \in {c \in Configs : ValidConfig(c)}
    PROVE  /\ config.sessions \subseteq 1 .. Horizon /\ config.setup \in Setups
           /\ LastSession \in config.sessions /\ LastSession \in Nat
           /\ \A d \in config.sessions : d <= LastSession /\ d \in Nat
           /\ FinalDue = LastSession + SettlementLag /\ FinalDue \in Nat
           /\ \A d \in config.sessions : DueDate(d, Horizon) = d + SettlementLag
<1>1. /\ config.sessions \subseteq 1 .. Horizon /\ config.setup \in Setups
      /\ config.sessions # {} /\ Max(config.sessions) + SettlementLag <= Horizon
  BY DEF Configs, ValidConfig
<1>2. Horizon \in Int /\ SettlementLag \in Nat
  BY EngineAssumption, PolicyAssumption
<1>3. LastSession \in config.sessions /\ \A d \in config.sessions : LastSession >= d
  BY <1>1, <1>2, GreatestIsMax DEF LastSession
<1> QED BY <1>1, <1>2, <1>3 DEF FinalDue, DueDate, LastSession

-----------------------------------------------------------------------------
(* The book of orders. *)
BookOK(b) == IsFiniteSet(DOMAIN b) /\ \A o \in DOMAIN b : b[o].side \in Sides /\ b[o].cash \in Nat

ActiveBuys(b) == {o \in Active(b) : b[o].side = "buy"}

BuyCash(b) == SumFunction([o \in ActiveBuys(b) |-> b[o].cash])

(* What purchases reserve is part of what orders reserve. *)
LEMMA BuyCashFacts ==
    ASSUME NEW b, BookOK(b)
    PROVE  BuyCash(b) \in Nat /\ ReservedCash(b) \in Nat /\ BuyCash(b) <= ReservedCash(b)
<1> DEFINE f == [o \in DOMAIN b |-> b[o].cash]
           g == [o \in ActiveBuys(b) |-> b[o].cash]
<1>1. ActiveBuys(b) \subseteq Active(b) /\ Active(b) \subseteq DOMAIN b
  BY DEF ActiveBuys, Active
<1>2. IsFiniteSet(Active(b)) /\ IsFiniteSet(ActiveBuys(b))
  BY <1>1, FS_Subset DEF BookOK
<1>3. /\ \A o \in Active(b) : f[o] \in Nat
      /\ \A o \in ActiveBuys(b) : g[o] \in Nat /\ g[o] <= f[o]
  BY <1>1 DEF BookOK
<1>4. DOMAIN g = ActiveBuys(b)
  OBVIOUS
<1>5. BuyCash(b) = SumFunctionOnSet(g, ActiveBuys(b)) /\ ReservedCash(b) = SumFunctionOnSet(f, Active(b))
  BY DEF BuyCash, ReservedCash, SumFunction
<1> HIDE DEF f, g
<1> QED BY <1>1, <1>2, <1>3, <1>5, SumNat, SumShrinks

(* A new order, as it is after its reservation was filled or released. *)
AddedOrder(b, id, c, e) ==
    /\ id \notin DOMAIN b /\ DOMAIN c = DOMAIN b \cup {id} /\ c[id] = e
    /\ \A o \in DOMAIN b : c[o] = b[o]
    /\ e.side \in Sides /\ e.cash \in Nat

(* Only an active purchase adds to what purchases reserve. *)
LEMMA NewOrderFacts ==
    ASSUME NEW b, BookOK(b), NEW id, NEW c, NEW e, AddedOrder(b, id, c, e)
    PROVE  /\ BookOK(c) /\ DOMAIN c = DOMAIN b \cup {id}
           /\ BuyCash(c) = BuyCash(b) + (IF e.status = "active" /\ e.side = "buy" THEN e.cash ELSE 0)
<1> DEFINE f == [o \in ActiveBuys(b) |-> b[o].cash]
           g == [o \in ActiveBuys(c) |-> c[o].cash]
<1>1. DOMAIN c = DOMAIN b \cup {id} /\ c[id] = e /\ (\A o \in DOMAIN b : c[o] = b[o])
      /\ id \notin DOMAIN b /\ e.side \in Sides /\ e.cash \in Nat
  BY DEF AddedOrder
<1>2. BookOK(c)
  <2>1. IsFiniteSet(DOMAIN b \cup {id})
    BY FS_AddElement DEF BookOK
  <2> QED BY <1>1, <2>1 DEF BookOK
<1>3. ActiveBuys(b) \subseteq DOMAIN b
  BY DEF ActiveBuys, Active
<1>4. IsFiniteSet(ActiveBuys(b)) /\ id \notin ActiveBuys(b)
  BY <1>1, <1>3, FS_Subset DEF BookOK
<1>5. \A o \in ActiveBuys(b) : f[o] = b[o].cash /\ f[o] \in Int
  BY <1>3 DEF BookOK
<1>6. BuyCash(b) = SumFunctionOnSet(f, ActiveBuys(b)) /\ BuyCash(c) = SumFunctionOnSet(g, ActiveBuys(c))
  BY DEF BuyCash, SumFunction
<1>7. SumFunctionOnSet(f, ActiveBuys(b)) \in Int
  BY <1>4, <1>5, SumInt
<1>8. CASE e.status = "active" /\ e.side = "buy"
  <2>1. ActiveBuys(c) = ActiveBuys(b) \cup {id}
    BY <1>1, <1>8 DEF ActiveBuys, Active
  <2>2. \A o \in ActiveBuys(b) : g[o] = f[o]
    BY <1>1, <1>3, <2>1
  <2>3. g[id] = e.cash
    BY <1>1, <2>1
  <2>4. \A o \in ActiveBuys(b) \cup {id} : g[o] \in Int
    BY <1>1, <1>5, <2>2, <2>3
  <2> HIDE DEF f, g
  <2>5. SumFunctionOnSet(g, ActiveBuys(b) \cup {id}) = SumFunctionOnSet(g, ActiveBuys(b)) + g[id]
    BY <1>4, <2>4, SumAdd
  <2>6. SumFunctionOnSet(g, ActiveBuys(b)) = SumFunctionOnSet(f, ActiveBuys(b))
    BY <1>4, <2>2, SumAgrees
  <2>7. BuyCash(c) = BuyCash(b) + e.cash
    BY <1>6, <2>1, <2>3, <2>5, <2>6
  <2> QED BY <1>1, <1>2, <1>8, <2>7
<1>9. CASE ~(e.status = "active" /\ e.side = "buy")
  <2>1. ActiveBuys(c) = ActiveBuys(b)
    BY <1>1, <1>9 DEF ActiveBuys, Active
  <2>2. \A o \in ActiveBuys(b) : g[o] = f[o]
    BY <1>1, <1>3, <2>1
  <2> HIDE DEF f, g
  <2>3. SumFunctionOnSet(g, ActiveBuys(b)) = SumFunctionOnSet(f, ActiveBuys(b))
    BY <1>4, <2>2, SumAgrees
  <2>4. BuyCash(c) = BuyCash(b) /\ BuyCash(b) \in Int
    BY <1>6, <1>7, <2>1, <2>3
  <2> QED BY <1>1, <1>2, <1>9, <2>4
<1> QED BY <1>8, <1>9

(* What reserve puts into the book for an intent that has no order yet. *)
EnteredOrder(intent, price) ==
    [instrument |-> intent.instrument, side |-> intent.side,
     remaining |-> intent.quantity, price |-> price,
     cash |-> IF intent.side = "buy"
              THEN price * intent.quantity + Costs("buy", price * intent.quantity) ELSE 0,
     gross |-> 0, commission |-> 0, status |-> "active"]

(* A released order reserves nothing. *)
LEMMA ReleasedFacts ==
    ASSUME NEW item, {"side", "cash", "status"} \subseteq DOMAIN item, NEW status
    PROVE  Release(item, status).cash = 0 /\ Release(item, status).side = item.side
           /\ Release(item, status).status = status
BY DEF Release

(* The rest of an order and the cost of its fills stay within what was reserved for it. *)
LEMMA UpdatedFacts ==
    ASSUME NEW intent, IntentTyped(intent, intent.id[1]), NEW price \in Nat,
           NEW fill, fill.quantity \in Nat \ {0}, fill.quantity <= intent.quantity,
           fill.price = price, fill.side = intent.side,
           fill.fee = Fee(price * fill.quantity)
    PROVE  LET u == FillReservation(EnteredOrder(intent, price), fill)
           IN /\ u.side = intent.side /\ u.cash \in Nat
              /\ {"side", "cash", "status"} \subseteq DOMAIN u
              /\ intent.side = "buy" =>
                    u.cash + Spent(fill)
                      <= price * intent.quantity + Costs("buy", price * intent.quantity)
<1> DEFINE item == EnteredOrder(intent, price)
           n == intent.quantity
           q == fill.quantity
           u == FillReservation(item, fill)
           rest == n - q
           restGross == price * rest
           all == Fee(price * n)
           part == Fee(price * q)
           restFee == Max({0, all - part})
<1>1. n \in Nat \ {0} /\ q \in Nat \ {0} /\ q <= n /\ rest \in Nat
  BY DEF IntentTyped
<1>2. /\ price * n \in Nat /\ price * q \in Nat /\ restGross \in Nat
      /\ price * n = price * q + restGross /\ price * q <= price * n
  <2>1. \A a, x, y \in Nat : x <= y => /\ a * x \in Nat /\ a * y \in Nat /\ a * (y - x) \in Nat
                                       /\ a * y = a * x + a * (y - x)
    OBVIOUS
  <2> HIDE DEF n, q
  <2>2. /\ price * n \in Nat /\ price * q \in Nat /\ restGross \in Nat
        /\ price * n = price * q + restGross
    BY <1>1, <2>1
  <2> QED BY <2>2
<1>3. all \in Nat /\ part \in Nat /\ part <= all
  BY <1>2, FeeFacts, FeeMonotone
<1> HIDE DEF all, part
<1>4. restFee = all - part
  <2>1. PICK d \in Nat : d = all - part
    BY <1>3
  <2>2. 0 \in Int /\ d \in Int
    OBVIOUS
  <2>3. Max({0, d}) \in {0, d} /\ Max({0, d}) >= d
    BY ONLY <2>2, PairMax
  <2> QED BY <2>1, <2>3
<1> HIDE DEF restFee
<1>5. /\ item.remaining = n /\ item.gross = 0 /\ item.commission = 0 /\ item.price = price
      /\ item.side = intent.side
      /\ DOMAIN item = {"instrument", "side", "remaining", "price", "cash", "gross",
                        "commission", "status"}
  BY DEF EnteredOrder
<1> HIDE DEF item
<1>6. /\ u.cash = (IF rest = 0 THEN 0 ELSE restGross + restFee) /\ u.side = intent.side
      /\ DOMAIN u = DOMAIN item
  <2>1. 0 + fill.price * fill.quantity = price * q /\ 0 + fill.fee = part
    BY <1>2, <1>3 DEF part
  <2>2. Fee(price * q + restGross) = all
    BY <1>2 DEF all
  <2> QED BY <1>5, <2>1, <2>2 DEF FillReservation, restFee
<1> HIDE DEF u
<1>7. u.cash \in Nat
  BY <1>1, <1>2, <1>3, <1>4, <1>6
<1>8. ASSUME intent.side = "buy"
      PROVE  u.cash + Spent(fill) <= price * n + Costs("buy", price * n)
  <2>1. Costs("buy", price * n) = all
    BY <1>3, <1>8 DEF Costs, Tax, all
  <2>2. Spent(fill) = price * q + part
    BY <1>8 DEF Spent, part
  <2>3. u.cash <= restGross + (all - part)
    BY <1>1, <1>2, <1>3, <1>4, <1>6
  <2> HIDE DEF restGross
  <2> QED BY <1>2, <1>3, <1>7, <2>1, <2>2, <2>3
<1> QED BY <1>5, <1>6, <1>7, <1>8 DEF u, item

(* What risk approved can be paid with settled cash that no other order counts on. *)
LEMMA ApprovedFacts ==
    ASSUME NEW intent, NEW price \in Nat, IntentTyped(intent, intent.id[1]), intent.side = "buy",
           NEW l, LedgerTyped(l), NEW nav, NEW b, BookOK(b),
           Reasons(intent, price, l, nav, b) = {}
    PROVE  price * intent.quantity + Costs("buy", price * intent.quantity)
                <= Available(l) - ReservedCash(b)
<1> DEFINE n == price * intent.quantity
           required == n + Costs("buy", n)
<1>1. n \in Nat
  BY DEF IntentTyped
<1>2. Costs("buy", n) \in Nat
  BY <1>1, FeeFacts, TaxFacts DEF Costs
<1>3. ~(required > Spendable(l, b))
  BY DEF Reasons
<1> HIDE DEF n
<1>4. Available(l) \in Int /\ ReservedCash(b) \in Int
  BY LedgerNumbers, BuyCashFacts
<1> QED BY <1>1, <1>2, <1>3, <1>4 DEF Spendable, n

-----------------------------------------------------------------------------
(* The run of a backtest. *)
Phases == {"decide", "account", "actions", "open", "execute", "done", "failed"}

SessionTyped ==
    session # <<>> =>
        /\ day \in config.sessions
        /\ \A i \in DOMAIN session.quotes : i \in Instruments /\ ValidQuote(session.quotes[i])

EngineTyped ==
    /\ config \in {c \in Configs : ValidConfig(c)}
    /\ day \in Nat \ {0} /\ phase \in Phases
    /\ LedgerTyped(ledger) /\ BookOK(book) /\ SessionTyped
    /\ phase = "actions" => pendingActions \subseteq {a \in config.setup.actions : a.effective = day}

(* The intents are those of the day: one per instrument, none of them in the book yet. *)
IntentsOfToday ==
    /\ \A a \in intents : IntentTyped(a, day) /\ a.instrument \in DOMAIN session.quotes
                            /\ a.id \notin DOMAIN book
    /\ \A a, b \in intents : a.id = b.id => a = b
    /\ phase = "decide" \/ session = <<>> => intents = {}
    /\ phase \in {"open", "execute"} => session # <<>>

(* The orders in the book are of today only once the session executes. *)
OrdersOfThePast ==
    \A o \in DOMAIN book : /\ o[1] \in Nat /\ o[1] <= day
                           /\ phase \in {"decide", "account", "actions", "open"} => o[1] < day

(* The last day whose settlements were made. *)
Bound == IF phase \in {"actions", "open", "execute"} THEN day ELSE day - 1

(* What is still open is due later, but not after the run; with a lag of 0 a trade is due
   on a day whose settlements were made before it. *)
DueLater ==
    \A k \in DOMAIN ledger.pending :
        /\ ledger.pending[k].due <= FinalDue
        /\ ledger.pending[k].done \/ ledger.pending[k].due > Bound \/ SettlementLag = 0

PaidLater == \A d \in ledger.receivables : d.pay >= Bound

BuysCovered ==
    /\ Available(ledger) >= 0
    /\ SalesPayIn(ledger) => BuyCash(book) <= Available(ledger)

EngineInvariant ==
    /\ EngineTyped /\ IntentsOfToday /\ OrdersOfThePast
    /\ DueLater /\ PaidLater /\ BuysCovered
    /\ Worth(ledger) = InitialCash

(* The bound is yesterday or today. *)
LEMMA BoundFacts ==
    ASSUME EngineTyped
    PROVE  Bound \in Int /\ Bound <= day /\ Bound >= day - 1
BY DEF Bound, EngineTyped

(* A run starts with its cash and nothing else. *)
LEMMA EngineStarts == Init => EngineInvariant
<1> SUFFICES ASSUME Init PROVE EngineInvariant
  OBVIOUS
<1>1. PICK start : ledger = OpenLedger(InitialCash, start)
  BY DEF Init
<1>2. InitialCash \in Nat \ {0}
  BY EngineAssumption
<1>3. /\ LedgerTyped(ledger) /\ Worth(ledger) = InitialCash /\ Available(ledger) = InitialCash
      /\ ledger.pending = <<>> /\ ledger.receivables = {}
  BY <1>1, <1>2, OpenLedgerFacts
<1>4. /\ config \in {c \in Configs : ValidConfig(c)} /\ day = 1 /\ phase = "decide"
      /\ session = <<>> /\ intents = {} /\ pendingActions = {} /\ book = <<>>
  BY DEF Init, NoOrders
<1>5. BookOK(book) /\ BuyCash(book) = 0
  <2>1. DOMAIN book = {} /\ ActiveBuys(book) = {}
    BY <1>4 DEF ActiveBuys, Active
  <2> DEFINE g == [o \in ActiveBuys(book) |-> book[o].cash]
  <2>2. DOMAIN g = {} /\ BuyCash(book) = SumFunction(g)
    BY <2>1 DEF BuyCash
  <2> HIDE DEF g
  <2> QED BY <2>1, <2>2, SumOfNone, FS_EmptySet DEF BookOK, SumFunction
<1>6. EngineTyped
  BY <1>3, <1>4, <1>5 DEF EngineTyped, SessionTyped, Phases
<1>7. IntentsOfToday /\ OrdersOfThePast
  BY <1>4 DEF IntentsOfToday, OrdersOfThePast
<1>8. DueLater /\ PaidLater
  BY <1>3 DEF DueLater, PaidLater
<1>9. BuysCovered
  BY <1>2, <1>3, <1>5 DEF BuysCovered
<1> QED BY <1>3, <1>6, <1>7, <1>8, <1>9 DEF EngineInvariant

(* A raise leaves everything as it is. *)
LEMMA RaiseKeeps ==
    ASSUME EngineInvariant, NEW reason, Raise(reason)
    PROVE  EngineInvariant'
<1>1. phase' = "failed"
      /\ UNCHANGED <<config, day, session, intents, pendingActions, ledger, book>>
  BY DEF Raise
<1>2. EngineTyped' /\ IntentsOfToday' /\ OrdersOfThePast'
  BY <1>1 DEF EngineInvariant, EngineTyped, SessionTyped, IntentsOfToday, OrdersOfThePast, Phases
<1>3. Bound \in Int /\ Bound' \in Int /\ Bound' <= Bound
  BY <1>1 DEF Bound, EngineInvariant, EngineTyped
<1>4. /\ \A k \in DOMAIN ledger.pending : ledger.pending[k].due \in Nat
      /\ \A d \in ledger.receivables : d.pay \in Nat
  BY PendingFacts DEF EngineInvariant, EngineTyped, LedgerTyped
<1>5. FinalDue' = FinalDue
  BY <1>1 DEF FinalDue, LastSession
<1> HIDE DEF Bound
<1>6. DueLater'
  <2> SUFFICES ASSUME NEW k \in DOMAIN ledger.pending
               PROVE  /\ ledger.pending[k].due <= FinalDue
                      /\ ledger.pending[k].done \/ ledger.pending[k].due > Bound' \/ SettlementLag = 0
    BY <1>1, <1>5 DEF DueLater
  <2> QED BY <1>3, <1>4 DEF EngineInvariant, DueLater
<1>7. PaidLater'
  <2> SUFFICES ASSUME NEW d \in ledger.receivables PROVE d.pay >= Bound'
    BY <1>1 DEF PaidLater
  <2> QED BY <1>3, <1>4 DEF EngineInvariant, PaidLater
<1>8. BuysCovered' /\ Worth(ledger') = InitialCash
  BY <1>1 DEF EngineInvariant, BuysCovered
<1> QED BY <1>2, <1>6, <1>7, <1>8 DEF EngineInvariant

(* Nothing moved. *)
LEMMA SameCashItself == ASSUME NEW l, LedgerTyped(l) PROVE SameCash(l, l)
BY DEF SameCash

(* Nothing moved, twice. *)
LEMMA SameCashTwice ==
    ASSUME NEW l, NEW m, NEW n, SameCash(l, m), SameCash(m, n)
    PROVE  SameCash(l, n)
BY DEF SameCash

(* A step that moves no cash keeps what is said of the ledger. *)
LEMMA NoCashMoves ==
    ASSUME EngineInvariant, SameCash(ledger, ledger'), config' = config, book' = book,
           Bound' \in Int, Bound' <= Bound,
           \A d \in ledger'.receivables : d \in ledger.receivables \/ d.pay >= Bound'
    PROVE  DueLater' /\ PaidLater' /\ BuysCovered' /\ Worth(ledger)' = InitialCash
<1>1. Bound \in Int
  BY BoundFacts DEF EngineInvariant
<1>2. FinalDue' = FinalDue
  BY DEF FinalDue, LastSession
<1>3. /\ \A k \in DOMAIN ledger.pending : ledger.pending[k].due \in Nat
      /\ \A d \in ledger.receivables : d.pay \in Nat
  BY PendingFacts DEF EngineInvariant, EngineTyped, LedgerTyped
<1>4. /\ ledger'.pending = ledger.pending /\ Worth(ledger') = Worth(ledger)
      /\ Available(ledger') = Available(ledger)
  BY DEF SameCash
<1> HIDE DEF Bound
<1>5. DueLater'
  <2> SUFFICES ASSUME NEW k \in DOMAIN ledger.pending
               PROVE  /\ ledger.pending[k].due <= FinalDue
                      /\ ledger.pending[k].done \/ ledger.pending[k].due > Bound' \/ SettlementLag = 0
    BY <1>2, <1>4 DEF DueLater
  <2> QED BY <1>1, <1>3 DEF EngineInvariant, DueLater
<1>6. PaidLater'
  <2> SUFFICES ASSUME NEW d \in ledger'.receivables PROVE d.pay >= Bound'
    BY DEF PaidLater
  <2>1. CASE d \in ledger.receivables
    BY <1>1, <1>3, <2>1 DEF EngineInvariant, PaidLater
  <2> QED BY <2>1
<1>7. BuysCovered'
  BY <1>4 DEF EngineInvariant, BuysCovered, SalesPayIn
<1> QED BY <1>4, <1>5, <1>6, <1>7 DEF EngineInvariant

(* A day without a session. *)
LEMMA NoSessionKeeps == ASSUME EngineInvariant, NoSession PROVE EngineInvariant'
<1>1. /\ phase = "decide" /\ phase' = "account" /\ session' = <<>>
      /\ UNCHANGED <<config, day, intents, pendingActions, ledger, book>>
  BY DEF NoSession
<1>2. intents = {}
  BY <1>1 DEF EngineInvariant, IntentsOfToday
<1>3. EngineTyped' /\ IntentsOfToday' /\ OrdersOfThePast'
  BY <1>1, <1>2 DEF EngineInvariant, EngineTyped, SessionTyped, IntentsOfToday, OrdersOfThePast, Phases
<1>4. Bound' = Bound /\ Bound' \in Int
  BY <1>1 DEF Bound, EngineInvariant, EngineTyped
<1>5. SameCash(ledger, ledger')
  BY <1>1, SameCashItself DEF EngineInvariant, EngineTyped
<1>6. DueLater' /\ PaidLater' /\ BuysCovered' /\ Worth(ledger)' = InitialCash
  BY <1>1, <1>4, <1>5, NoCashMoves
<1> QED BY <1>3, <1>6 DEF EngineInvariant

(* A decision makes intents of its day, one for an instrument. *)
LEMMA DecideKeeps ==
    ASSUME EngineInvariant, phase = "decide", day \in config.sessions,
           NEW quoted \in SUBSET Instruments,
           NEW quotes \in [quoted -> UNION {Quotes[i] : i \in quoted}],
           \A i \in quoted : quotes[i] \in Quotes[i],
           NEW rows \in Rows, Decide(quotes, rows)
    PROVE  EngineInvariant'
<1>1. CASE \E reason : Raise(reason)
  BY <1>1, RaiseKeeps
<1>2. CASE ~\E reason : Raise(reason)
  <2> DEFINE nav == NetAssetValue(ledger)
             rebalances == day \in Scheduled(config.setup.rebalance, config.sessions)
             covered == Covered(config.setup.rebalance, rows)
             targets == IF rebalances /\ covered
                        THEN StrategyTargets(config.setup.policy, config.setup.rebalance, rows) ELSE <<>>
             Held(i) == ledger.positions[i].quantity
             Wanted(i) == TargetQuantity(targets[i], nav, quotes[i].ref, Held(i))
             changed == {i \in DOMAIN targets : Wanted(i) # Held(i)}
             made == {Intent(<<day, i>>, i, Wanted(i), Held(i)) : i \in changed}
  <2>1. /\ DOMAIN targets \subseteq DOMAIN quotes
        /\ session' = [quotes |-> quotes] /\ intents' = made
        /\ phase' = "account"
        /\ UNCHANGED <<config, day, pendingActions, openNav, ledger, book, tally, failure>>
    BY <1>2 DEF Decide
  <2>2. DOMAIN quotes = quoted /\ \A i \in quoted : i \in Instruments /\ ValidQuote(quotes[i])
    BY EngineAssumption
  <2>3. ValidPolicy(config.setup.policy)
    BY ConfigFacts, EngineAssumption DEF EngineInvariant, EngineTyped
  <2>4. \A i \in DOMAIN targets : i \in Instruments /\ targets[i] \in Weights
    BY <2>3, TargetsFacts
  <2> HIDE DEF targets, nav
  <2>5. nav \in Int
    BY NavInt DEF EngineInvariant, EngineTyped, nav
  <2>6. ASSUME NEW i \in changed
        PROVE  /\ Wanted(i) \in Int /\ Held(i) \in Nat /\ Wanted(i) # Held(i)
               /\ i \in Instruments /\ i \in DOMAIN quotes
    <3>1. i \in DOMAIN targets /\ i \in Instruments /\ i \in quoted /\ targets[i] \in Weights
      BY <2>1, <2>2, <2>4
    <3>2. quotes[i].ref \in Nat \ {0}
      BY <2>2, <3>1 DEF ValidQuote
    <3>3. Held(i) \in Nat
      BY <3>1 DEF EngineInvariant, EngineTyped, LedgerTyped, Positions
    <3> HIDE DEF Held
    <3>4. Wanted(i) \in Int
      BY <2>5, <3>1, <3>2, <3>3, QuantityFacts
    <3> QED BY <2>2, <3>1, <3>3, <3>4
  <2> HIDE DEF Wanted, Held, changed
  <2>7. \A i \in changed :
          LET a == Intent(<<day, i>>, i, Wanted(i), Held(i))
          IN IntentTyped(a, day) /\ a.instrument = i /\ a.id = <<day, i>>
    BY <2>6, IntentFacts
  <2>8. /\ \A a \in made : /\ IntentTyped(a, day) /\ a.id = <<day, a.instrument>>
                           /\ a.instrument \in DOMAIN quotes
        /\ \A a, b \in made : a.instrument = b.instrument => a = b
    <3>1. \A i \in changed : i \in DOMAIN quotes
      BY <2>6
    <3>2. ASSUME NEW a \in made
          PROVE  /\ IntentTyped(a, day) /\ a.id = <<day, a.instrument>>
                 /\ a.instrument \in DOMAIN quotes
                 /\ a = Intent(<<day, a.instrument>>, a.instrument,
                               Wanted(a.instrument), Held(a.instrument))
      <4>1. PICK i \in changed : a = Intent(<<day, i>>, i, Wanted(i), Held(i))
        OBVIOUS
      <4> HIDE DEF made
      <4>2. IntentTyped(a, day) /\ a.instrument = i /\ a.id = <<day, i>>
        BY <2>7, <4>1
      <4> QED BY <3>1, <4>1, <4>2
    <3> HIDE DEF made
    <3>3. ASSUME NEW a \in made, NEW b \in made, a.instrument = b.instrument PROVE a = b
      <4>1. /\ a = Intent(<<day, a.instrument>>, a.instrument,
                          Wanted(a.instrument), Held(a.instrument))
            /\ b = Intent(<<day, b.instrument>>, b.instrument,
                          Wanted(b.instrument), Held(b.instrument))
        BY <3>2
      <4> QED BY <3>3, <4>1
    <3> QED BY <3>2, <3>3
  <2> HIDE DEF made
  <2>9. \A a \in made : a.id \notin DOMAIN book
    <3> SUFFICES ASSUME NEW a \in made, a.id \in DOMAIN book PROVE FALSE
      OBVIOUS
    <3>1. a.id[1] = day
      BY <2>8
    <3>2. a.id[1] < day /\ day \in Nat
      BY DEF EngineInvariant, OrdersOfThePast, EngineTyped
    <3> QED BY <3>1, <3>2
  <2>10. session' # <<>> /\ session'.quotes = quotes
    <3>1. DOMAIN [quotes |-> quotes] = {"quotes"} /\ DOMAIN <<>> = {}
      OBVIOUS
    <3> QED BY <2>1, <3>1
  <2>11. IntentsOfToday'
    <3>1. \A a, b \in made : a.id = b.id => a.instrument = b.instrument
      BY <2>8
    <3> QED BY <2>1, <2>8, <2>9, <2>10, <3>1 DEF IntentsOfToday
  <2>12. EngineTyped' /\ OrdersOfThePast'
    BY <2>1, <2>2, <2>10 DEF EngineInvariant, EngineTyped, SessionTyped, OrdersOfThePast, Phases
  <2>13. Bound' = Bound /\ Bound' \in Int
    BY <2>1 DEF Bound, EngineInvariant, EngineTyped
  <2>14. SameCash(ledger, ledger')
    BY <2>1, SameCashItself DEF EngineInvariant, EngineTyped
  <2>15. DueLater' /\ PaidLater' /\ BuysCovered' /\ Worth(ledger)' = InitialCash
    BY <2>1, <2>13, <2>14, NoCashMoves
  <2> QED BY <2>11, <2>12, <2>15 DEF EngineInvariant
<1> QED BY <1>1, <1>2

(* After the settlements or an action of a day. *)
LEMMA GoOnFacts ==
    ASSUME EngineTyped, NEW rest, GoOn(rest), session' = session
    PROVE  /\ Bound' = day /\ day' \in {day, day + 1} /\ pendingActions' = rest
           /\ phase' \in {"actions", "decide", "open"}
           /\ phase' = "decide" <=> day' = day + 1
           /\ phase' = "decide" => session' = <<>>
           /\ phase' = "open" => session' # <<>>
<1>1. day \in Nat
  BY DEF EngineTyped
<1> QED BY <1>1 DEF GoOn, Bound

(* The settlements of a day are made before its actions, opening and trades. *)
LEMMA AccountKeeps == ASSUME EngineInvariant, Account PROVE EngineInvariant'
<1>1. CASE \E reason : Raise(reason)
  BY <1>1, RaiseKeeps
<1>2. CASE ~\E reason : Raise(reason)
  <2> DEFINE at == Accounting(day)
             m == ProcessSettlements(ledger, day, at)
             today == {a \in config.setup.actions : a.effective = day}
  <2>1. /\ phase = "account" /\ Good(m) /\ ledger' = m /\ GoOn(today)
        /\ UNCHANGED <<config, session, intents, book>>
    BY <1>2 DEF Account
  <2>2. LedgerTyped(ledger) /\ day \in Nat
    BY DEF EngineInvariant, EngineTyped
  <2> HIDE DEF at
  <2>3. /\ SettledFrom(ledger, m) /\ Available(m) >= 0
        /\ \A k \in DOMAIN m.pending : m.pending[k].done \/ m.pending[k].due > day
        /\ m.receivables = {d \in ledger.receivables : d.pay > day}
    BY <2>1, <2>2, SettlementFacts
  <2> HIDE DEF m
  <2>4. /\ Bound' = day /\ day' \in {day, day + 1} /\ pendingActions' = today
        /\ phase' \in {"actions", "decide", "open"}
        /\ phase' = "decide" <=> day' = day + 1
        /\ phase' = "decide" => session' = <<>>
        /\ phase' = "open" => session' # <<>>
    BY <2>1, GoOnFacts DEF EngineInvariant
  <2>5. EngineTyped'
    BY <2>1, <2>2, <2>3, <2>4 DEF EngineInvariant, EngineTyped, SessionTyped, Phases, SettledFrom
  <2>6. OrdersOfThePast'
    BY <2>1, <2>2, <2>4 DEF EngineInvariant, OrdersOfThePast
  <2>7. IntentsOfToday'
    BY <2>1, <2>2, <2>4 DEF EngineInvariant, IntentsOfToday
  <2>8. DueLater'
    <3>1. FinalDue' = FinalDue
      BY <2>1 DEF FinalDue, LastSession
    <3>2. \A k \in DOMAIN ledger'.pending : ledger'.pending[k].due <= FinalDue
      BY <2>1, <2>3 DEF EngineInvariant, DueLater, SettledFrom
    <3> QED BY <2>1, <2>3, <2>4, <3>1, <3>2 DEF DueLater
  <2>9. PaidLater'
    <3>1. \A d \in ledger.receivables : d.pay \in Nat
      BY <2>2 DEF LedgerTyped
    <3> QED BY <2>1, <2>2, <2>3, <2>4, <3>1 DEF PaidLater
  <2>10. BuysCovered'
    <3>1. Available(ledger) \in Int /\ Available(m) \in Int /\ BuyCash(book) \in Int
      BY <2>2, <2>3, LedgerNumbers, BuyCashFacts DEF SettledFrom, EngineInvariant, EngineTyped
    <3>2. SalesPayIn(m) => SalesPayIn(ledger)
      BY <2>3 DEF SalesPayIn, SettledFrom
    <3> QED BY <2>1, <2>3, <3>1, <3>2 DEF EngineInvariant, BuysCovered, SettledFrom
  <2>11. Worth(ledger)' = InitialCash
    BY <2>1, <2>3 DEF EngineInvariant, SettledFrom
  <2> QED BY <2>5, <2>6, <2>7, <2>8, <2>9, <2>10, <2>11 DEF EngineInvariant
<1> QED BY <1>1, <1>2

(* A corporate action of the day. *)
LEMMA ActKeeps == ASSUME EngineInvariant, Act PROVE EngineInvariant'
<1>1. CASE \E reason : Raise(reason)
  BY <1>1, RaiseKeeps
<1>2. CASE ~\E reason : Raise(reason)
  <2> DEFINE at == Accounting(day)
  <2>1. PICK a \in pendingActions :
          /\ phase = "actions" /\ Good(ApplyAction(ledger, a, at))
          /\ ledger' = ApplyAction(ledger, a, at) /\ GoOn(pendingActions \ {a})
          /\ UNCHANGED <<config, session, intents, book>>
    BY <1>2 DEF Act
  <2>2. LedgerTyped(ledger) /\ day \in Nat
    BY DEF EngineInvariant, EngineTyped
  <2>3. a \in config.setup.actions /\ a.effective = day
    BY <2>1 DEF EngineInvariant, EngineTyped
  <2>4. ValidAction(a)
    BY <2>3, ConfigFacts, EngineAssumption DEF EngineInvariant, EngineTyped
  <2> HIDE DEF at
  <2> DEFINE m == ApplyAction(ledger, a, at)
  <2>5. SameCash(ledger, m) /\ \A d \in m.receivables : d \in ledger.receivables \/ d.pay >= day
    <3>1. CASE a.kind = "dividend"
      <4>1. m = AccrueDividend(ledger, a, at)
        BY <3>1 DEF ApplyAction
      <4>2. a.pay >= day
        BY <2>3, <2>4, <3>1 DEF ValidAction
      <4> QED BY <2>1, <2>2, <2>4, <4>1, <4>2, AccrueFacts
    <3>2. CASE a.kind # "dividend"
      <4>1. m = ApplySplit(ledger, a, at)
        BY <3>2 DEF ApplyAction
      <4> QED BY <2>1, <2>2, <2>4, <4>1, SplitFacts
    <3> QED BY <3>1, <3>2
  <2> HIDE DEF m
  <2>6. /\ Bound' = day /\ day' \in {day, day + 1} /\ pendingActions' = pendingActions \ {a}
        /\ phase' \in {"actions", "decide", "open"}
        /\ phase' = "decide" <=> day' = day + 1
        /\ phase' = "decide" => session' = <<>>
        /\ phase' = "open" => session' # <<>>
    BY <2>1, GoOnFacts DEF EngineInvariant
  <2>7. ledger' = m /\ Bound = day /\ phase = "actions"
    BY <2>1 DEF m, Bound
  <2>8. EngineTyped'
    BY <2>1, <2>2, <2>5, <2>6, <2>7 DEF EngineInvariant, EngineTyped, SessionTyped, Phases, SameCash
  <2>9. OrdersOfThePast'
    BY <2>1, <2>2, <2>6, <2>7 DEF EngineInvariant, OrdersOfThePast
  <2>10. IntentsOfToday'
    BY <2>1, <2>2, <2>6 DEF EngineInvariant, IntentsOfToday
  <2>11. DueLater' /\ PaidLater' /\ BuysCovered' /\ Worth(ledger)' = InitialCash
    BY <2>1, <2>2, <2>5, <2>6, <2>7, NoCashMoves
  <2> QED BY <2>8, <2>9, <2>10, <2>11 DEF EngineInvariant
<1> QED BY <1>1, <1>2

(* The prices of the session, as quoted at its open or at its close. *)
LEMMA PricesFacts ==
    ASSUME EngineTyped, session # <<>>
    PROVE  /\ \A i \in DOMAIN session.quotes :
                /\ i \in Instruments /\ ValidQuote(session.quotes[i])
                /\ session.quotes[i].open \in Nat /\ session.quotes[i].close \in Nat
           /\ day \in config.sessions
<1>1. \A q : ValidQuote(q) => q.open \in Nat /\ q.close \in Nat
  BY DEF ValidQuote
<1> QED BY <1>1 DEF EngineTyped, SessionTyped

(* The marks at the open. *)
LEMMA OpenKeeps == ASSUME EngineInvariant, Open PROVE EngineInvariant'
<1>1. CASE \E reason : Raise(reason)
  BY <1>1, RaiseKeeps
<1>2. CASE ~\E reason : Raise(reason)
  <2> DEFINE price == [i \in DOMAIN session.quotes |-> session.quotes[i].open]
             n == MarkAll(ledger, price)
  <2>1. /\ phase = "open" /\ Good(Checked(n)) /\ ledger' = Checked(n) /\ phase' = "execute"
        /\ UNCHANGED <<config, day, session, intents, pendingActions, book>>
    BY <1>2 DEF Open
  <2>2. LedgerTyped(ledger) /\ day \in Nat /\ session # <<>>
    BY <2>1 DEF EngineInvariant, EngineTyped, IntentsOfToday
  <2>3. \A i \in Instruments \cap DOMAIN price : price[i] \in Int
    BY <2>2, PricesFacts DEF EngineInvariant
  <2> HIDE DEF price
  <2>4. SameCash(ledger, n) /\ n.receivables = ledger.receivables
    BY <2>2, <2>3, MarkFacts
  <2> HIDE DEF n
  <2>5. Checked(n) = n
    BY <2>1, <2>4, CheckedFacts DEF SameCash
  <2>6. SameCash(ledger, ledger') /\ ledger'.receivables = ledger.receivables
    BY <2>1, <2>4, <2>5
  <2>7. EngineTyped' /\ IntentsOfToday' /\ OrdersOfThePast'
    BY <2>1, <2>2, <2>6
       DEF EngineInvariant, EngineTyped, SessionTyped, IntentsOfToday, OrdersOfThePast, Phases, SameCash
  <2>8. Bound' = Bound /\ Bound' \in Int
    BY <2>1, <2>2 DEF Bound
  <2>9. DueLater' /\ PaidLater' /\ BuysCovered' /\ Worth(ledger)' = InitialCash
    BY <2>1, <2>6, <2>8, NoCashMoves
  <2> QED BY <2>7, <2>9 DEF EngineInvariant
<1> QED BY <1>1, <1>2

(* The marks at the close end the day. *)
LEMMA CloseSessionKeeps == ASSUME EngineInvariant, CloseSession PROVE EngineInvariant'
<1>1. CASE \E reason : Raise(reason)
  BY <1>1, RaiseKeeps
<1>2. CASE ~\E reason : Raise(reason)
  <2> DEFINE price == [i \in DOMAIN session.quotes |-> session.quotes[i].close]
             aged == AgeUnmarked(ledger, DOMAIN price)
             n == MarkAll(aged, price)
  <2>1. /\ phase = "execute" /\ intents = {} /\ Good(Checked(n)) /\ ledger' = Checked(n)
        /\ day' = day + 1 /\ phase' = "decide" /\ session' = <<>>
        /\ UNCHANGED <<config, intents, pendingActions, book>>
    BY <1>2 DEF CloseSession
  <2>2. LedgerTyped(ledger) /\ day \in Nat /\ session # <<>>
    BY <2>1 DEF EngineInvariant, EngineTyped, IntentsOfToday
  <2>3. \A i \in Instruments \cap DOMAIN price : price[i] \in Int
    BY <2>2, PricesFacts DEF EngineInvariant
  <2> HIDE DEF price
  <2>4. SameCash(ledger, aged) /\ aged.receivables = ledger.receivables /\ LedgerTyped(aged)
    BY <2>2, AgeFacts DEF SameCash
  <2> HIDE DEF aged
  <2>5. SameCash(aged, n) /\ n.receivables = aged.receivables /\ LedgerTyped(n)
    BY <2>3, <2>4, MarkFacts DEF SameCash
  <2> HIDE DEF n
  <2>6. Checked(n) = n
    BY <2>1, <2>5, CheckedFacts
  <2>7. SameCash(ledger, ledger') /\ ledger'.receivables = ledger.receivables
    BY <2>1, <2>4, <2>5, <2>6, SameCashTwice
  <2>8. EngineTyped' /\ IntentsOfToday'
    BY <2>1, <2>2, <2>7
       DEF EngineInvariant, EngineTyped, SessionTyped, IntentsOfToday, Phases, SameCash
  <2>9. OrdersOfThePast'
    BY <2>1, <2>2 DEF EngineInvariant, OrdersOfThePast
  <2>10. Bound' = Bound /\ Bound' \in Int
    BY <2>1, <2>2 DEF Bound
  <2>11. DueLater' /\ PaidLater' /\ BuysCovered' /\ Worth(ledger)' = InitialCash
    BY <2>1, <2>7, <2>10, NoCashMoves
  <2> QED BY <2>8, <2>9, <2>11 DEF EngineInvariant
<1> QED BY <1>1, <1>2

(* The end of the run. *)
LEMMA CompleteKeeps == ASSUME EngineInvariant, Complete PROVE EngineInvariant'
<1>1. CASE \E reason : Raise(reason)
  BY <1>1, RaiseKeeps
<1>2. CASE ~\E reason : Raise(reason)
  <2>1. /\ phase = "decide" /\ phase' = "done"
        /\ UNCHANGED <<config, day, session, intents, pendingActions, ledger, book>>
    BY <1>2 DEF Complete
  <2>2. LedgerTyped(ledger) /\ day \in Nat /\ intents = {}
    BY <2>1 DEF EngineInvariant, EngineTyped, IntentsOfToday
  <2>3. SameCash(ledger, ledger')
    BY <2>1, <2>2, SameCashItself
  <2>4. EngineTyped' /\ IntentsOfToday' /\ OrdersOfThePast'
    BY <2>1, <2>2
       DEF EngineInvariant, EngineTyped, SessionTyped, IntentsOfToday, OrdersOfThePast, Phases
  <2>5. Bound' = Bound /\ Bound' \in Int
    BY <2>1, <2>2 DEF Bound
  <2>6. DueLater' /\ PaidLater' /\ BuysCovered' /\ Worth(ledger)' = InitialCash
    BY <2>1, <2>3, <2>5, NoCashMoves
  <2> QED BY <2>4, <2>6 DEF EngineInvariant
<1> QED BY <1>1, <1>2

-----------------------------------------------------------------------------
(* Execution. *)
(* From an intent that is executed: it is taken from the intents and its order is in the
   book, or it was rejected and is not. *)
Taken(intent, added, e) ==
    /\ phase = "execute" /\ intent \in intents /\ intents' = intents \ {intent}
    /\ UNCHANGED <<config, day, phase, session, pendingActions>>
    /\ \/ ~added /\ book' = book
       \/ added /\ e.side \in Sides /\ e.cash \in Nat
          /\ book' = [o \in DOMAIN book \cup {intent.id} |-> IF o = intent.id THEN e ELSE book[o]]

(* What a step of the execution does to intents and book. *)
LEMMA TakenFacts ==
    ASSUME EngineInvariant, NEW intent, NEW added, NEW e, Taken(intent, added, e), LedgerTyped(ledger')
    PROVE  /\ EngineTyped' /\ IntentsOfToday' /\ OrdersOfThePast'
           /\ Bound = day /\ Bound' = day /\ day \in Nat
           /\ IntentTyped(intent, day) /\ intent.id \notin DOMAIN book
           /\ BuyCash(book') = BuyCash(book)
                + (IF added /\ e.status = "active" /\ e.side = "buy" THEN e.cash ELSE 0)
<1>1. /\ phase = "execute" /\ intent \in intents /\ intents' = intents \ {intent}
      /\ UNCHANGED <<config, day, phase, session, pendingActions>>
  BY DEF Taken
<1>2. /\ BookOK(book) /\ day \in Nat /\ session # <<>>
      /\ IntentTyped(intent, day) /\ intent.id \notin DOMAIN book
      /\ intent.instrument \in DOMAIN session.quotes
  BY <1>1 DEF EngineInvariant, EngineTyped, IntentsOfToday
<1>3. Bound = day /\ Bound' = day
  BY <1>1 DEF Bound
<1>4. /\ BookOK(book') /\ DOMAIN book' \subseteq DOMAIN book \cup {intent.id}
      /\ BuyCash(book') = BuyCash(book)
                + (IF added /\ e.status = "active" /\ e.side = "buy" THEN e.cash ELSE 0)
  <2>1. CASE added
    <3>1. /\ e.side \in Sides /\ e.cash \in Nat
          /\ book' = [o \in DOMAIN book \cup {intent.id} |-> IF o = intent.id THEN e ELSE book[o]]
      BY <2>1 DEF Taken
    <3>2. /\ BookOK(book') /\ DOMAIN book' = DOMAIN book \cup {intent.id}
          /\ BuyCash(book') = BuyCash(book)
                + (IF e.status = "active" /\ e.side = "buy" THEN e.cash ELSE 0)
      <4>1. PICK id, c : id = intent.id /\ c = book'
        OBVIOUS
      <4>2. AddedOrder(book, id, c, e)
        BY <1>2, <3>1, <4>1 DEF AddedOrder
      <4>3. /\ BookOK(c) /\ DOMAIN c = DOMAIN book \cup {id}
            /\ BuyCash(c) = BuyCash(book)
                  + (IF e.status = "active" /\ e.side = "buy" THEN e.cash ELSE 0)
        BY <1>2, <4>2, NewOrderFacts
      <4> QED BY <4>1, <4>3
    <3> QED BY <2>1, <3>2
  <2>2. CASE ~added
    <3>1. book' = book
      BY <2>2 DEF Taken
    <3>2. BuyCash(book) \in Nat
      BY <1>2, BuyCashFacts
    <3> QED BY <1>2, <2>2, <3>1, <3>2
  <2> QED BY <2>1, <2>2
<1>5. EngineTyped'
  BY <1>1, <1>2, <1>4 DEF EngineInvariant, EngineTyped, SessionTyped
<1>6. IntentsOfToday'
  BY <1>1, <1>2, <1>4 DEF EngineInvariant, IntentsOfToday
<1>7. OrdersOfThePast'
  <2>1. intent.id[1] = day
    BY <1>2 DEF IntentTyped
  <2> QED BY <1>1, <1>2, <1>4, <2>1 DEF EngineInvariant, OrdersOfThePast
<1> QED BY <1>2, <1>3, <1>4, <1>5, <1>6, <1>7

(* An intent that is rejected, or whose order finds no quantity, moves no cash. *)
LEMMA IdleKeeps ==
    ASSUME EngineInvariant, NEW intent, NEW added, NEW e, Taken(intent, added, e), ledger' = ledger,
           added => e.status # "active"
    PROVE  EngineInvariant'
<1>1. LedgerTyped(ledger')
  BY DEF EngineInvariant, EngineTyped
<1>2. /\ EngineTyped' /\ IntentsOfToday' /\ OrdersOfThePast'
      /\ Bound = day /\ Bound' = day /\ day \in Nat
      /\ BuyCash(book') = BuyCash(book)
                + (IF added /\ e.status = "active" /\ e.side = "buy" THEN e.cash ELSE 0)
  BY <1>1, TakenFacts
<1>3. BuyCash(book') = BuyCash(book)
  BY <1>2, BuyCashFacts DEF EngineInvariant, EngineTyped
<1>4. FinalDue' = FinalDue
  BY DEF Taken, FinalDue, LastSession
<1>5. DueLater' /\ PaidLater'
  BY <1>2, <1>4 DEF EngineInvariant, DueLater, PaidLater
<1>6. BuysCovered' /\ Worth(ledger)' = InitialCash
  BY <1>3 DEF EngineInvariant, BuysCovered
<1> QED BY <1>2, <1>5, <1>6 DEF EngineInvariant

(* A fill that risk approved at its price, and the order it leaves in the book. *)
ApprovedFill(intent, price, fill, e) ==
    /\ price \in Nat /\ FillTyped(fill) /\ fill.side = intent.side /\ e.side = intent.side
    /\ Reasons(intent, price, ledger, openNav, book) = {}
    /\ intent.side = "buy" =>
          e.cash + Spent(fill) <= price * intent.quantity + Costs("buy", price * intent.quantity)

(* An approved fill takes no cash that another purchase counts on. *)
LEMMA FillKeeps ==
    ASSUME EngineInvariant, NEW intent, NEW e, Taken(intent, TRUE, e), NEW price, NEW fill,
           ApprovedFill(intent, price, fill, e),
           Good(ApplyFill(ledger, fill, day, Horizon)),
           ledger' = ApplyFill(ledger, fill, day, Horizon)
    PROVE  EngineInvariant'
<1> DEFINE m == ApplyFill(ledger, fill, day, Horizon)
           item == Obligation(fill, day + SettlementLag, Owing(fill))
<1>1. LedgerTyped(ledger) /\ BookOK(book) /\ day \in Nat /\ Horizon \in Nat
      /\ config \in {c \in Configs : ValidConfig(c)}
  BY EngineAssumption DEF EngineInvariant, EngineTyped
<1>2. FillTyped(fill)
  BY DEF ApprovedFill
<1>3. /\ LedgerTyped(m) /\ Worth(m) = Worth(ledger)
      /\ Available(m) = Available(ledger) - Spent(fill) /\ Available(m) >= 0
      /\ m.pending = Append(ledger.pending, item) /\ m.receivables = ledger.receivables
  BY <1>1, <1>2, FillFacts
<1> HIDE DEF m
<1>4. ledger' = m
  BY DEF m
<1>5. /\ EngineTyped' /\ IntentsOfToday' /\ OrdersOfThePast'
      /\ Bound = day /\ Bound' = day
      /\ IntentTyped(intent, day) /\ intent.id \notin DOMAIN book
      /\ BuyCash(book') = BuyCash(book)
            + (IF e.status = "active" /\ e.side = "buy" THEN e.cash ELSE 0)
  BY <1>3, <1>4, TakenFacts
<1>6. /\ Len(ledger.pending) \in Nat /\ DOMAIN ledger.pending = 1 .. Len(ledger.pending)
      /\ DOMAIN m.pending = 1 .. Len(ledger.pending) + 1
      /\ m.pending[Len(ledger.pending) + 1] = item
      /\ \A k \in DOMAIN ledger.pending : m.pending[k] = ledger.pending[k]
  <2>1. ledger.pending \in Seq(Items)
    BY <1>1 DEF LedgerTyped
  <2> HIDE DEF item
  <2> QED BY <1>3, <2>1
<1>7. FinalDue' = FinalDue
  BY DEF Taken, FinalDue, LastSession
<1>8. DueLater'
  <2>1. day \in config.sessions
    <3>1. session # <<>>
      BY DEF EngineInvariant, IntentsOfToday, Taken
    <3> QED BY <3>1 DEF EngineInvariant, EngineTyped, SessionTyped
  <2>2. FinalDue = LastSession + SettlementLag /\ day <= LastSession /\ LastSession \in Nat
        /\ SettlementLag \in Nat
    BY <1>1, <2>1, ConfigFacts, PolicyAssumption
  <2>3. item.due <= FinalDue /\ (item.due > day \/ SettlementLag = 0)
    BY <1>1, <2>2 DEF Obligation
  <2>4. \A k \in DOMAIN ledger.pending :
          /\ m.pending[k].due <= FinalDue
          /\ m.pending[k].done \/ m.pending[k].due > day \/ SettlementLag = 0
    BY <1>5, <1>6 DEF EngineInvariant, DueLater
  <2> HIDE DEF item
  <2>5. \A k \in DOMAIN m.pending : k \in DOMAIN ledger.pending \/ m.pending[k] = item
    BY <1>6
  <2>6. ASSUME NEW k \in DOMAIN m.pending
        PROVE  /\ m.pending[k].due <= FinalDue
               /\ m.pending[k].done \/ m.pending[k].due > day \/ SettlementLag = 0
    <3>1. CASE k \in DOMAIN ledger.pending
      BY <2>4, <3>1
    <3>2. CASE m.pending[k] = item
      <4>1. m.pending[k].due = item.due
        BY <3>2
      <4> QED BY <2>3, <4>1
    <3> QED BY <2>5, <3>1, <3>2
  <2> HIDE DEF FinalDue
  <2> QED BY <1>4, <1>5, <1>7, <2>6 DEF DueLater
<1>9. PaidLater'
  BY <1>3, <1>4, <1>5 DEF EngineInvariant, PaidLater
<1>10. SalesPayIn(m) => SalesPayIn(ledger)
  BY <1>6 DEF SalesPayIn
<1>11. /\ Available(ledger) \in Int /\ BuyCash(book) \in Nat /\ ReservedCash(book) \in Nat
       /\ BuyCash(book) <= ReservedCash(book)
  BY <1>1, LedgerNumbers, BuyCashFacts
<1>12. BuysCovered'
  <2>1. /\ e.side = intent.side /\ fill.side = intent.side /\ intent.side \in Sides
        /\ e.cash \in Nat /\ price \in Nat
    BY <1>5 DEF ApprovedFill, Taken, IntentTyped
  <2>2. CASE intent.side = "buy"
    <3> DEFINE required == price * intent.quantity + Costs("buy", price * intent.quantity)
    <3>1. intent.id[1] = day
      BY <1>5 DEF IntentTyped
    <3>2. Reasons(intent, price, ledger, openNav, book) = {}
      BY DEF ApprovedFill
    <3>3. required <= Available(ledger) - ReservedCash(book)
      BY <1>1, <1>5, <2>1, <2>2, <3>1, <3>2, ApprovedFacts
    <3>4. e.cash + Spent(fill) <= required
      BY <2>2 DEF ApprovedFill
    <3>5. Spent(fill) \in Nat /\ required \in Nat
      <4>1. price * intent.quantity \in Nat
        BY <1>5, <2>1 DEF IntentTyped
      <4>2. Costs("buy", price * intent.quantity) \in Nat
        BY <4>1, FeeFacts, TaxFacts DEF Costs
      <4>3. fill.price * fill.quantity + fill.fee \in Nat
        BY <1>2 DEF FillTyped
      <4> QED BY <4>1, <4>2, <4>3 DEF Spent
    <3> HIDE DEF required
    <3>6. BuyCash(book') <= BuyCash(book) + e.cash
      BY <1>5, <1>11, <2>1
    <3>7. BuyCash(book') <= Available(m)
      <4>1. BuyCash(book') \in Int
        BY <1>5, <1>11, <2>1
      <4> QED BY <1>3, <1>11, <2>1, <3>3, <3>4, <3>5, <3>6, <4>1
    <3> QED BY <1>3, <1>4, <3>7 DEF BuysCovered
  <2>3. CASE intent.side # "buy"
    <3>1. Spent(fill) = 0 /\ BuyCash(book') = BuyCash(book)
      BY <1>5, <1>11, <2>1, <2>3 DEF Spent
    <3> QED BY <1>3, <1>4, <1>10, <1>11, <3>1 DEF EngineInvariant, BuysCovered
  <2> QED BY <2>2, <2>3
<1>13. Worth(ledger)' = InitialCash
  BY <1>3, <1>4 DEF EngineInvariant
<1> QED BY <1>5, <1>8, <1>9, <1>12, <1>13 DEF EngineInvariant

(* One pass of the loop over the intents: rejected, unfilled or filled. *)
LEMMA ExecuteKeeps == ASSUME EngineInvariant, Execute PROVE EngineInvariant'
<1>1. CASE \E reason : Raise(reason)
  BY <1>1, RaiseKeeps
<1>2. CASE ~\E reason : Raise(reason)
  <2>1. PICK intent \in intents :
          LET quote == session.quotes[intent.instrument]
              price == EstimatedPrice(intent.side, quote.open)
              reserved == Reserve(book, intent, price)
              quantity == FilledQuantity(intent.quantity, quote)
          IN \/ Rejected(intent)
             \/ quantity = 0 /\ Unfilled(intent, reserved)
             \/ /\ Reasons(intent, price, ledger, openNav, book) = {}
                /\ quantity # 0 /\ Filled(intent, reserved, price, quantity)
    BY <1>2 DEF Execute
  <2>2. phase = "execute"
    BY DEF Execute
  <2>3. /\ LedgerTyped(ledger) /\ BookOK(book) /\ session # <<>> /\ day \in Nat
        /\ IntentTyped(intent, day) /\ intent.id \notin DOMAIN book
        /\ intent.instrument \in DOMAIN session.quotes
    BY <2>2 DEF EngineInvariant, EngineTyped, IntentsOfToday
  <2>4. intent.instrument \in Instruments /\ intent.side \in Sides /\ intent.quantity \in Nat \ {0}
        /\ intent.id[1] = day /\ intent.id \in OrderIds
    BY <2>3 DEF IntentTyped, OrderIds
  <2> DEFINE quote == session.quotes[intent.instrument]
             price == EstimatedPrice(intent.side, quote.open)
             reserved == Reserve(book, intent, price)
             quantity == FilledQuantity(intent.quantity, quote)
             new == EnteredOrder(intent, price)
  <2>5. ValidQuote(quote) /\ quote.open \in Nat
    BY <2>3, PricesFacts DEF EngineInvariant
  <2>6. price \in Nat /\ quantity \in Nat /\ quantity <= intent.quantity
    BY <2>4, <2>5, EstimatedPriceFacts, FilledQuantityFacts
  <2>7. /\ reserved[intent.id] = new
        /\ \A e : [reserved EXCEPT ![intent.id] = e]
                    = [o \in DOMAIN book \cup {intent.id} |-> IF o = intent.id THEN e ELSE book[o]]
    <3> HIDE DEF price, quote, quantity
    <3>1. reserved = [o \in DOMAIN book \cup {intent.id} |-> IF o = intent.id THEN new ELSE book[o]]
      BY <2>3 DEF Reserve, EnteredOrder
    <3> HIDE DEF reserved, new
    <3> QED BY <3>1
  <2>8. new.side = intent.side /\ {"side", "cash", "status"} \subseteq DOMAIN new
    BY DEF EnteredOrder
  <2> HIDE DEF quote, price, reserved, quantity, new
  <2>9. CASE Rejected(intent)
    <3>1. Taken(intent, FALSE, <<>>) /\ ledger' = ledger
      BY <2>2, <2>9 DEF Rejected, Taken
    <3> QED BY <3>1, IdleKeeps
  <2>10. CASE Unfilled(intent, reserved)
    <3> DEFINE e == Release(new, "expired")
    <3>1. e.cash = 0 /\ e.cash \in Nat /\ e.side = intent.side /\ e.status = "expired"
      BY <2>8, ReleasedFacts
    <3>2. book' = [reserved EXCEPT ![intent.id] = e] /\ ledger' = ledger
          /\ intents' = intents \ {intent}
          /\ UNCHANGED <<config, day, phase, session, pendingActions>>
      BY <2>7, <2>10 DEF Unfilled
    <3> HIDE DEF e
    <3>3. book' = [o \in DOMAIN book \cup {intent.id} |-> IF o = intent.id THEN e ELSE book[o]]
      BY <2>7, <3>2
    <3>4. Taken(intent, TRUE, e)
      BY <2>2, <2>4, <3>1, <3>2, <3>3 DEF Taken
    <3>5. e.status # "active"
      BY <3>1
    <3> QED BY <3>2, <3>4, <3>5, IdleKeeps
  <2>11. CASE /\ Reasons(intent, price, ledger, openNav, book) = {}
              /\ quantity # 0 /\ Filled(intent, reserved, price, quantity)
    <3> DEFINE gross == price * quantity
               fill == [id |-> intent.id, instrument |-> intent.instrument, side |-> intent.side,
                        quantity |-> quantity, price |-> price,
                        fee |-> IncrementalFee(0, gross, 0), tax |-> Tax(intent.side, gross),
                        at |-> Execution(day)]
               updated == FillReservation(new, fill)
               released == Release(updated, "cancelled")
               required == price * intent.quantity + Costs("buy", price * intent.quantity)
    <3>1. /\ Good(ApplyFill(ledger, fill, day, Horizon))
          /\ ledger' = ApplyFill(ledger, fill, day, Horizon)
          /\ \E e \in {updated, released} : book' = [reserved EXCEPT ![intent.id] = e]
          /\ intents' = intents \ {intent}
          /\ UNCHANGED <<config, day, phase, session, pendingActions>>
      BY <1>2, <2>7, <2>11 DEF Filled
    <3>2. /\ gross \in Nat /\ Fee(gross) \in Nat /\ Tax(intent.side, gross) \in Nat
          /\ intent.side = "buy" => Tax(intent.side, gross) = 0
      <4>1. gross \in Nat
        BY <2>6
      <4> HIDE DEF gross
      <4> QED BY <4>1, FeeFacts, TaxFacts DEF Tax
    <3>3. IncrementalFee(0, gross, 0) = Fee(gross)
      <4>1. 0 + gross = gross /\ Fee(gross) - 0 = Fee(gross)
        <5>1. \A g, f \in Nat : 0 + g = g /\ f - 0 = f
          OBVIOUS
        <5> HIDE DEF gross, fill
        <5> QED BY <3>2, <5>1
      <4> HIDE DEF gross
      <4> QED BY <4>1 DEF IncrementalFee
    <3>4. /\ fill.side = intent.side /\ fill.quantity = quantity /\ fill.price = price
          /\ fill.fee = Fee(gross) /\ fill.tax = Tax(intent.side, gross)
          /\ fill.id = intent.id /\ fill.instrument = intent.instrument
      BY <3>3
    <3> HIDE DEF fill
    <3>5. FillTyped(fill)
      BY <2>4, <2>6, <2>11, <3>2, <3>4 DEF FillTyped
    <3>6. /\ updated.side = intent.side /\ updated.cash \in Nat
          /\ {"side", "cash", "status"} \subseteq DOMAIN updated
          /\ intent.side = "buy" => updated.cash + Spent(fill) <= required
      BY <2>3, <2>4, <2>6, <2>11, <3>4, UpdatedFacts DEF new
    <3> HIDE DEF updated
    <3>7. released.cash = 0 /\ released.side = intent.side
      BY <3>6, ReleasedFacts
    <3>8. PICK e \in {updated, released} : book' = [reserved EXCEPT ![intent.id] = e]
      BY <3>1
    <3>9. Spent(fill) \in Nat
      BY <3>5 DEF FillTyped, Spent
    <3>10. required \in Nat
      <4>1. price * intent.quantity \in Nat
        BY <2>4, <2>6
      <4>2. Costs("buy", price * intent.quantity) \in Nat
        BY <4>1, FeeFacts, TaxFacts DEF Costs
      <4> QED BY <4>1, <4>2
    <3> HIDE DEF released, required
    <3>11. /\ e.side = intent.side /\ e.cash \in Nat
           /\ intent.side = "buy" => e.cash + Spent(fill) <= required
      BY <3>6, <3>7, <3>8, <3>9, <3>10
    <3>12. book' = [o \in DOMAIN book \cup {intent.id} |-> IF o = intent.id THEN e ELSE book[o]]
      BY <2>7, <3>8
    <3>13. Taken(intent, TRUE, e)
      BY <2>2, <2>4, <3>1, <3>11, <3>12 DEF Taken
    <3>14. ApprovedFill(intent, price, fill, e)
      BY <2>6, <2>11, <3>4, <3>5, <3>11 DEF ApprovedFill, required
    <3> QED BY <3>1, <3>13, <3>14, FillKeeps
  <2> QED BY <2>1, <2>9, <2>10, <2>11 DEF quote, price, reserved, quantity
<1> QED BY <1>1, <1>2

(* A stuttering step. *)
LEMMA StutterKeeps == ASSUME EngineInvariant, UNCHANGED vars PROVE EngineInvariant'
<1>1. UNCHANGED <<config, day, phase, session, intents, pendingActions, ledger, book>>
  BY DEF vars
<1>2. EngineTyped' /\ IntentsOfToday' /\ OrdersOfThePast'
  BY <1>1 DEF EngineInvariant, EngineTyped, SessionTyped, IntentsOfToday, OrdersOfThePast
<1>3. FinalDue' = FinalDue /\ Bound' = Bound
  BY <1>1 DEF FinalDue, LastSession, Bound
<1> HIDE DEF FinalDue, Bound
<1>4. DueLater' /\ PaidLater' /\ BuysCovered' /\ Worth(ledger)' = InitialCash
  BY <1>1, <1>3 DEF EngineInvariant, DueLater, PaidLater, BuysCovered
<1> QED BY <1>2, <1>4 DEF EngineInvariant

(* Every step keeps the invariant. *)
LEMMA EngineSteps == ASSUME EngineInvariant, [Next]_vars PROVE EngineInvariant'
<1>1. CASE DecideSession
  <2>1. /\ phase = "decide" /\ day \in config.sessions
        /\ \E quoted \in SUBSET Instruments :
             \E quotes \in [quoted -> UNION {Quotes[i] : i \in quoted}], rows \in Rows :
                /\ \A i \in quoted : quotes[i] \in Quotes[i]
                /\ Decide(quotes, rows)
    BY <1>1 DEF DecideSession
  <2> QED BY <2>1, DecideKeeps
<1>2. CASE Ended
  BY <1>2, StutterKeeps DEF Ended
<1>3. CASE NoSession \/ Account \/ Act \/ Open
  BY <1>3, NoSessionKeeps, AccountKeeps, ActKeeps, OpenKeeps
<1>4. CASE Execute \/ CloseSession \/ Complete
  BY <1>4, ExecuteKeeps, CloseSessionKeeps, CompleteKeeps
<1> QED BY <1>1, <1>2, <1>3, <1>4, StutterKeeps DEF Next

(* The invariant holds along every run, for any instruments, quotes, predictions, policies,
   corporate actions and calendars (backtest/engine.py run). *)
THEOREM EngineTheorem == Spec => []EngineInvariant
<1>1. EngineInvariant /\ [Next]_vars => EngineInvariant'
  BY EngineSteps
<1> QED BY <1>1, EngineStarts, PTL DEF Spec

(* MoneyConserved in the words of the invariant. *)
LEMMA WorthSpelled ==
    ASSUME EngineInvariant PROVE MoneyConserved
<1>1. LedgerTyped(ledger) /\ Worth(ledger) = InitialCash /\ InitialCash \in Int
  BY EngineAssumption DEF EngineInvariant, EngineTyped
<1> DEFINE cost == SumFunction([i \in Instruments |-> ledger.positions[i].book])
<1>2. BookTotal(ledger) = cost
  BY DEF BookTotal
<1>3. /\ ledger.settled \in Int /\ Receivables(ledger) \in Int /\ Payables(ledger) \in Int
      /\ DividendReceivables(ledger) \in Int /\ cost \in Int
      /\ ledger.realized \in Int /\ ledger.dividends \in Int
  BY <1>1, <1>2, LedgerNumbers
<1>4. ledger.settled + Receivables(ledger) - Payables(ledger) + DividendReceivables(ledger)
        + cost - ledger.realized - ledger.dividends = InitialCash
  BY <1>1, <1>2 DEF Worth
<1>5. \A s, r, p, d, c, e, v, w \in Int :
        s + r - p + d + c - e - v = w => s + r - p + d = w + e + v - c
  OBVIOUS
<1>6. ledger.settled + Receivables(ledger) - Payables(ledger) + DividendReceivables(ledger)
        = InitialCash + ledger.realized + ledger.dividends - cost
  BY ONLY <1>1, <1>3, <1>4, <1>5
<1> QED BY <1>6 DEF MoneyConserved

(* No step of a run makes or loses money: MoneyConserved, whatever fills, partial sales with
   rounded costs, settlements, dividends and splits come in whatever order
   (portfolio/accounting.py). *)
THEOREM MoneyTheorem == Spec => []MoneyConserved
BY EngineTheorem, WorthSpelled, PTL

(* PurchasesStayCovered in the words of the invariant. *)
LEMMA BuysSpelled ==
    ASSUME EngineInvariant PROVE PurchasesStayCovered
<1> DEFINE buys == {o \in Active(book) : book[o].side = "buy"}
<1>1. SumFunction([o \in buys |-> book[o].cash]) = BuyCash(book)
  BY DEF BuyCash, ActiveBuys
<1>2. SalesPay <=> SalesPayIn(ledger)
  BY DEF SalesPay, SalesPayIn
<1> QED BY <1>1, <1>2 DEF EngineInvariant, BuysCovered, PurchasesStayCovered

(* The cash that an order waiting for its rest counts on is never taken by a later fill,
   settlement or dividend: PurchasesStayCovered (risk/pretrade.py evaluate,
   risk/reservations.py reserve and apply_fill). *)
THEOREM CoverTheorem == Spec => []PurchasesStayCovered
BY EngineTheorem, BuysSpelled, PTL

(* A run is done after the last settlement day. *)
DoneLate == phase = "done" => day > FinalDue

(* No step but the last ends a run well. *)
LEMMA DoneLateStays == ASSUME DoneLate, [Next]_vars PROVE DoneLate'
<1>1. config' = config => FinalDue' = FinalDue
  BY DEF FinalDue, LastSession
<1>2. CASE Complete
  <2>1. config' = config /\ day' = day /\ day > FinalDue
    BY <1>2 DEF Complete, Raise
  <2> QED BY <1>1, <2>1 DEF DoneLate
<1>3. CASE UNCHANGED vars \/ Ended
  <2>1. config' = config /\ day' = day /\ phase' = phase
    BY <1>3 DEF vars, Ended
  <2> QED BY <1>1, <2>1 DEF DoneLate
<1>4. CASE NoSession \/ DecideSession \/ Account \/ Act \/ Open \/ Execute \/ CloseSession
  <2>1. CASE \E reason : Raise(reason)
    BY <2>1 DEF Raise, DoneLate
  <2>2. CASE ~\E reason : Raise(reason)
    <3>1. CASE NoSession \/ Open \/ CloseSession
      BY <2>2, <3>1 DEF NoSession, Open, CloseSession, DoneLate
    <3>2. CASE DecideSession
      BY <2>2, <3>2 DEF DecideSession, Decide, DoneLate
    <3>3. CASE Account \/ Act
      BY <2>2, <3>3 DEF Account, Act, GoOn, DoneLate
    <3>4. CASE Execute
      <4>1. PICK intent, reserved, price, quantity :
              Rejected(intent) \/ Unfilled(intent, reserved) \/ Filled(intent, reserved, price, quantity)
        BY <2>2, <3>4 DEF Execute
      <4>2. phase' = phase /\ phase = "execute"
        BY <2>2, <3>4, <4>1 DEF Execute, Rejected, Unfilled, Filled
      <4> QED BY <4>2 DEF DoneLate
    <3> QED BY <1>4, <3>1, <3>2, <3>3, <3>4
  <2> QED BY <2>1, <2>2
<1> QED BY <1>2, <1>3, <1>4 DEF Next

(* What is still open at the end would be due after the run. *)
LEMMA SettledSpelled ==
    ASSUME EngineInvariant, DoneLate, SettlementLag > 0 PROVE SettledAtTheEnd
<1> SUFFICES ASSUME phase = "done"
             PROVE  /\ Payables(ledger) = 0 /\ Receivables(ledger) = 0
                    /\ \A d \in ledger.receivables : d.pay >= FinalDue
  BY DEF SettledAtTheEnd
<1>1. LedgerTyped(ledger) /\ day \in Nat /\ FinalDue \in Nat /\ SettlementLag \in Nat
  BY ConfigFacts, PolicyAssumption DEF EngineInvariant, EngineTyped
<1>2. day > FinalDue /\ Bound = day - 1
  BY DEF DoneLate, Bound
<1>3. Bound \in Int /\ Bound >= FinalDue
  BY <1>1, <1>2
<1> HIDE DEF FinalDue, Bound
<1>4. ASSUME NEW k \in DOMAIN ledger.pending PROVE ledger.pending[k].done
  <2>1. ledger.pending[k].due \in Nat
    BY <1>1, PendingFacts DEF LedgerTyped
  <2>2. ledger.pending[k].due <= FinalDue
        /\ (ledger.pending[k].done \/ ledger.pending[k].due > Bound \/ SettlementLag = 0)
    BY DEF EngineInvariant, DueLater
  <2> QED BY <1>1, <1>3, <2>1, <2>2
<1>5. \A side : OpenItems(ledger, side) = {}
  BY <1>4 DEF OpenItems
<1>6. Payables(ledger) = 0 /\ Receivables(ledger) = 0
  BY <1>5, OutstandingIs, SumOfNone DEF Payables, Receivables
<1>7. ASSUME NEW d \in ledger.receivables PROVE d.pay >= FinalDue
  <2>1. d.pay \in Nat
    BY <1>1 DEF LedgerTyped
  <2>2. d.pay >= Bound
    BY DEF EngineInvariant, PaidLater
  <2> QED BY <1>1, <1>3, <2>1, <2>2
<1> QED BY <1>6, <1>7

(* With a lag of at least one session, all trades of a completed run are settled when it
   ends: SettledAtTheEnd (backtest/engine.py run, execution/simulation.py due_date). *)
THEOREM SettledTheorem == ASSUME SettlementLag > 0 PROVE Spec => []SettledAtTheEnd
<1>1. Init => DoneLate
  BY DEF Init, DoneLate
<1>2. DoneLate /\ [Next]_vars => DoneLate'
  BY DoneLateStays
<1>3. EngineInvariant /\ DoneLate => SettledAtTheEnd
  BY SettledSpelled
<1> QED BY <1>1, <1>2, <1>3, EngineTheorem, PTL DEF Spec

-----------------------------------------------------------------------------
(* The sum of a function on two elements. *)
LEMMA SumOfPair ==
    ASSUME NEW f, NEW a, NEW b, a # b, DOMAIN f = {a, b}, f[a] \in Int, f[b] \in Int
    PROVE  SumFunction(f) = f[a] + f[b]
<1>1. IsFiniteSet({}) /\ IsFiniteSet({a}) /\ a \notin {} /\ b \notin {a}
  BY FS_EmptySet, FS_Singleton
<1>2. {} \cup {a} = {a} /\ {a} \cup {b} = {a, b}
  OBVIOUS
<1>3. SumFunctionOnSet(f, {} \cup {a}) = SumFunctionOnSet(f, {}) + f[a]
  <2>1. \A y \in {} \cup {a} : f[y] \in Int
    OBVIOUS
  <2> QED BY ONLY <1>1, <2>1, SumAdd
<1>4. SumFunctionOnSet(f, {a} \cup {b}) = SumFunctionOnSet(f, {a}) + f[b]
  <2>1. \A y \in {a} \cup {b} : f[y] \in Int
    OBVIOUS
  <2> QED BY ONLY <1>1, <2>1, SumAdd
<1>5. SumFunctionOnSet(f, {}) = 0
  BY SumOfNone
<1>6. SumFunctionOnSet(f, {a, b}) = f[a] + f[b]
  <2>1. SumFunctionOnSet(f, {a}) = f[a]
    BY ONLY <1>2, <1>3, <1>5, f[a] \in Int
  <2> QED BY ONLY <1>2, <1>4, <2>1
<1>7. SumFunction(f) = SumFunctionOnSet(f, {a, b})
  BY DEF SumFunction
<1> QED BY <1>6, <1>7

(* A transaction between two accounts balances. *)
LEMMA TransferBalances ==
    ASSUME NEW f, NEW a, NEW b, a # b, DOMAIN f = {a, b}, NEW x \in Int, f[a] = x, f[b] = -x
    PROVE  SumFunction(f) = 0 /\ \A c \in DOMAIN f : f[c] \in Int
BY SumOfPair

(* The postings of a sale, one after the other. *)
SaleAccounts ==
    {"cost_of_sales", "settlement_receivable", "sale_proceeds", "commission_expense",
     "transaction_tax_expense"}

(* The transaction of a sale balances. *)
LEMMA SaleBalances ==
    ASSUME NEW i \in Instruments, NEW f, DOMAIN f = {i} \cup SaleAccounts,
           NEW cost \in Int, NEW gross \in Int, NEW fee \in Int, NEW tax \in Int,
           f[i] = -cost, f["cost_of_sales"] = cost,
           f["settlement_receivable"] = gross - fee - tax, f["sale_proceeds"] = -gross,
           f["commission_expense"] = fee, f["transaction_tax_expense"] = tax
    PROVE  SumFunction(f) = 0 /\ \A c \in DOMAIN f : f[c] \in Int
<1> DEFINE s1 == {i}
           s2 == s1 \cup {"cost_of_sales"}
           s3 == s2 \cup {"settlement_receivable"}
           s4 == s3 \cup {"sale_proceeds"}
           s5 == s4 \cup {"commission_expense"}
           s6 == s5 \cup {"transaction_tax_expense"}
           Sum(s) == SumFunctionOnSet(f, s)
<1>1. \A c \in DOMAIN f : f[c] \in Int
  BY DEF SaleAccounts
<1>2. i \notin SaleAccounts
  BY LedgerAssumption DEF SaleAccounts, Accounts
<1>3. DOMAIN f = s6
  BY DEF SaleAccounts
<1>4. /\ "cost_of_sales" \notin s1 /\ "settlement_receivable" \notin s2 /\ "sale_proceeds" \notin s3
      /\ "commission_expense" \notin s4 /\ "transaction_tax_expense" \notin s5
  BY <1>2 DEF SaleAccounts
<1>5. \A y \in s6 : f[y] \in Int
  BY <1>1, <1>3
<1>6. IsFiniteSet({}) /\ {} \cup {i} = s1 /\ IsFiniteSet(s1)
  BY FS_EmptySet, FS_Singleton
<1>7. Sum(s1) = f[i]
  <2>1. \A y \in {} \cup {i} : f[y] \in Int
    BY <1>5
  <2>2. SumFunctionOnSet(f, {} \cup {i}) = SumFunctionOnSet(f, {}) + f[i]
    BY ONLY <1>6, <2>1, SumAdd
  <2> QED BY <1>6, <2>1, <2>2, SumOfNone
<1>8. ASSUME NEW s, s \subseteq s6, IsFiniteSet(s), NEW x \in s6, x \notin s
      PROVE  Sum(s \cup {x}) = Sum(s) + f[x] /\ IsFiniteSet(s \cup {x})
  <2>1. \A y \in s \cup {x} : f[y] \in Int
    BY <1>5, <1>8
  <2>2. SumFunctionOnSet(f, s \cup {x}) = SumFunctionOnSet(f, s) + f[x]
    BY ONLY <1>8, <2>1, SumAdd
  <2>3. IsFiniteSet(s \cup {x})
    BY ONLY <1>8, FS_AddElement
  <2> QED BY <2>2, <2>3
<1>9. /\ s1 \subseteq s6 /\ s2 \subseteq s6 /\ s3 \subseteq s6 /\ s4 \subseteq s6 /\ s5 \subseteq s6
      /\ {"cost_of_sales", "settlement_receivable", "sale_proceeds", "commission_expense",
          "transaction_tax_expense"} \subseteq s6
  OBVIOUS
<1> HIDE DEF s1, Sum
<1>10. Sum(s2) = Sum(s1) + f["cost_of_sales"] /\ IsFiniteSet(s2)
  BY <1>4, <1>6, <1>8, <1>9
<1> HIDE DEF s2
<1>11. Sum(s3) = Sum(s2) + f["settlement_receivable"] /\ IsFiniteSet(s3)
  BY <1>4, <1>8, <1>9, <1>10
<1> HIDE DEF s3
<1>12. Sum(s4) = Sum(s3) + f["sale_proceeds"] /\ IsFiniteSet(s4)
  BY <1>4, <1>8, <1>9, <1>11
<1> HIDE DEF s4
<1>13. Sum(s5) = Sum(s4) + f["commission_expense"] /\ IsFiniteSet(s5)
  BY <1>4, <1>8, <1>9, <1>12
<1> HIDE DEF s5
<1>14. Sum(s6) = Sum(s5) + f["transaction_tax_expense"]
  <2>1. "transaction_tax_expense" \in s6
    OBVIOUS
  <2> QED BY <1>4, <1>8, <1>9, <1>13, <2>1
<1> HIDE DEF s6
<1>15. Sum(s6) = 0
  BY ONLY <1>7, <1>10, <1>11, <1>12, <1>13, <1>14, f[i] = -cost, f["cost_of_sales"] = cost,
           f["settlement_receivable"] = gross - fee - tax, f["sale_proceeds"] = -gross,
           f["commission_expense"] = fee, f["transaction_tax_expense"] = tax,
           cost \in Int, gross \in Int, fee \in Int, tax \in Int
<1> QED BY <1>1, <1>3, <1>15 DEF SumFunction, Sum

(* From n to m one transaction was recorded, and nothing else happened. *)
Journaled(n, m, at, postings) ==
    /\ SameAccount(n, m) /\ Good(m) /\ m.ordered /\ m.lastAt = at
    /\ m.capital = n.capital /\ m.fees = n.fees /\ m.taxes = n.taxes
    /\ m.filledFees = n.filledFees /\ m.filledGain = n.filledGain
    /\ m.balance \in [Accounts \cup Instruments -> Int]
    /\ \A a \in Accounts \cup Instruments :
        m.balance[a] = n.balance[a] + (IF a \in DOMAIN postings THEN postings[a] ELSE 0)

(* A transaction that balances changes the balances and the time of the last one, and nothing
   else. *)
LEMMA JournaledFacts ==
    ASSUME NEW n, DOMAIN n = Fields, Good(n), n.ordered, n.lastAt \in Int,
           NEW at \in Int, n.lastAt <= at, n.balance \in [Accounts \cup Instruments -> Int],
           NEW postings, \A a \in DOMAIN postings : postings[a] \in Int, SumFunction(postings) = 0
    PROVE  Journaled(n, Post(n, at, postings), at, postings)
<1> DEFINE m == Post(n, at, postings)
           b == [a \in DOMAIN n.balance |->
                            n.balance[a] + (IF a \in DOMAIN postings THEN postings[a] ELSE 0)]
<1>1. m = [n EXCEPT !.balance = b, !.ordered = n.ordered /\ n.lastAt <= at, !.lastAt = at]
  BY DEF Post
<1>2. b \in [Accounts \cup Instruments -> Int]
  OBVIOUS
<1>3. \A a \in Accounts \cup Instruments :
        b[a] = n.balance[a] + (IF a \in DOMAIN postings THEN postings[a] ELSE 0)
  OBVIOUS
<1> HIDE DEF b, m
<1>4. /\ m.balance = b /\ m.lastAt = at /\ m.ordered = (n.ordered /\ n.lastAt <= at)
      /\ m.error = n.error /\ DOMAIN m = Fields
      /\ m.settled = n.settled /\ m.realized = n.realized /\ m.dividends = n.dividends
      /\ m.pending = n.pending /\ m.positions = n.positions
      /\ m.receivables = n.receivables /\ m.applied = n.applied
      /\ m.capital = n.capital /\ m.fees = n.fees /\ m.taxes = n.taxes
      /\ m.filledFees = n.filledFees /\ m.filledGain = n.filledGain
  BY <1>1 DEF Fields
<1> QED BY <1>2, <1>3, <1>4 DEF Journaled, SameAccount, Good, m

-----------------------------------------------------------------------------
(* What reconcile compares: the balances of the journal with the figures of the ledger. *)
BooksAgree(l) ==
    /\ l.balance["cash"] = l.settled
    /\ l.balance["settlement_payable"] = -Payables(l)
    /\ l.balance["settlement_receivable"] = Receivables(l)
    /\ l.balance["dividend_receivable"] = DividendReceivables(l)
    /\ l.balance["contributed_capital"] = -l.capital
    /\ l.balance["dividend_income"] = -l.dividends
    /\ l.balance["transaction_tax_expense"] = l.taxes
    /\ \A i \in Instruments : l.balance[i] = l.positions[i].book
    /\ l.filledFees = l.fees /\ l.filledGain = l.realized

(* Shares are held in known positions only. *)
KnownShares(l) == \A i \in Instruments : l.positions[i].quantity # 0 => l.positions[i].known

BooksTyped(l) ==
    /\ l.balance \in [Accounts \cup Instruments -> Int]
    /\ l.lastAt \in Int /\ l.capital \in Int /\ l.fees \in Int /\ l.taxes \in Int

(* A ledger in which nothing is wrong. *)
Sound(l) ==
    /\ LedgerTyped(l) /\ Good(l) /\ l.ordered
    /\ BooksTyped(l) /\ BooksAgree(l) /\ KnownShares(l)

(* The only reason for which a sound ledger does not reconcile is that it owes too much. *)
LEMMA SoundReconciles ==
    ASSUME NEW l, Sound(l)
    PROVE  /\ Reconcile(l) = l \/ Reconcile(l) = Fail(l, "available_cash_negative")
           /\ Available(l) >= 0 => Reconcile(l) = l
<1>1. \A a \in DOMAIN Expected(l) : l.balance[a] = Expected(l)[a]
  <2> DEFINE others == [cash |-> l.settled, settlement_payable |-> -Payables(l),
                   settlement_receivable |-> Receivables(l),
                   dividend_receivable |-> DividendReceivables(l),
                   contributed_capital |-> -l.capital, dividend_income |-> -l.dividends,
                   transaction_tax_expense |-> l.taxes]
             e == [a \in Instruments \cup DOMAIN others |->
                     IF a \in Instruments THEN l.positions[a].book ELSE others[a]]
  <2>1. Expected(l) = e
    BY DEF Expected
  <2>2. DOMAIN others = {"cash", "settlement_payable", "settlement_receivable",
            "dividend_receivable", "contributed_capital", "dividend_income",
            "transaction_tax_expense"}
    OBVIOUS
  <2>3. ASSUME NEW a \in Instruments \cup DOMAIN others PROVE l.balance[a] = e[a]
    <3>1. CASE a \in Instruments
      BY <3>1 DEF Sound, BooksAgree
    <3>2. CASE a \notin Instruments
      <4>1. a \in DOMAIN others /\ e[a] = others[a]
        BY <2>3, <3>2
      <4>2. l.balance[a] = others[a]
        BY <2>2, <4>1 DEF Sound, BooksAgree
      <4> QED BY <4>1, <4>2
    <3> QED BY <3>1, <3>2
  <2>4. DOMAIN e = Instruments \cup DOMAIN others
    OBVIOUS
  <2> HIDE DEF e, others
  <2> QED BY <2>1, <2>3, <2>4
<1>2. \A i \in Instruments : ~(l.positions[i].quantity < 0)
  BY DEF Sound, LedgerTyped, Positions
<1>3. l.ordered /\ Good(l) /\ l.filledFees = l.fees /\ l.filledGain = l.realized
  BY DEF Sound, BooksAgree
<1>4. Available(l) \in Int
  BY LedgerNumbers DEF Sound
<1> QED BY <1>1, <1>2, <1>3, <1>4 DEF Reconcile

(* A snapshot of a sound ledger fails only for what is owed or for a stale mark. *)
LEMMA SoundChecked ==
    ASSUME NEW l, Sound(l)
    PROVE  /\ Checked(l).error \in {"none", "available_cash_negative", "stale_mark"}
           /\ Good(Checked(l)) => Checked(l) = l
<1>1. LedgerTyped(l) /\ DOMAIN l = Fields /\ l.error = "none"
  BY DEF Sound, LedgerTyped, Good
<1>2. \A reason : Fail(l, reason).error = reason
  BY <1>1, FailFacts
<1>3. Reconcile(l) = l \/ Reconcile(l) = Fail(l, "available_cash_negative")
  BY SoundReconciles
<1>4. Checked(l).error \in {"none", "available_cash_negative", "stale_mark"}
  BY <1>1, <1>2, <1>3 DEF Checked, Good
<1> QED BY <1>1, <1>4, CheckedFacts

-----------------------------------------------------------------------------
(* Fills keep the books. *)
Entered(postings, a) == IF a \in DOMAIN postings THEN postings[a] ELSE 0

(* The journal, the costs and the gain beside a trade, before it is recorded. *)
TradeBooked(l, n, tax) ==
    /\ n.balance = l.balance /\ n.ordered = l.ordered /\ n.lastAt = l.lastAt
    /\ n.error = l.error /\ n.capital = l.capital
    /\ n.fees \in Int /\ n.filledFees = n.fees /\ n.filledGain = n.realized
    /\ n.taxes = l.taxes + tax /\ tax \in Int

(* What a trade of instrument i posts. *)
TradePosted(postings, i, change, item, tax) ==
    /\ \A a \in DOMAIN postings : postings[a] \in Int
    /\ SumFunction(postings) = 0
    /\ \A a \in {"cash", "dividend_receivable", "contributed_capital", "dividend_income"} :
        Entered(postings, a) = 0
    /\ Entered(postings, "settlement_payable") = (IF item.side = "buy" THEN -item.amount ELSE 0)
    /\ Entered(postings, "settlement_receivable") = (IF item.side = "sell" THEN item.amount ELSE 0)
    /\ Entered(postings, "transaction_tax_expense") = tax
    /\ Entered(postings, i) = change
    /\ \A j \in Instruments \ {i} : Entered(postings, j) = 0

(* A trade keeps the books when its postings say what it changes. *)
LEMMA TradeSound ==
    ASSUME NEW l, Sound(l), NEW n, NEW i, NEW q, NEW item, Trade(l, n, i, q, item), q.known,
           NEW tax, TradeBooked(l, n, tax), NEW at \in Int, l.lastAt <= at,
           NEW postings, TradePosted(postings, i, q.book - l.positions[i].book, item, tax)
    PROVE  Sound(Post(n, at, postings)) /\ Post(n, at, postings).lastAt = at
<1> DEFINE m == Post(n, at, postings)
           a == IF item.side = "buy" THEN item.amount ELSE 0
           b == IF item.side = "sell" THEN item.amount ELSE 0
           d == IF item.side = "buy" THEN -item.amount ELSE 0
<1>1. /\ LedgerTyped(l) /\ Good(l) /\ l.ordered /\ BooksTyped(l) /\ BooksAgree(l) /\ KnownShares(l)
      /\ DOMAIN n = Fields
  BY DEF Sound, Trade
<1>2. /\ n.balance = l.balance /\ n.ordered = l.ordered /\ n.lastAt = l.lastAt
      /\ n.error = l.error /\ n.capital = l.capital
      /\ n.fees \in Int /\ n.filledFees = n.fees /\ n.filledGain = n.realized
      /\ n.taxes = l.taxes + tax /\ tax \in Int
  BY DEF TradeBooked
<1>3. Journaled(n, m, at, postings)
  BY <1>1, <1>2, JournaledFacts DEF Good, BooksTyped, TradePosted
<1> HIDE DEF m
<1>4. LedgerTyped(n)
  BY <1>1, TradeFacts
<1>5. SameAccount(n, m) /\ Good(m) /\ m.ordered /\ m.lastAt = at /\ m.capital = l.capital
      /\ m.fees = n.fees /\ m.taxes = l.taxes + tax
      /\ m.filledFees = n.fees /\ m.filledGain = n.realized
      /\ m.balance \in [Accounts \cup Instruments -> Int]
      /\ \A c \in Accounts \cup Instruments : m.balance[c] = l.balance[c] + Entered(postings, c)
  BY <1>2, <1>3 DEF Journaled, Entered
<1>6. LedgerTyped(m) /\ \A side : Outstanding(m, side) = Outstanding(n, side)
  BY <1>4, <1>5, SameAccountFacts
<1>7. /\ l.pending \in Seq(Items) /\ item \in Items /\ ~item.done
      /\ n.pending = Append(l.pending, item)
  BY <1>1 DEF LedgerTyped, Trade
<1>8. /\ Outstanding(l, "buy") \in Int /\ Outstanding(n, "buy") = Outstanding(l, "buy") + a
      /\ Outstanding(l, "sell") \in Int /\ Outstanding(n, "sell") = Outstanding(l, "sell") + b
      /\ a \in Int /\ b \in Int /\ d \in Int /\ d + a = 0
  <2>1. item.amount \in Int
    BY <1>7 DEF Items
  <2>2. a \in Int /\ b \in Int /\ d \in Int /\ d + a = 0
    BY <2>1
  <2> QED BY ONLY <1>7, <2>1, <2>2, OutstandingAppended
<1>9. /\ i \in Instruments /\ q \in Positions /\ m.positions = [l.positions EXCEPT ![i] = q]
      /\ m.settled = l.settled /\ m.dividends = l.dividends /\ m.receivables = l.receivables
      /\ m.realized = n.realized
  BY <1>5 DEF Trade, SameAccount
<1>10. l.positions \in [Instruments -> Positions] /\ \A j \in Instruments : l.positions[j].book \in Int
       /\ q.book \in Int
  BY <1>1, <1>9 DEF LedgerTyped, Positions
<1>11. BooksTyped(m)
  BY <1>1, <1>2, <1>5 DEF BooksTyped
<1>12. KnownShares(m)
  BY <1>1, <1>9, <1>10 DEF KnownShares
<1>13. DividendReceivables(m) = DividendReceivables(l)
  BY <1>9 DEF DividendReceivables
<1>14. /\ Payables(m) = Payables(l) + a /\ Receivables(m) = Receivables(l) + b
       /\ Payables(l) \in Int /\ Receivables(l) \in Int
  BY <1>6, <1>8 DEF Payables, Receivables
<1>15. /\ \A c \in {"cash", "dividend_receivable", "contributed_capital", "dividend_income"} :
            Entered(postings, c) = 0
       /\ Entered(postings, "settlement_payable") = d
       /\ Entered(postings, "settlement_receivable") = b
       /\ Entered(postings, "transaction_tax_expense") = tax
       /\ Entered(postings, i) = q.book - l.positions[i].book
       /\ \A j \in Instruments \ {i} : Entered(postings, j) = 0
  BY DEF TradePosted
<1>16. {"cash", "dividend_receivable", "contributed_capital", "dividend_income",
        "settlement_payable", "settlement_receivable", "transaction_tax_expense"} \subseteq Accounts
  BY DEF Accounts
<1>17. \A c \in Accounts \cup Instruments : l.balance[c] \in Int
  BY <1>1 DEF BooksTyped
<1> HIDE DEF a, b, d
<1>18. \A j \in Instruments : m.balance[j] = m.positions[j].book
  <2> SUFFICES ASSUME NEW j \in Instruments PROVE m.balance[j] = m.positions[j].book
    OBVIOUS
  <2>1. l.balance[j] = l.positions[j].book /\ m.balance[j] = l.balance[j] + Entered(postings, j)
    BY <1>1, <1>5 DEF BooksAgree
  <2>2. CASE j = i
    BY <1>9, <1>10, <1>15, <2>1, <2>2
  <2>3. CASE j # i
    BY <1>9, <1>10, <1>15, <2>1, <2>3
  <2> QED BY <2>2, <2>3
<1>19. /\ m.balance["cash"] = l.balance["cash"]
       /\ m.balance["dividend_receivable"] = l.balance["dividend_receivable"]
       /\ m.balance["contributed_capital"] = l.balance["contributed_capital"]
       /\ m.balance["dividend_income"] = l.balance["dividend_income"]
       /\ m.balance["settlement_payable"] = l.balance["settlement_payable"] + d
       /\ m.balance["settlement_receivable"] = l.balance["settlement_receivable"] + b
       /\ m.balance["transaction_tax_expense"] = l.balance["transaction_tax_expense"] + tax
  BY <1>5, <1>8, <1>15, <1>16, <1>17
<1>20. BooksAgree(m)
  BY <1>1, <1>5, <1>8, <1>9, <1>13, <1>14, <1>18, <1>19 DEF BooksAgree
<1> QED BY <1>5, <1>6, <1>11, <1>12, <1>20 DEF Sound, m

(* A purchase keeps the books. *)
LEMMA BoughtSound ==
    ASSUME NEW l, Sound(l), NEW fill, FillTyped(fill), fill.side = "buy", NEW due \in Nat,
           fill.at \in Int, l.lastAt <= fill.at
    PROVE  Sound(Bought(l, fill, due)) /\ Bought(l, fill, due).lastAt = fill.at
<1> DEFINE i == fill.instrument
           p == l.positions[i]
           total == fill.price * fill.quantity + fill.fee
           q == Traded(p, p.quantity + fill.quantity, p.book + total, fill.price)
           item == Obligation(fill, due, total)
           n == [l EXCEPT
               !.positions[i] = q,
               !.fees = @ + fill.fee, !.filledFees = @ + fill.fee,
               !.taxes = @ + fill.tax,
               !.pending = Owed(l, fill, due, total)]
           postings == WithInventory(i, total, [settlement_payable |-> -total])
           m == Bought(l, fill, due)
<1>1. /\ i \in Instruments /\ fill.quantity \in Nat /\ fill.price \in Nat /\ fill.fee \in Nat
      /\ fill.id \in OrderIds /\ fill.side \in Sides /\ fill.tax = 0
  BY DEF FillTyped
<1>2. total \in Nat
  BY <1>1
<1>3. /\ DOMAIN l = Fields /\ l.positions \in [Instruments -> Positions] /\ l.realized \in Int
      /\ l.fees \in Int /\ l.taxes \in Int /\ l.filledFees = l.fees /\ l.filledGain = l.realized
  BY DEF Sound, LedgerTyped, BooksTyped, BooksAgree
<1>4. p \in Positions /\ p.quantity \in Nat /\ p.book \in Int
  BY <1>1, <1>3 DEF Positions
<1> HIDE DEF total
<1>5. q \in Positions /\ q.book = p.book + total /\ q.known
  <2>1. p.quantity + fill.quantity \in Nat /\ p.book + total \in Int /\ fill.price \in Int
    BY ONLY <1>1, <1>2, <1>4
  <2>2. q.known
    BY <1>4 DEF Traded, Positions
  <2> HIDE DEF p
  <2> QED BY <1>4, <2>1, <2>2, TradedFacts DEF q
<1>6. item \in Items /\ ~item.done /\ item.side = "buy" /\ item.amount = total
  BY <1>1, <1>2 DEF Obligation, Items
<1> HIDE DEF q, item
<1>7. /\ DOMAIN n = Fields /\ n.positions = [l.positions EXCEPT ![i] = q]
      /\ n.settled = l.settled /\ n.dividends = l.dividends /\ n.receivables = l.receivables
      /\ n.applied = l.applied /\ n.realized = l.realized
      /\ n.balance = l.balance /\ n.ordered = l.ordered /\ n.lastAt = l.lastAt
      /\ n.error = l.error /\ n.capital = l.capital /\ n.filledGain = l.filledGain
      /\ n.fees = l.fees + fill.fee /\ n.filledFees = l.filledFees + fill.fee
      /\ n.taxes = l.taxes + fill.tax
  BY <1>3 DEF Fields
<1>8. n.pending = Append(l.pending, item)
  BY <1>3 DEF Fields, Owed, item, Obligation
<1>9. m = Post(n, fill.at, postings)
  BY DEF Bought, q, total
<1>10. TradePosted(postings, i, total, item, 0)
  <2>1. i \notin Accounts /\ "settlement_payable" \in Accounts
    BY <1>1, LedgerAssumption DEF Accounts
  <2>2. DOMAIN postings = {i, "settlement_payable"} /\ postings[i] = total
        /\ postings["settlement_payable"] = -total
    BY <2>1 DEF WithInventory
  <2> HIDE DEF postings
  <2>3. SumFunction(postings) = 0 /\ \A c \in DOMAIN postings : postings[c] \in Int
    BY <1>2, <2>1, <2>2, TransferBalances
  <2>4. /\ {"cash", "dividend_receivable", "contributed_capital", "dividend_income",
            "settlement_receivable", "transaction_tax_expense"} \cap {i, "settlement_payable"} = {}
        /\ \A j \in Instruments \ {i} : j \notin {i, "settlement_payable"}
    BY <2>1, LedgerAssumption DEF Accounts
  <2> QED BY <1>6, <2>2, <2>3, <2>4 DEF TradePosted, Entered
<1> HIDE DEF n, m, p, i, postings
<1>11. Trade(l, n, i, q, item)
  BY <1>1, <1>2, <1>3, <1>4, <1>5, <1>6, <1>7, <1>8 DEF Trade, p
<1>12. TradeBooked(l, n, 0)
  BY <1>1, <1>3, <1>7 DEF TradeBooked
<1>13. total = q.book - l.positions[i].book
  BY <1>2, <1>4, <1>5 DEF p
<1>14. TradePosted(postings, i, q.book - l.positions[i].book, item, 0)
  BY <1>10, <1>13
<1>15. Sound(Post(n, fill.at, postings)) /\ Post(n, fill.at, postings).lastAt = fill.at
  BY <1>5, <1>11, <1>12, <1>14, TradeSound
<1> QED BY <1>9, <1>15 DEF m

(* A sale keeps the books. *)
LEMMA SoldSound ==
    ASSUME NEW l, Sound(l), NEW fill, FillTyped(fill), fill.side = "sell", NEW due \in Nat,
           fill.quantity <= l.positions[fill.instrument].quantity,
           fill.at \in Int, l.lastAt <= fill.at
    PROVE  Sound(Sold(l, fill, due)) /\ Sold(l, fill, due).lastAt = fill.at
<1> DEFINE i == fill.instrument
           p == l.positions[i]
           gross == fill.price * fill.quantity
           net == gross - fill.fee - fill.tax
           cost == IF fill.quantity = p.quantity THEN p.book
                   ELSE RoundHalfEven(p.book * fill.quantity, p.quantity)
           q == Traded(p, p.quantity - fill.quantity, p.book - cost, fill.price)
           item == Obligation(fill, due, net)
           n == [l EXCEPT
               !.positions[i] = q,
               !.realized = @ + Gain(net, cost), !.filledGain = @ + Gain(net, cost),
               !.fees = @ + fill.fee, !.filledFees = @ + fill.fee,
               !.taxes = @ + fill.tax,
               !.pending = Owed(l, fill, due, net)]
           postings == WithInventory(i, -cost,
                   [cost_of_sales |-> cost, settlement_receivable |-> net, sale_proceeds |-> -gross,
                    commission_expense |-> fill.fee, transaction_tax_expense |-> fill.tax])
           m == Sold(l, fill, due)
<1>1. /\ i \in Instruments /\ fill.quantity \in Nat \ {0} /\ fill.price \in Nat /\ fill.fee \in Nat
      /\ fill.id \in OrderIds /\ fill.side \in Sides /\ fill.tax \in Nat
  BY DEF FillTyped
<1>2. gross \in Int /\ net \in Int
  BY <1>1
<1>3. /\ DOMAIN l = Fields /\ l.positions \in [Instruments -> Positions] /\ l.realized \in Int
      /\ l.fees \in Int /\ l.taxes \in Int /\ l.filledFees = l.fees /\ l.filledGain = l.realized
  BY DEF Sound, LedgerTyped, BooksTyped, BooksAgree
<1>4. p \in Positions /\ p.quantity \in Nat \ {0} /\ p.book \in Int /\ p.quantity - fill.quantity \in Nat
  BY <1>1, <1>3 DEF Positions
<1>5. net = gross - fill.fee - fill.tax
  OBVIOUS
<1> HIDE DEF net, gross
<1>6. cost \in Int
  <2>1. p.book * fill.quantity \in Int
    BY <1>1, <1>4
  <2> QED BY <1>4, <2>1, RoundHalfEvenFacts
<1> HIDE DEF cost
<1>7. q \in Positions /\ q.book = p.book - cost /\ q.known
  <2>1. p.book - cost \in Int /\ fill.price \in Int
    BY ONLY <1>1, <1>4, <1>6
  <2>2. q.known
    BY <1>4 DEF Traded, Positions
  <2>3. q \in Positions /\ q.book = p.book - cost
    <3> DEFINE rest == p.quantity - fill.quantity
               left == p.book - cost
    <3>1. rest \in Nat /\ left \in Int /\ q = Traded(p, rest, left, fill.price)
      BY <1>4, <2>1
    <3> HIDE DEF p, rest, q
    <3>2. left \in Int /\ fill.price \in Int
      BY <2>1
    <3> HIDE DEF left
    <3>3. q \in Positions /\ q.book = left
      BY ONLY <1>4, <3>1, <3>2, TradedFacts
    <3> QED BY <3>3 DEF left
  <2> QED BY <2>2, <2>3
<1>8. item \in Items /\ ~item.done /\ item.side = "sell" /\ item.amount = net
  BY <1>1, <1>2 DEF Obligation, Items
<1> HIDE DEF q, item
<1>9. /\ DOMAIN n = Fields /\ n.positions = [l.positions EXCEPT ![i] = q]
      /\ n.settled = l.settled /\ n.dividends = l.dividends /\ n.receivables = l.receivables
      /\ n.applied = l.applied /\ n.realized = l.realized + (net - cost)
      /\ n.balance = l.balance /\ n.ordered = l.ordered /\ n.lastAt = l.lastAt
      /\ n.error = l.error /\ n.capital = l.capital /\ n.filledGain = l.filledGain + (net - cost)
      /\ n.fees = l.fees + fill.fee /\ n.filledFees = l.filledFees + fill.fee
      /\ n.taxes = l.taxes + fill.tax
  BY <1>3 DEF Fields, Gain
<1>10. n.pending = Append(l.pending, item)
  BY <1>3 DEF Fields, Owed, item, Obligation
<1>11. m = Post(n, fill.at, postings)
  BY DEF Sold, q, cost, net, gross
<1>12. TradePosted(postings, i, -cost, item, fill.tax)
  <2> DEFINE entries == [cost_of_sales |-> cost, settlement_receivable |-> net,
                         sale_proceeds |-> -gross, commission_expense |-> fill.fee,
                         transaction_tax_expense |-> fill.tax]
  <2>1. i \notin Accounts /\ SaleAccounts \subseteq Accounts /\ i \notin SaleAccounts
    BY <1>1, LedgerAssumption DEF Accounts, SaleAccounts
  <2>2. /\ DOMAIN entries = SaleAccounts
        /\ entries["cost_of_sales"] = cost
        /\ entries["settlement_receivable"] = net /\ entries["sale_proceeds"] = -gross
        /\ entries["commission_expense"] = fill.fee
        /\ entries["transaction_tax_expense"] = fill.tax
    BY DEF SaleAccounts
  <2> HIDE DEF entries
  <2>3. /\ DOMAIN postings = {i} \cup SaleAccounts /\ postings[i] = -cost
        /\ \A c \in SaleAccounts : postings[c] = entries[c]
    BY <2>1, <2>2 DEF WithInventory, entries
  <2>4. /\ postings["cost_of_sales"] = cost
        /\ postings["settlement_receivable"] = net /\ postings["sale_proceeds"] = -gross
        /\ postings["commission_expense"] = fill.fee
        /\ postings["transaction_tax_expense"] = fill.tax
    BY <2>2, <2>3 DEF SaleAccounts
  <2> HIDE DEF postings
  <2>5. SumFunction(postings) = 0 /\ \A c \in DOMAIN postings : postings[c] \in Int
    BY <1>1, <1>2, <1>5, <1>6, <2>3, <2>4, SaleBalances, SMTT(30)
  <2>6. /\ {"cash", "dividend_receivable", "contributed_capital", "dividend_income",
            "settlement_payable"} \cap ({i} \cup SaleAccounts) = {}
        /\ \A j \in Instruments \ {i} : j \notin {i} \cup SaleAccounts
        /\ {"settlement_receivable", "transaction_tax_expense"} \subseteq {i} \cup SaleAccounts
    BY <2>1, LedgerAssumption DEF Accounts, SaleAccounts
  <2>7. i \in {i} \cup SaleAccounts
    OBVIOUS
  <2> HIDE DEF i, m, n
  <2>8. /\ \A a \in {"cash", "dividend_receivable", "contributed_capital", "dividend_income"} :
            Entered(postings, a) = 0
        /\ Entered(postings, "settlement_payable") = 0
        /\ Entered(postings, "settlement_receivable") = net
        /\ Entered(postings, "transaction_tax_expense") = fill.tax
        /\ Entered(postings, i) = -cost
        /\ \A j \in Instruments \ {i} : Entered(postings, j) = 0
    BY ONLY <2>3, <2>4, <2>6, <2>7 DEF Entered
  <2>9. /\ (IF item.side = "buy" THEN -item.amount ELSE 0) = 0
        /\ (IF item.side = "sell" THEN item.amount ELSE 0) = net
    BY ONLY <1>8, "sell" # "buy"
  <2> QED BY <2>5, <2>8, <2>9 DEF TradePosted
<1> HIDE DEF n, m, p, i, postings
<1>13. n.realized = l.realized + (IF item.side = "sell" THEN item.amount ELSE -item.amount)
                        + q.book - l.positions[i].book
  BY <1>2, <1>3, <1>4, <1>6, <1>7, <1>8, <1>9 DEF p
<1>14. Trade(l, n, i, q, item)
  BY <1>1, <1>7, <1>8, <1>9, <1>10, <1>13 DEF Trade
<1>15. TradeBooked(l, n, fill.tax)
  BY <1>1, <1>2, <1>3, <1>6, <1>9 DEF TradeBooked
<1>16. -cost = q.book - l.positions[i].book
  BY <1>4, <1>6, <1>7 DEF p
<1>17. TradePosted(postings, i, q.book - l.positions[i].book, item, fill.tax)
  BY <1>12, <1>16
<1>18. Sound(Post(n, fill.at, postings)) /\ Post(n, fill.at, postings).lastAt = fill.at
  BY <1>7, <1>14, <1>15, <1>17, TradeSound
<1> QED BY <1>11, <1>18 DEF m

(* apply_fill accepts a fill that is covered and in time, and keeps the books. *)
LEMMA FillBooked ==
    ASSUME NEW l, Sound(l), Available(l) >= 0, NEW fill, FillTyped(fill),
           NEW date \in Nat, NEW horizon \in Nat, DueDate(date, horizon) # 0,
           fill.at \in Int, l.lastAt <= fill.at, Spent(fill) <= Available(l),
           fill.side = "sell" => fill.quantity <= l.positions[fill.instrument].quantity
    PROVE  /\ Sound(ApplyFill(l, fill, date, horizon))
           /\ ApplyFill(l, fill, date, horizon).lastAt = fill.at
<1> DEFINE m == ApplyFill(l, fill, date, horizon)
           due == DueDate(date, horizon)
           i == fill.instrument
           p == l.positions[i]
<1>1. /\ LedgerTyped(l) /\ Good(l) /\ KnownShares(l) /\ Available(l) \in Int
      /\ due \in Nat /\ fill.side \in Sides
  BY LedgerNumbers, DueDateFacts DEF Sound, FillTyped
<1>2. CASE fill.side = "buy"
  <2>1. fill.price * fill.quantity + fill.fee = Spent(fill)
    BY <1>2 DEF Spent
  <2>2. Spent(fill) \in Int /\ ~(Spent(fill) > Available(l))
    BY <1>1, <1>2 DEF Spent, FillTyped
  <2>3. m = Reconcile(Bought(l, fill, due))
    BY <1>1, <1>2, <2>1, <2>2 DEF ApplyFill
  <2> HIDE DEF due, m
  <2> DEFINE n == Bought(l, fill, due)
  <2>4. Sound(n) /\ n.lastAt = fill.at
    BY <1>1, <1>2, BoughtSound
  <2>5. Available(n) = Available(l) - Spent(fill)
    BY <1>1, <1>2, <2>4, BoughtFacts DEF Sound
  <2> HIDE DEF n
  <2>6. Available(n) >= 0
    BY ONLY <1>1, <2>2, <2>5
  <2>7. m = n
    BY <2>3, <2>4, <2>6, SoundReconciles DEF n
  <2> QED BY <2>4, <2>7 DEF m
<1>3. CASE fill.side = "sell"
  <2>1. /\ i \in Instruments /\ fill.quantity \in Nat \ {0} /\ p.quantity \in Nat
        /\ fill.quantity <= p.quantity
    BY <1>1, <1>3 DEF FillTyped, LedgerTyped, Positions
  <2>2. p.known /\ ~(fill.quantity > p.quantity)
    BY <1>1, <2>1 DEF KnownShares
  <2>3. m = Reconcile(Sold(l, fill, due))
    BY <1>1, <1>3, <2>2 DEF ApplyFill
  <2> HIDE DEF due, m
  <2> DEFINE n == Sold(l, fill, due)
  <2>4. Sound(n) /\ n.lastAt = fill.at
    BY <1>1, <1>3, <2>1, SoldSound
  <2>5. Available(n) = Available(l)
    BY <1>1, <1>3, <2>1, <2>4, SoldFacts DEF Sound
  <2> HIDE DEF n
  <2>6. m = n
    BY <2>3, <2>4, <2>5, SoundReconciles DEF n
  <2> QED BY <2>4, <2>6 DEF m
<1> QED BY <1>1, <1>2, <1>3 DEF Sides

-----------------------------------------------------------------------------
(* Settlements, dividends and splits keep the books. *)

(* What changes from l to n is what the postings say. *)
Tracks(l, n, postings) ==
    /\ n.balance = l.balance /\ n.ordered = l.ordered /\ n.lastAt = l.lastAt
    /\ n.error = l.error /\ n.capital = l.capital
    /\ n.fees = l.fees /\ n.taxes = l.taxes /\ n.realized = l.realized
    /\ n.filledFees = l.filledFees /\ n.filledGain = l.filledGain
    /\ \A i \in Instruments : n.positions[i].book = l.positions[i].book
    /\ \A a \in DOMAIN postings : postings[a] \in Int
    /\ SumFunction(postings) = 0
    /\ Entered(postings, "cash") = n.settled - l.settled
    /\ Entered(postings, "settlement_payable") = Payables(l) - Payables(n)
    /\ Entered(postings, "settlement_receivable") = Receivables(n) - Receivables(l)
    /\ Entered(postings, "dividend_receivable") = DividendReceivables(n) - DividendReceivables(l)
    /\ Entered(postings, "dividend_income") = l.dividends - n.dividends
    /\ \A a \in {"contributed_capital", "transaction_tax_expense"} \cup Instruments :
        Entered(postings, a) = 0

(* A movement of cash keeps the books when its postings say what it changes. *)
LEMMA MovementSound ==
    ASSUME NEW l, Sound(l), NEW n, LedgerTyped(n), KnownShares(n),
           NEW postings, Tracks(l, n, postings), NEW at \in Int, l.lastAt <= at
    PROVE  /\ Sound(Post(n, at, postings)) /\ Post(n, at, postings).lastAt = at
           /\ SameAccount(n, Post(n, at, postings))
<1> DEFINE m == Post(n, at, postings)
<1>1. LedgerTyped(l) /\ Good(l) /\ l.ordered /\ BooksTyped(l) /\ BooksAgree(l) /\ DOMAIN n = Fields
  BY DEF Sound, LedgerTyped
<1>2. /\ n.balance = l.balance /\ n.ordered = l.ordered /\ n.lastAt = l.lastAt
      /\ n.error = l.error /\ n.capital = l.capital
      /\ n.fees = l.fees /\ n.taxes = l.taxes /\ n.realized = l.realized
      /\ n.filledFees = l.filledFees /\ n.filledGain = l.filledGain
      /\ \A i \in Instruments : n.positions[i].book = l.positions[i].book
  BY DEF Tracks
<1>3. Journaled(n, m, at, postings)
  BY <1>1, <1>2, JournaledFacts DEF Good, BooksTyped, Tracks
<1> HIDE DEF m
<1>4. /\ SameAccount(n, m) /\ Good(m) /\ m.ordered /\ m.lastAt = at /\ m.capital = l.capital
      /\ m.fees = l.fees /\ m.taxes = l.taxes
      /\ m.filledFees = l.filledFees /\ m.filledGain = l.filledGain
      /\ m.balance \in [Accounts \cup Instruments -> Int]
      /\ \A a \in Accounts \cup Instruments : m.balance[a] = l.balance[a] + Entered(postings, a)
  BY <1>2, <1>3 DEF Journaled, Entered
<1>5. LedgerTyped(m) /\ \A side : Outstanding(m, side) = Outstanding(n, side)
  BY <1>4, SameAccountFacts
<1>6. /\ m.settled = n.settled /\ m.dividends = n.dividends /\ m.realized = l.realized
      /\ m.positions = n.positions /\ m.receivables = n.receivables
  BY <1>2, <1>4 DEF SameAccount
<1>7. /\ Payables(m) = Payables(n) /\ Receivables(m) = Receivables(n)
      /\ DividendReceivables(m) = DividendReceivables(n)
  BY <1>5, <1>6 DEF Payables, Receivables, DividendReceivables
<1>8. /\ Payables(n) \in Int /\ Receivables(n) \in Int /\ DividendReceivables(n) \in Int
      /\ Payables(l) \in Int /\ Receivables(l) \in Int /\ DividendReceivables(l) \in Int
      /\ n.settled \in Int /\ l.settled \in Int /\ n.dividends \in Int /\ l.dividends \in Int
  BY <1>1, LedgerNumbers
<1>9. BooksTyped(m) /\ KnownShares(m)
  BY <1>1, <1>4, <1>6 DEF BooksTyped, KnownShares
<1>10. \A a \in Accounts \cup Instruments : l.balance[a] \in Int
  BY <1>1 DEF BooksTyped
<1>11. /\ Entered(postings, "cash") = n.settled - l.settled
       /\ Entered(postings, "settlement_payable") = Payables(l) - Payables(n)
       /\ Entered(postings, "settlement_receivable") = Receivables(n) - Receivables(l)
       /\ Entered(postings, "dividend_receivable") = DividendReceivables(n) - DividendReceivables(l)
       /\ Entered(postings, "dividend_income") = l.dividends - n.dividends
       /\ \A a \in {"contributed_capital", "transaction_tax_expense"} \cup Instruments :
             Entered(postings, a) = 0
  BY DEF Tracks
<1>12. {"cash", "dividend_receivable", "contributed_capital", "dividend_income",
        "settlement_payable", "settlement_receivable", "transaction_tax_expense"} \subseteq Accounts
  BY DEF Accounts
<1>13. \A i \in Instruments : m.balance[i] = m.positions[i].book
  <2> SUFFICES ASSUME NEW i \in Instruments PROVE m.balance[i] = m.positions[i].book
    OBVIOUS
  <2>1. m.balance[i] = l.balance[i] + Entered(postings, i) /\ Entered(postings, i) = 0
    BY <1>4, <1>11
  <2>2. l.balance[i] \in Int /\ l.balance[i] = l.positions[i].book
    BY <1>1, <1>10 DEF BooksAgree
  <2>3. m.positions[i].book = l.positions[i].book
    BY <1>2, <1>6
  <2> QED BY ONLY <2>1, <2>2, <2>3
<1>14. /\ l.balance["cash"] = l.settled /\ l.balance["settlement_payable"] = -Payables(l)
       /\ l.balance["settlement_receivable"] = Receivables(l)
       /\ l.balance["dividend_receivable"] = DividendReceivables(l)
       /\ l.balance["contributed_capital"] = -l.capital
       /\ l.balance["dividend_income"] = -l.dividends
       /\ l.balance["transaction_tax_expense"] = l.taxes
       /\ l.filledFees = l.fees /\ l.filledGain = l.realized
  BY <1>1 DEF BooksAgree
<1>15. /\ m.balance["cash"] = l.balance["cash"] + (n.settled - l.settled)
       /\ m.balance["settlement_payable"]
            = l.balance["settlement_payable"] + (Payables(l) - Payables(n))
       /\ m.balance["settlement_receivable"]
            = l.balance["settlement_receivable"] + (Receivables(n) - Receivables(l))
       /\ m.balance["dividend_receivable"]
            = l.balance["dividend_receivable"] + (DividendReceivables(n) - DividendReceivables(l))
       /\ m.balance["dividend_income"] = l.balance["dividend_income"] + (l.dividends - n.dividends)
       /\ m.balance["contributed_capital"] = l.balance["contributed_capital"]
       /\ m.balance["transaction_tax_expense"] = l.balance["transaction_tax_expense"]
  BY <1>4, <1>10, <1>11, <1>12
<1>16. /\ m.balance["cash"] = m.settled /\ m.balance["settlement_payable"] = -Payables(m)
       /\ m.balance["settlement_receivable"] = Receivables(m)
       /\ m.balance["dividend_receivable"] = DividendReceivables(m)
       /\ m.balance["dividend_income"] = -m.dividends
  BY ONLY <1>6, <1>7, <1>8, <1>14, <1>15
<1>17. BooksAgree(m)
  BY <1>4, <1>6, <1>13, <1>14, <1>15, <1>16 DEF BooksAgree
<1> QED BY <1>4, <1>5, <1>9, <1>17 DEF Sound, m

(* One pass of the loop of process_settlements keeps the books, or finds too little cash. *)
LEMMA SettleOneSound ==
    ASSUME NEW l, Sound(l), NEW k \in DOMAIN l.pending, NEW date \in Nat,
           NEW at \in Int, l.lastAt <= at
    PROVE  LET m == SettleOne(l, k, date, at)
           IN \/ Sound(m) /\ m.lastAt <= at
              \/ /\ m.error = "payable_exceeds_cash" /\ l.pending[k].side = "buy"
                 /\ ~l.pending[k].done /\ l.pending[k].amount > l.settled
<1> DEFINE m == SettleOne(l, k, date, at)
           item == l.pending[k]
           gain == IF item.side = "sell" THEN item.amount ELSE -item.amount
           n == [l EXCEPT !.settled = @ + gain, !.pending[k].done = TRUE]
           other == IF item.side = "sell" THEN "settlement_receivable" ELSE "settlement_payable"
           buying == [settlement_payable |-> item.amount, cash |-> -item.amount]
           selling == [cash |-> item.amount, settlement_receivable |-> -item.amount]
           postings == IF item.side = "sell" THEN selling ELSE buying
<1>1. /\ LedgerTyped(l) /\ Good(l) /\ KnownShares(l)
      /\ DOMAIN l = Fields /\ l.pending \in Seq(Items) /\ l.settled \in Int
      /\ item \in Items /\ item.amount \in Int /\ item.due \in Nat /\ item.side \in Sides
      /\ item.done \in BOOLEAN
  BY PendingFacts DEF LedgerTyped, Sound
<1>2. Fail(l, "payable_exceeds_cash").error = "payable_exceeds_cash"
  BY <1>1, FailFacts
<1>3. CASE ~IsDue(item, date)
  <2>1. m = l
    BY <1>3 DEF SettleOne
  <2> QED BY <2>1
<1>4. CASE IsDue(item, date) /\ item.side = "buy" /\ item.amount > l.settled
  <2>1. m = Fail(l, "payable_exceeds_cash")
    BY <1>1, <1>4 DEF SettleOne
  <2> QED BY <1>2, <1>4, <2>1 DEF IsDue
<1>5. CASE IsDue(item, date) /\ ~(item.side = "buy" /\ item.amount > l.settled)
  <2>1. ~item.done
    BY <1>5 DEF IsDue
  <2>2. m = Post(n, at, postings)
    <3>1. CASE item.side = "buy"
      <4>1. m = Post([l EXCEPT !.settled = @ - item.amount, !.pending[k].done = TRUE],
                     at, buying)
        BY <1>1, <1>5, <3>1 DEF SettleOne
      <4>2. l.settled - item.amount = l.settled + gain /\ postings = buying
        BY <1>1, <3>1
      <4> HIDE DEF m, gain, item, postings, buying
      <4> QED BY <4>1, <4>2
    <3>2. CASE item.side = "sell"
      <4>1. m = Post([l EXCEPT !.settled = @ + item.amount, !.pending[k].done = TRUE],
                     at, selling)
        BY <1>1, <1>5, <3>2 DEF SettleOne
      <4>2. item.amount = gain /\ postings = selling
        BY <3>2
      <4> HIDE DEF m, gain, item, postings, selling
      <4> QED BY <4>1, <4>2
    <3> QED BY <1>1, <3>1, <3>2 DEF Sides
  <2>3. /\ DOMAIN n = Fields /\ n.settled = l.settled + gain
        /\ n.pending = [l.pending EXCEPT ![k].done = TRUE]
        /\ n.positions = l.positions /\ n.receivables = l.receivables /\ n.applied = l.applied
        /\ n.realized = l.realized /\ n.dividends = l.dividends
        /\ n.balance = l.balance /\ n.ordered = l.ordered /\ n.lastAt = l.lastAt
        /\ n.error = l.error /\ n.capital = l.capital
        /\ n.fees = l.fees /\ n.taxes = l.taxes
        /\ n.filledFees = l.filledFees /\ n.filledGain = l.filledGain
    BY <1>1 DEF Fields
  <2>4. gain \in Int /\ n.settled \in Int
    <3>1. gain \in Int
      BY <1>1
    <3> HIDE DEF gain, n
    <3> QED BY <1>1, <2>3, <3>1
  <2>5. /\ DOMAIN postings = {"cash", other} /\ "cash" # other
        /\ postings["cash"] = gain /\ postings[other] + gain = 0 /\ postings[other] \in Int
    <3>1. CASE item.side = "buy"
      BY <1>1, <3>1
    <3>2. CASE item.side = "sell"
      BY <1>1, <3>2
    <3> QED BY <1>1, <3>1, <3>2 DEF Sides
  <2> HIDE DEF n, m, postings
  <2>6. /\ Outstanding(n, "buy") = Outstanding(l, "buy") - (IF item.side = "buy" THEN item.amount ELSE 0)
        /\ Outstanding(n, "sell") = Outstanding(l, "sell") - (IF item.side = "sell" THEN item.amount ELSE 0)
    <3>1. l.pending \in Seq(Items) /\ k \in DOMAIN l.pending /\ ~l.pending[k].done
          /\ n.pending = [l.pending EXCEPT ![k].done = TRUE]
      BY <1>1, <2>1, <2>3
    <3> QED BY ONLY <3>1, OutstandingSettled DEF item
  <2>7. LedgerTyped(n)
    <3>1. n.pending[k] = [item EXCEPT !.done = TRUE]
      BY <1>1, <2>3
    <3>2. n.pending[k] \in Items
      BY <1>1, <3>1 DEF Items
    <3>3. n.pending = [l.pending EXCEPT ![k] = n.pending[k]]
      BY <1>1, <2>3, <3>1
    <3>4. n.pending \in Seq(Items)
      BY <1>1, <3>2, <3>3, SeqExcept
    <3>5. /\ l.realized \in Int /\ l.dividends \in Int
          /\ l.positions \in [Instruments -> Positions] /\ IsFiniteSet(l.receivables)
          /\ \A d \in l.receivables : d.action \in l.applied /\ d.pay \in Nat /\ d.amount \in Nat
      BY <1>1 DEF LedgerTyped
    <3> QED BY <2>3, <2>4, <3>4, <3>5 DEF LedgerTyped
  <2>8. DividendReceivables(n) = DividendReceivables(l) /\ KnownShares(n)
    BY <1>1, <2>3 DEF DividendReceivables, KnownShares
  <2>9. /\ Payables(l) \in Int /\ Receivables(l) \in Int /\ DividendReceivables(l) \in Int
        /\ l.dividends \in Int /\ l.settled \in Int
    BY <1>1, LedgerNumbers
  <2>10. Tracks(l, n, postings)
    <3>1. SumFunction(postings) = 0 /\ \A a \in DOMAIN postings : postings[a] \in Int
      <4>1. SumFunction(postings) = postings["cash"] + postings[other]
        BY <2>4, <2>5, SumOfPair
      <4> HIDE DEF gain, other
      <4> QED BY <2>4, <2>5, <4>1
    <3>2. /\ other \in {"settlement_payable", "settlement_receivable"}
          /\ (other = "settlement_payable") <=> (item.side = "buy")
      BY <1>1 DEF Sides
    <3>3. /\ Entered(postings, "cash") = gain
          /\ Entered(postings, "settlement_payable") = (IF item.side = "buy" THEN item.amount ELSE 0)
          /\ Entered(postings, "settlement_receivable")
                = (IF item.side = "sell" THEN -item.amount ELSE 0)
      <4>1. CASE item.side = "buy"
        <5>1. other = "settlement_payable" /\ gain = -item.amount /\ postings[other] = item.amount
          BY <1>1, <2>5, <4>1
        <5> HIDE DEF other, gain, item
        <5> QED BY <2>5, <4>1, <5>1 DEF Entered
      <4>2. CASE item.side = "sell"
        <5>1. other = "settlement_receivable" /\ gain = item.amount /\ postings[other] = -item.amount
          BY <1>1, <2>5, <4>2
        <5> HIDE DEF other, gain, item
        <5> QED BY <2>5, <4>2, <5>1 DEF Entered
      <4> QED BY <1>1, <4>1, <4>2 DEF Sides
    <3>4. \A a \in {"contributed_capital", "transaction_tax_expense", "dividend_receivable",
                    "dividend_income"} \cup Instruments : Entered(postings, a) = 0
      <4>1. DOMAIN postings \subseteq {"cash", "settlement_payable", "settlement_receivable"}
        BY <2>5, <3>2
      <4>2. {"cash", "settlement_payable", "settlement_receivable"} \cap Instruments = {}
        BY LedgerAssumption DEF Accounts
      <4> QED BY <4>1, <4>2 DEF Entered
    <3>5. /\ n.settled - l.settled = gain
          /\ Payables(l) - Payables(n) = (IF item.side = "buy" THEN item.amount ELSE 0)
          /\ Receivables(n) - Receivables(l) = (IF item.side = "sell" THEN -item.amount ELSE 0)
      <4>1. n.settled - l.settled = gain
        <5> HIDE DEF gain
        <5> QED BY <2>3, <2>4, <2>9
      <4>2. /\ Payables(n) = Payables(l) - (IF item.side = "buy" THEN item.amount ELSE 0)
            /\ Receivables(n) = Receivables(l) - (IF item.side = "sell" THEN item.amount ELSE 0)
        BY <2>6 DEF Payables, Receivables
      <4> HIDE DEF item, gain
      <4>3. CASE item.side = "buy"
        BY <1>1, <2>9, <4>1, <4>2, <4>3
      <4>4. CASE item.side = "sell"
        BY <1>1, <2>9, <4>1, <4>2, <4>4
      <4> QED BY <1>1, <4>3, <4>4 DEF Sides
    <3>6. /\ DividendReceivables(n) - DividendReceivables(l) = 0
          /\ l.dividends - n.dividends = 0
      BY <2>3, <2>8, <2>9
    <3> HIDE DEF gain, item, other
    <3> QED BY <2>3, <3>1, <3>3, <3>4, <3>5, <3>6 DEF Tracks
  <2>11. Sound(m) /\ m.lastAt = at
    BY <2>2, <2>7, <2>8, <2>10, MovementSound
  <2> QED BY <2>11 DEF m
<1> QED BY <1>3, <1>4, <1>5

(* What is owed covers each of the purchases not settled yet. *)
LEMMA PayablesCover ==
    ASSUME NEW l, l.pending \in Seq(Items), SalesPayIn(l), NEW k \in DOMAIN l.pending,
           ~l.pending[k].done, l.pending[k].side = "buy"
    PROVE  l.pending[k].amount <= Payables(l)
<1>1. /\ IsFiniteSet(OpenItems(l, "buy")) /\ OpenItems(l, "buy") \subseteq DOMAIN l.pending
      /\ \A j \in DOMAIN l.pending : Amounts(l)[j] = l.pending[j].amount /\ Amounts(l)[j] \in Int
  BY OpenFacts
<1>2. \A j \in OpenItems(l, "buy") : Amounts(l)[j] \in Nat
  BY <1>1 DEF SalesPayIn
<1>3. k \in OpenItems(l, "buy")
  BY DEF OpenItems
<1>4. Amounts(l)[k] <= SumFunctionOnSet(Amounts(l), OpenItems(l, "buy"))
  BY <1>1, <1>2, <1>3, SumNat
<1> QED BY <1>1, <1>4, OutstandingIs DEF Payables

(* Settlements fail only when a sale that cost more than it brought in took the cash. *)
LEMMA SettleTradesSound ==
    ASSUME NEW l, Sound(l), NEW date \in Nat, NEW at \in Int, l.lastAt <= at
    PROVE  LET m == SettleTrades(l, date, at)
           IN \/ Sound(m) /\ m.lastAt <= at
              \/ m.error = "payable_exceeds_cash" /\ ~(SalesPayIn(l) /\ Available(l) >= 0)
<1> DEFINE n == Len(l.pending)
           f == CHOOSE f : Settles(f, l, n, date, at)
           Fine(m) == Sound(m) /\ m.lastAt <= at /\ SettledFrom(l, m)
           Lost(m) == m.error = "payable_exceeds_cash" /\ ~(SalesPayIn(l) /\ Available(l) >= 0)
           bad == {k \in 0 .. n : ~(Fine(f[k]) \/ Lost(f[k]))}
<1>1. n \in Nat /\ DOMAIN l.pending = 1 .. n /\ LedgerTyped(l)
  BY PendingFacts DEF LedgerTyped, Sound
<1>2. Settles(f, l, n, date, at)
  BY <1>1, SettlesExist
<1>3. SettleTrades(l, date, at) = f[n]
  BY DEF SettleTrades, Settles
<1> HIDE DEF f
<1>4. \A k \in 0 .. n : f[k] = IF k = 0 THEN l ELSE SettleOne(f[k - 1], k, date, at)
  BY <1>2, Zenon DEF Settles
<1>5. bad = {}
  <2> SUFFICES ASSUME bad # {} PROVE FALSE
    OBVIOUS
  <2>1. bad \subseteq Nat
    BY <1>1
  <2>2. PICK k \in bad : \A j \in bad : k <= j
    BY <2>1, LeastNumber
  <2>3. CASE k = 0
    <3>1. f[k] = l
      BY <1>1, <1>4, <2>3
    <3>2. Fine(l)
      BY <1>1, SettledFromItself
    <3> QED BY <2>2, <3>1, <3>2
  <2>4. CASE k # 0
    <3>1. k \in DOMAIN l.pending /\ k - 1 \in 0 .. n /\ f[k] = SettleOne(f[k - 1], k, date, at)
      BY <1>1, <1>4, <2>2, <2>4
    <3>2. k - 1 \notin bad
      BY <1>1, <2>2, <2>4
    <3> DEFINE g == f[k - 1]
               h == SettleOne(g, k, date, at)
    <3>3. Fine(g) \/ Lost(g)
      BY <3>1, <3>2
    <3>4. h = f[k]
      BY <3>1
    <3> HIDE DEF g
    <3>5. CASE Fine(g)
      <4>1. LedgerTyped(g) /\ k \in DOMAIN g.pending
        BY <3>1, <3>5 DEF SettledFrom
      <4>2. \/ Sound(h) /\ h.lastAt <= at
            \/ /\ h.error = "payable_exceeds_cash" /\ g.pending[k].side = "buy"
               /\ ~g.pending[k].done /\ g.pending[k].amount > g.settled
        BY <3>5, <4>1, SettleOneSound
      <4>3. CASE Sound(h) /\ h.lastAt <= at
        <5>1. Good(h)
          BY <4>3 DEF Sound
        <5>2. SettledFrom(g, h)
          BY <4>1, <5>1, SettleOneFacts
        <5> HIDE DEF h
        <5>3. SettledFrom(l, h)
          BY <1>1, <3>5, <5>2, SettledFromTwice
        <5> QED BY <2>2, <3>4, <4>3, <5>3
      <4>4. CASE /\ h.error = "payable_exceeds_cash" /\ g.pending[k].side = "buy"
                 /\ ~g.pending[k].done /\ g.pending[k].amount > g.settled
        <5>1. ASSUME SalesPayIn(l), Available(l) >= 0 PROVE FALSE
          <6>1. SalesPayIn(g)
            BY <3>5, <5>1 DEF SettledFrom, SalesPayIn
          <6>2. Available(g) >= Available(l)
            BY <3>5, <5>1 DEF SettledFrom
          <6>3. g.pending[k].amount <= Payables(g)
            BY <4>1, <4>4, <6>1, PayablesCover DEF LedgerTyped
          <6>4. /\ Payables(g) \in Int /\ g.settled \in Int /\ g.pending[k].amount \in Int
                /\ Available(g) \in Int /\ Available(l) \in Int
            BY <1>1, <4>1, LedgerNumbers, PendingFacts DEF LedgerTyped
          <6>5. Available(g) = g.settled - Payables(g)
            BY DEF Available
          <6> QED BY ONLY <4>4, <5>1, <6>2, <6>3, <6>4, <6>5
        <5> HIDE DEF h
        <5> QED BY <2>2, <3>4, <4>4, <5>1
      <4> QED BY <4>2, <4>3, <4>4
    <3>6. CASE Lost(g)
      <4>1. h = g
        BY <3>6 DEF SettleOne, Good
      <4> QED BY <2>2, <3>4, <3>6, <4>1
    <3> QED BY <3>3, <3>5, <3>6
  <2> QED BY <2>3, <2>4
<1>6. Fine(f[n]) \/ Lost(f[n])
  BY <1>1, <1>5
<1> QED BY <1>3, <1>6

(* _pay_dividends keeps the books. *)
LEMMA PayDividendsSound ==
    ASSUME NEW l, Sound(l), NEW date \in Nat, NEW at \in Int, l.lastAt <= at
    PROVE  Sound(PayDividends(l, date, at)) /\ PayDividends(l, date, at).lastAt <= at
<1> DEFINE m == PayDividends(l, date, at)
           due == {d \in l.receivables : d.pay <= date}
           rest == l.receivables \ due
           f == [d \in l.receivables |-> d.amount]
           g == [d \in due |-> d.amount]
           h == [d \in rest |-> d.amount]
           amount == SumFunction(g)
           n == [l EXCEPT !.settled = @ + amount, !.receivables = @ \ due]
           postings == [cash |-> amount, dividend_receivable |-> -amount]
<1>1. /\ LedgerTyped(l) /\ Good(l) /\ KnownShares(l)
      /\ DOMAIN l = Fields /\ l.settled \in Int /\ IsFiniteSet(l.receivables)
      /\ \A d \in l.receivables : d.pay \in Nat /\ d.amount \in Nat
  BY DEF LedgerTyped, Sound
<1>2. CASE due = {}
  BY <1>2 DEF PayDividends
<1>3. CASE due # {}
  <2>1. due \subseteq l.receivables /\ IsFiniteSet(due) /\ IsFiniteSet(rest)
    BY <1>1, FS_Subset
  <2>2. DividendReceivables(l) = amount + SumFunction(h) /\ amount \in Nat /\ SumFunction(h) \in Nat
    <3>1. \A d \in l.receivables : f[d] \in Int
      BY <1>1
    <3>2. \A d \in due : g[d] = f[d] /\ g[d] \in Nat
      BY <1>1
    <3>3. \A d \in rest : h[d] = f[d] /\ h[d] \in Nat
      BY <1>1
    <3>4. DOMAIN f = l.receivables /\ DOMAIN g = due /\ DOMAIN h = rest /\ rest = l.receivables \ due
      OBVIOUS
    <3>5. DividendReceivables(l) = SumFunction(f)
      BY DEF DividendReceivables
    <3> HIDE DEF f, g, h, due, rest
    <3>6. SumFunctionOnSet(f, l.receivables) = SumFunctionOnSet(f, due) + SumFunctionOnSet(f, rest)
      BY <1>1, <2>1, <3>1, <3>4, SumSplit
    <3>7. SumFunctionOnSet(g, due) = SumFunctionOnSet(f, due) /\ SumFunctionOnSet(g, due) \in Nat
      BY <2>1, <3>2, SumAgrees, SumNat
    <3>8. SumFunctionOnSet(h, rest) = SumFunctionOnSet(f, rest) /\ SumFunctionOnSet(h, rest) \in Nat
      BY <2>1, <3>3, SumAgrees, SumNat
    <3> QED BY <3>4, <3>5, <3>6, <3>7, <3>8 DEF SumFunction
  <2>3. m = Post(n, at, postings)
    BY <1>1, <1>3 DEF PayDividends
  <2> HIDE DEF m, amount
  <2>4. /\ DOMAIN n = Fields /\ n.settled = l.settled + amount /\ n.receivables = rest
        /\ n.pending = l.pending
        /\ n.positions = l.positions /\ n.applied = l.applied
        /\ n.realized = l.realized /\ n.dividends = l.dividends
        /\ n.balance = l.balance /\ n.ordered = l.ordered /\ n.lastAt = l.lastAt
        /\ n.error = l.error /\ n.capital = l.capital
        /\ n.fees = l.fees /\ n.taxes = l.taxes
        /\ n.filledFees = l.filledFees /\ n.filledGain = l.filledGain
    BY <1>1 DEF Fields
  <2>5. /\ DOMAIN postings = {"cash", "dividend_receivable"}
        /\ postings["cash"] = amount /\ postings["dividend_receivable"] = -amount
    OBVIOUS
  <2> HIDE DEF n, postings
  <2>6. LedgerTyped(n) /\ KnownShares(n)
    BY <1>1, <2>1, <2>2, <2>4 DEF LedgerTyped, KnownShares
  <2>7. Payables(n) = Payables(l) /\ Receivables(n) = Receivables(l)
    BY <2>4 DEF Outstanding, Payables, Receivables
  <2>8. DividendReceivables(n) = SumFunction(h)
    BY <2>4 DEF DividendReceivables
  <2>9. /\ Payables(l) \in Int /\ Receivables(l) \in Int /\ l.dividends \in Int
        /\ DividendReceivables(l) \in Int
    BY <1>1, LedgerNumbers
  <2>10. SumFunction(postings) = 0 /\ \A a \in DOMAIN postings : postings[a] \in Int
    BY <2>2, <2>5, TransferBalances
  <2> HIDE DEF h
  <2>11. /\ Entered(postings, "cash") = amount /\ Entered(postings, "dividend_receivable") = -amount
         /\ \A a \in {"contributed_capital", "transaction_tax_expense", "dividend_income",
                      "settlement_payable", "settlement_receivable"} \cup Instruments :
                Entered(postings, a) = 0
    <3>1. {"cash", "dividend_receivable"} \cap Instruments = {}
      BY LedgerAssumption DEF Accounts
    <3> QED BY <2>5, <3>1 DEF Entered
  <2>12. /\ n.settled - l.settled = amount
         /\ DividendReceivables(n) - DividendReceivables(l) = -amount
         /\ Payables(l) - Payables(n) = 0 /\ Receivables(n) - Receivables(l) = 0
         /\ l.dividends - n.dividends = 0
    BY ONLY <1>1, <2>2, <2>4, <2>7, <2>8, <2>9
  <2>13. Tracks(l, n, postings)
    BY <2>4, <2>10, <2>11, <2>12 DEF Tracks
  <2> QED BY <2>3, <2>6, <2>13, MovementSound DEF m
<1> QED BY <1>2, <1>3

(* process_settlements keeps the books, or finds too little cash after a sale at a loss. *)
LEMMA SettlementsSound ==
    ASSUME NEW l, Sound(l), NEW date \in Nat, NEW at \in Int, l.lastAt <= at
    PROVE  LET m == ProcessSettlements(l, date, at)
           IN \/ Sound(m) /\ m.lastAt <= at
              \/ m.error = "available_cash_negative"
              \/ m.error = "payable_exceeds_cash" /\ ~(SalesPayIn(l) /\ Available(l) >= 0)
<1> DEFINE s == SettleTrades(l, date, at)
           n == PayDividends(s, date, at)
           m == ProcessSettlements(l, date, at)
<1>1. m = Reconcile(n)
  BY DEF ProcessSettlements
<1>2. \/ Sound(s) /\ s.lastAt <= at
      \/ s.error = "payable_exceeds_cash" /\ ~(SalesPayIn(l) /\ Available(l) >= 0)
  BY SettleTradesSound
<1> HIDE DEF m, s
<1>3. CASE Sound(s) /\ s.lastAt <= at
  <2>1. Sound(n) /\ n.lastAt <= at
    BY <1>3, PayDividendsSound
  <2> HIDE DEF n
  <2>2. Fail(n, "available_cash_negative").error = "available_cash_negative"
    BY <2>1, FailFacts DEF Sound, LedgerTyped
  <2>3. Reconcile(n) = n \/ Reconcile(n) = Fail(n, "available_cash_negative")
    BY <2>1, SoundReconciles
  <2> QED BY <1>1, <2>1, <2>2, <2>3 DEF m
<1>4. CASE s.error = "payable_exceeds_cash" /\ ~(SalesPayIn(l) /\ Available(l) >= 0)
  <2>1. n = s /\ ~Good(s)
    BY <1>4 DEF PayDividends, Good
  <2> HIDE DEF n
  <2>2. m = s
    BY <1>1, <2>1 DEF Reconcile
  <2> QED BY <1>4, <2>2 DEF m
<1> QED BY <1>2, <1>3, <1>4

(* A dividend that was not applied before keeps the books. *)
LEMMA AccrueSound ==
    ASSUME NEW l, Sound(l), Available(l) >= 0, NEW a, ValidAction(a), a.id \notin l.applied,
           NEW at \in Int, l.lastAt <= at
    PROVE  LET m == AccrueDividend(l, a, at)
           IN Sound(m) /\ m.lastAt <= at /\ m.applied = l.applied \cup {a.id}
<1> DEFINE m == AccrueDividend(l, a, at)
           amount == a.perShare * l.positions[a.instrument].quantity
           new == [action |-> a.id, pay |-> a.pay, amount |-> amount]
           n == [l EXCEPT !.receivables = @ \cup {new}, !.applied = @ \cup {a.id},
                          !.dividends = @ + amount]
           postings == [dividend_receivable |-> amount, dividend_income |-> -amount]
           p == Post(n, at, postings)
           f == [d \in l.receivables |-> d.amount]
           g == [d \in l.receivables \cup {new} |-> d.amount]
<1>1. /\ LedgerTyped(l) /\ Good(l) /\ KnownShares(l)
      /\ DOMAIN l = Fields /\ l.settled \in Int /\ l.dividends \in Int /\ IsFiniteSet(l.receivables)
      /\ l.positions \in [Instruments -> Positions] /\ l.pending \in Seq(Items) /\ l.realized \in Int
      /\ \A d \in l.receivables : d.action \in l.applied /\ d.pay \in Nat /\ d.amount \in Nat
  BY DEF LedgerTyped, Sound
<1>2. a.perShare \in Nat /\ a.instrument \in Instruments /\ a.pay \in Nat
  BY DEF ValidAction
<1>3. amount \in Nat
  <2>1. l.positions[a.instrument].quantity \in Nat
    BY <1>1, <1>2 DEF Positions
  <2> QED BY <1>2, <2>1
<1>4. m = Reconcile(p)
  BY <1>1 DEF AccrueDividend
<1> HIDE DEF m, amount
<1>5. new \notin l.receivables /\ new.amount = amount /\ new.pay = a.pay /\ new.action = a.id
  BY <1>1
<1>6. /\ DOMAIN n = Fields /\ n.settled = l.settled
      /\ n.receivables = l.receivables \cup {new} /\ n.applied = l.applied \cup {a.id}
      /\ n.pending = l.pending /\ n.positions = l.positions
      /\ n.realized = l.realized /\ n.dividends = l.dividends + amount
      /\ n.balance = l.balance /\ n.ordered = l.ordered /\ n.lastAt = l.lastAt
      /\ n.error = l.error /\ n.capital = l.capital
      /\ n.fees = l.fees /\ n.taxes = l.taxes
      /\ n.filledFees = l.filledFees /\ n.filledGain = l.filledGain
  BY <1>1 DEF Fields
<1>7. /\ DOMAIN postings = {"dividend_receivable", "dividend_income"}
      /\ postings["dividend_receivable"] = amount /\ postings["dividend_income"] = -amount
  OBVIOUS
<1> HIDE DEF n, new, postings
<1>8. IsFiniteSet(n.receivables)
  <2>1. IsFiniteSet(l.receivables) /\ n.receivables = l.receivables \cup {new}
    BY <1>1, <1>6
  <2> QED BY ONLY <2>1, FS_AddElement
<1>9. LedgerTyped(n) /\ KnownShares(n)
  BY <1>1, <1>2, <1>3, <1>5, <1>6, <1>8 DEF LedgerTyped, KnownShares
<1>10. DividendReceivables(n) = DividendReceivables(l) + amount
  <2>1. \A d \in l.receivables : g[d] = f[d] /\ f[d] \in Int
    BY <1>1
  <2>2. \A d \in l.receivables \cup {new} : g[d] \in Int
    BY <1>1, <1>3, <1>5
  <2>3. g[new] = amount
    BY <1>5
  <2>4. DOMAIN f = l.receivables /\ DOMAIN g = l.receivables \cup {new}
    OBVIOUS
  <2>5. DividendReceivables(n) = SumFunction(g) /\ DividendReceivables(l) = SumFunction(f)
    BY <1>6 DEF DividendReceivables
  <2> HIDE DEF f, g
  <2>6. SumFunctionOnSet(g, l.receivables \cup {new}) = SumFunctionOnSet(g, l.receivables) + g[new]
    BY <1>1, <1>5, <2>2, SumAdd
  <2>7. SumFunctionOnSet(g, l.receivables) = SumFunctionOnSet(f, l.receivables)
    BY <1>1, <2>1, SumAgrees
  <2> QED BY <2>3, <2>4, <2>5, <2>6, <2>7 DEF SumFunction
<1>11. Payables(n) = Payables(l) /\ Receivables(n) = Receivables(l)
  BY <1>6 DEF Outstanding, Payables, Receivables
<1>12. /\ Payables(l) \in Int /\ Receivables(l) \in Int /\ DividendReceivables(l) \in Int
       /\ Available(l) \in Int
  BY <1>1, LedgerNumbers
<1>13. SumFunction(postings) = 0 /\ \A c \in DOMAIN postings : postings[c] \in Int
  BY <1>3, <1>7, TransferBalances
<1>14. /\ Entered(postings, "dividend_receivable") = amount
       /\ Entered(postings, "dividend_income") = -amount
       /\ \A c \in {"contributed_capital", "transaction_tax_expense", "cash",
                    "settlement_payable", "settlement_receivable"} \cup Instruments :
              Entered(postings, c) = 0
  <2>1. {"dividend_receivable", "dividend_income"} \cap Instruments = {}
    BY LedgerAssumption DEF Accounts
  <2> QED BY <1>7, <2>1 DEF Entered
<1>15. /\ l.dividends - n.dividends = -amount
       /\ DividendReceivables(n) - DividendReceivables(l) = amount
       /\ Payables(l) - Payables(n) = 0 /\ Receivables(n) - Receivables(l) = 0
       /\ n.settled - l.settled = 0
  BY ONLY <1>1, <1>3, <1>6, <1>10, <1>11, <1>12
<1>16. Tracks(l, n, postings)
  BY <1>6, <1>13, <1>14, <1>15 DEF Tracks
<1>17. Sound(p) /\ p.lastAt = at /\ SameAccount(n, p)
  BY <1>9, <1>16, MovementSound
<1> HIDE DEF p
<1>18. Available(n) = Available(l)
  BY <1>6, <1>11 DEF Available
<1>19. Available(p) >= 0
  BY <1>12, <1>17, <1>18, SameAccountFacts
<1>20. m = p
  BY <1>4, <1>17, <1>19, SoundReconciles
<1> QED BY <1>6, <1>17, <1>20 DEF m, SameAccount

(* Other shares of the same cost keep the books. *)
LEMMA SharesSound ==
    ASSUME NEW l, Sound(l), Available(l) >= 0, NEW n, DOMAIN n = Fields,
           n.positions \in [Instruments -> Positions], KnownShares(n),
           \A field \in Fields \ {"positions", "applied"} : n[field] = l[field],
           \A i \in Instruments : n.positions[i].book = l.positions[i].book,
           l.applied \subseteq n.applied, NEW at \in Int, l.lastAt <= at
    PROVE  LET m == Reconcile(Post(n, at, <<>>))
           IN Sound(m) /\ m.lastAt <= at /\ m.applied = n.applied
<1> DEFINE p == Post(n, at, <<>>)
<1>1. LedgerTyped(l) /\ Good(l) /\ DOMAIN l = Fields
  BY DEF LedgerTyped, Sound
<1>2. /\ n.settled = l.settled /\ n.receivables = l.receivables /\ n.pending = l.pending
      /\ n.realized = l.realized /\ n.dividends = l.dividends
      /\ n.balance = l.balance /\ n.ordered = l.ordered /\ n.lastAt = l.lastAt
      /\ n.error = l.error /\ n.capital = l.capital
      /\ n.fees = l.fees /\ n.taxes = l.taxes
      /\ n.filledFees = l.filledFees /\ n.filledGain = l.filledGain
  BY <1>1 DEF Fields
<1>3. SameCash(l, n)
  BY <1>1, <1>2, SharesFacts
<1>4. /\ Payables(n) = Payables(l) /\ Receivables(n) = Receivables(l)
      /\ DividendReceivables(n) = DividendReceivables(l)
  BY <1>2 DEF Outstanding, Payables, Receivables, DividendReceivables
<1>5. /\ Payables(l) \in Int /\ Receivables(l) \in Int /\ DividendReceivables(l) \in Int
      /\ l.settled \in Int /\ l.dividends \in Int /\ Available(l) \in Int
  BY <1>1, LedgerNumbers
<1>6. DOMAIN <<>> = {} /\ SumFunction(<<>>) = 0
  BY SumOfNone DEF SumFunction
<1>7. \A a : Entered(<<>>, a) = 0
  BY <1>6 DEF Entered
<1>8. /\ n.settled - l.settled = 0 /\ l.dividends - n.dividends = 0
      /\ Payables(l) - Payables(n) = 0 /\ Receivables(n) - Receivables(l) = 0
      /\ DividendReceivables(n) - DividendReceivables(l) = 0
  BY <1>2, <1>4, <1>5
<1>9. Tracks(l, n, <<>>)
  BY <1>2, <1>6, <1>7, <1>8 DEF Tracks
<1>10. Sound(p) /\ p.lastAt = at /\ SameAccount(n, p)
  BY <1>3, <1>9, MovementSound DEF SameCash
<1> HIDE DEF p
<1>11. Available(p) >= 0
  BY <1>3, <1>5, <1>10, SameAccountFacts DEF SameCash
<1>12. Reconcile(p) = p
  BY <1>10, <1>11, SoundReconciles
<1> QED BY <1>10, <1>12 DEF p, SameAccount

(* A split that was not applied before keeps the books, or would leave a fraction of a share. *)
LEMMA SplitSound ==
    ASSUME NEW l, Sound(l), Available(l) >= 0, NEW a, ValidAction(a), a.id \notin l.applied,
           NEW at \in Int, l.lastAt <= at
    PROVE  LET m == ApplySplit(l, a, at)
           IN \/ Sound(m) /\ m.lastAt <= at /\ m.applied = l.applied \cup {a.id}
              \/ m.error = "fractional_shares"
<1> DEFINE m == ApplySplit(l, a, at)
           i == a.instrument
           p == l.positions[i]
           q == [p EXCEPT !.quantity = (@ * a.num) \div a.den, !.price = (@ * a.den) \div a.num]
           applied == [l EXCEPT !.applied = @ \cup {a.id}]
           split == [applied EXCEPT !.positions[i].quantity = (@ * a.num) \div a.den,
                                    !.positions[i].price = (@ * a.den) \div a.num]
<1>1. /\ LedgerTyped(l) /\ Good(l) /\ KnownShares(l)
      /\ DOMAIN l = Fields /\ l.positions \in [Instruments -> Positions]
  BY DEF LedgerTyped, Sound
<1>2. i \in Instruments /\ a.num \in Nat \ {0} /\ a.den \in Nat \ {0}
  BY DEF ValidAction
<1>3. p \in Positions /\ p.quantity \in Nat /\ p.price \in Int
  BY <1>1, <1>2 DEF Positions
<1>4. Fail(l, "fractional_shares").error = "fractional_shares"
  BY <1>1, FailFacts
<1>5. CASE p.quantity = 0
  <2>1. m = Reconcile(Post(applied, at, <<>>))
    BY <1>1, <1>5 DEF ApplySplit
  <2>2. /\ DOMAIN applied = Fields /\ applied.positions = l.positions
        /\ applied.applied = l.applied \cup {a.id}
        /\ \A field \in Fields \ {"positions", "applied"} : applied[field] = l[field]
    BY <1>1 DEF Fields
  <2> HIDE DEF m, applied
  <2>3. KnownShares(applied)
    BY <1>1, <2>2 DEF KnownShares
  <2>4. LET r == Reconcile(Post(applied, at, <<>>))
        IN Sound(r) /\ r.lastAt <= at /\ r.applied = applied.applied
    BY <1>1, <2>2, <2>3, SharesSound
  <2> QED BY <2>1, <2>2, <2>4 DEF m
<1>6. CASE p.quantity # 0 /\ (p.quantity * a.num) % a.den # 0
  <2>1. m = Fail(l, "fractional_shares")
    BY <1>1, <1>6 DEF ApplySplit
  <2> QED BY <1>4, <2>1
<1>7. CASE p.quantity # 0 /\ ~((p.quantity * a.num) % a.den # 0)
  <2>1. m = Reconcile(Post(split, at, <<>>))
    BY <1>1, <1>7 DEF ApplySplit
  <2>2. q \in Positions /\ q.book = p.book /\ q.known = p.known
    <3>1. (p.quantity * a.num) \div a.den \in Nat
      <4> DEFINE x == p.quantity * a.num
      <4>1. x \in Nat
        BY <1>2, <1>3
      <4> HIDE DEF x, p
      <4> QED BY <1>2, <4>1 DEF x
    <3>2. (p.price * a.den) \div a.num \in Int
      <4> DEFINE x == p.price * a.den
      <4>1. x \in Int
        BY <1>2, <1>3
      <4> HIDE DEF x, p
      <4> QED BY <1>2, <4>1 DEF x
    <3> HIDE DEF p
    <3> QED BY <1>3, <3>1, <3>2 DEF Positions
  <2>3. /\ DOMAIN split = Fields /\ split.positions = [l.positions EXCEPT ![i] = q]
        /\ split.applied = l.applied \cup {a.id}
    BY <1>1, <1>2, <1>3 DEF Fields, Positions
  <2>4. \A field \in Fields \ {"positions", "applied"} : split[field] = l[field]
    BY <1>1 DEF Fields
  <2> HIDE DEF m, split, applied, q
  <2>5. /\ split.positions \in [Instruments -> Positions]
        /\ \A j \in Instruments : split.positions[j].book = l.positions[j].book
    BY <1>1, <2>2, <2>3
  <2>6. KnownShares(split)
    <3>1. p.known
      BY <1>1, <1>2, <1>7 DEF KnownShares
    <3> QED BY <1>1, <2>2, <2>3, <3>1 DEF KnownShares
  <2>7. LET r == Reconcile(Post(split, at, <<>>))
        IN Sound(r) /\ r.lastAt <= at /\ r.applied = split.applied
    BY <2>3, <2>4, <2>5, <2>6, SharesSound
  <2> QED BY <2>1, <2>3, <2>7 DEF m
<1> QED BY <1>5, <1>6, <1>7

(* Other prices and ages. *)
LEMMA RepricedSound ==
    ASSUME NEW l, Sound(l), NEW n, DOMAIN n = Fields,
           \A field \in Fields \ {"positions"} : n[field] = l[field],
           n.positions \in [Instruments -> Positions],
           \A i \in Instruments : /\ n.positions[i].book = l.positions[i].book
                                  /\ n.positions[i].quantity = l.positions[i].quantity
                                  /\ n.positions[i].known = l.positions[i].known
    PROVE  Sound(n) /\ n.lastAt = l.lastAt /\ n.applied = l.applied
<1>1. LedgerTyped(l) /\ Good(l) /\ l.ordered /\ BooksTyped(l) /\ BooksAgree(l) /\ KnownShares(l)
  BY DEF Sound
<1>2. /\ n.settled = l.settled /\ n.receivables = l.receivables /\ n.pending = l.pending
      /\ n.realized = l.realized /\ n.dividends = l.dividends /\ n.applied = l.applied
      /\ n.balance = l.balance /\ n.ordered = l.ordered /\ n.lastAt = l.lastAt
      /\ n.error = l.error /\ n.capital = l.capital
      /\ n.fees = l.fees /\ n.taxes = l.taxes
      /\ n.filledFees = l.filledFees /\ n.filledGain = l.filledGain
  BY DEF Fields
<1>3. LedgerTyped(n)
  BY <1>1, <1>2 DEF LedgerTyped
<1>4. /\ Payables(n) = Payables(l) /\ Receivables(n) = Receivables(l)
      /\ DividendReceivables(n) = DividendReceivables(l)
  BY <1>2 DEF Outstanding, Payables, Receivables, DividendReceivables
<1>5. BooksAgree(n) /\ BooksTyped(n) /\ KnownShares(n)
  BY <1>1, <1>2, <1>4 DEF BooksAgree, BooksTyped, KnownShares
<1> QED BY <1>1, <1>2, <1>3, <1>5 DEF Sound, Good

(* Marks keep the books. *)
LEMMA MarkSound ==
    ASSUME NEW l, Sound(l), NEW price, \A i \in Instruments \cap DOMAIN price : price[i] \in Int
    PROVE  LET m == MarkAll(l, price)
           IN Sound(m) /\ m.lastAt = l.lastAt /\ m.applied = l.applied
<1> DEFINE m == MarkAll(l, price)
<1>1. DOMAIN l = Fields /\ l.positions \in [Instruments -> Positions] /\ LedgerTyped(l)
  BY DEF LedgerTyped, Sound
<1>2. LedgerTyped(m) /\ m.positions \in [Instruments -> Positions]
      /\ \A i \in Instruments : m.positions[i].quantity = l.positions[i].quantity
  BY <1>1, MarkFacts DEF SameCash, LedgerTyped
<1>3. DOMAIN m = Fields /\ \A field \in Fields \ {"positions"} : m[field] = l[field]
  BY <1>1 DEF MarkAll, Fields
<1>4. ASSUME NEW i \in Instruments
      PROVE  m.positions[i].book = l.positions[i].book /\ m.positions[i].known = l.positions[i].known
  <2>1. l.positions[i] \in Positions
    BY <1>1
  <2>2. CASE i \in DOMAIN price /\ Good(l) /\ l.positions[i].known
    <3>1. m.positions[i] = [l.positions[i] EXCEPT !.price = price[i], !.stale = 0]
      BY <1>1, <2>2 DEF MarkAll, Mark, Fields
    <3>2. \A p \in Positions : \A x :
            /\ [p EXCEPT !.price = x, !.stale = 0].book = p.book
            /\ [p EXCEPT !.price = x, !.stale = 0].known = p.known
      BY DEF Positions
    <3> HIDE DEF m
    <3> QED BY <2>1, <3>1, <3>2
  <2>3. CASE ~(i \in DOMAIN price /\ Good(l) /\ l.positions[i].known)
    <3>1. m.positions[i] = l.positions[i]
      BY <1>1, <2>3 DEF MarkAll, Mark, Fields
    <3> QED BY <3>1
  <2> QED BY <2>2, <2>3
<1> HIDE DEF m
<1> QED BY <1>2, <1>3, <1>4, RepricedSound DEF m

(* Ageing keeps the books. *)
LEMMA AgeSound ==
    ASSUME NEW l, Sound(l), NEW marked
    PROVE  LET m == AgeUnmarked(l, marked)
           IN Sound(m) /\ m.lastAt = l.lastAt /\ m.applied = l.applied
<1> DEFINE m == AgeUnmarked(l, marked)
<1>1. DOMAIN l = Fields /\ l.positions \in [Instruments -> Positions] /\ LedgerTyped(l) /\ Good(l)
  BY DEF LedgerTyped, Sound
<1>2. LedgerTyped(m) /\ m.positions \in [Instruments -> Positions]
      /\ \A i \in Instruments : m.positions[i].quantity = l.positions[i].quantity
  BY <1>1, AgeFacts DEF SameCash, LedgerTyped
<1>3. DOMAIN m = Fields /\ \A field \in Fields \ {"positions"} : m[field] = l[field]
  BY <1>1 DEF AgeUnmarked, Fields
<1>4. ASSUME NEW i \in Instruments
      PROVE  m.positions[i].book = l.positions[i].book /\ m.positions[i].known = l.positions[i].known
  <2>1. l.positions[i] \in Positions
    BY <1>1
  <2>2. m.positions[i] \in {l.positions[i], [l.positions[i] EXCEPT !.stale = @ + 1]}
    BY <1>1 DEF AgeUnmarked, Fields
  <2> QED BY <2>1, <2>2 DEF Positions
<1> HIDE DEF m
<1> QED BY <1>2, <1>3, <1>4, RepricedSound DEF m

(* The books of a new ledger. *)
LEMMA OpenLedgerSound ==
    ASSUME NEW cash \in Int, NEW at \in Int
    PROVE  LET l == OpenLedger(cash, at)
           IN Sound(l) /\ l.lastAt = at /\ l.applied = {}
<1> DEFINE n == [settled |-> cash, capital |-> cash, pending |-> <<>>, receivables |-> {},
                 positions |-> [i \in Instruments |-> NoPosition], applied |-> {},
                 realized |-> 0, fees |-> 0, taxes |-> 0, dividends |-> 0,
                 filledFees |-> 0, filledGain |-> 0,
                 balance |-> [a \in Accounts \cup Instruments |-> 0],
                 ordered |-> TRUE, lastAt |-> at, error |-> "none"]
           postings == [cash |-> cash, contributed_capital |-> -cash]
           l == OpenLedger(cash, at)
<1>1. l = Post(n, at, postings)
  BY DEF OpenLedger
<1>2. /\ DOMAIN n = Fields /\ n.settled = cash /\ n.pending = <<>> /\ n.receivables = {}
      /\ n.positions = [i \in Instruments |-> NoPosition] /\ n.realized = 0 /\ n.dividends = 0
      /\ n.applied = {} /\ n.fees = 0 /\ n.taxes = 0 /\ n.filledFees = 0 /\ n.filledGain = 0
      /\ n.capital = cash /\ n.balance = [a \in Accounts \cup Instruments |-> 0]
      /\ n.ordered /\ n.lastAt = at /\ n.error = "none"
  BY DEF Fields
<1>3. /\ DOMAIN postings = {"cash", "contributed_capital"}
      /\ postings["cash"] = cash /\ postings["contributed_capital"] = -cash
  OBVIOUS
<1> HIDE DEF n, postings, l
<1>4. SumFunction(postings) = 0 /\ \A a \in DOMAIN postings : postings[a] \in Int
  BY <1>3, TransferBalances
<1>5. Journaled(n, l, at, postings)
  BY <1>1, <1>2, <1>4, JournaledFacts DEF Good
<1>6. LedgerTyped(l) /\ l.pending = <<>> /\ l.receivables = {}
  BY OpenLedgerFacts DEF l
<1>7. /\ SameAccount(n, l) /\ Good(l) /\ l.ordered /\ l.lastAt = at
      /\ l.capital = cash /\ l.fees = 0 /\ l.taxes = 0
      /\ l.filledFees = 0 /\ l.filledGain = 0
      /\ l.balance \in [Accounts \cup Instruments -> Int]
      /\ \A a \in Accounts \cup Instruments : l.balance[a] = Entered(postings, a)
  <2>1. \A a \in Accounts \cup Instruments :
            l.balance[a] = 0 + Entered(postings, a) /\ Entered(postings, a) \in Int
    BY <1>2, <1>4, <1>5 DEF Journaled, Entered
  <2> QED BY <1>2, <1>5, <2>1 DEF Journaled
<1>8. Payables(l) = 0 /\ Receivables(l) = 0 /\ DividendReceivables(l) = 0
  <2>1. \A side : OpenItems(l, side) = {}
    BY <1>6 DEF OpenItems
  <2>2. Payables(l) = 0 /\ Receivables(l) = 0
    BY <2>1, OutstandingIs, SumOfNone DEF Payables, Receivables
  <2> DEFINE f == [d \in l.receivables |-> d.amount]
  <2>3. DOMAIN f = {} /\ DividendReceivables(l) = SumFunction(f)
    BY <1>6 DEF DividendReceivables
  <2> HIDE DEF f
  <2> QED BY <2>2, <2>3, SumOfNone DEF SumFunction
<1>9. /\ l.settled = cash /\ l.dividends = 0 /\ l.realized = 0 /\ l.applied = {}
      /\ \A i \in Instruments : l.positions[i] = NoPosition
  BY <1>2, <1>7 DEF SameAccount
<1>10. \A i \in Instruments : /\ l.positions[i].book = 0 /\ l.positions[i].quantity = 0
  BY <1>9 DEF NoPosition
<1>11. /\ l.balance["cash"] = cash /\ l.balance["contributed_capital"] = -cash
       /\ \A a \in {"dividend_receivable", "dividend_income", "settlement_payable",
                    "settlement_receivable", "transaction_tax_expense"} \cup Instruments :
              l.balance[a] = 0
  <2>1. Instruments \cap {"cash", "contributed_capital"} = {}
    BY LedgerAssumption DEF Accounts
  <2>2. {"cash", "contributed_capital", "dividend_receivable", "dividend_income",
         "settlement_payable", "settlement_receivable", "transaction_tax_expense"} \subseteq Accounts
    BY DEF Accounts
  <2> QED BY <1>3, <1>7, <2>1, <2>2 DEF Entered
<1>12. \A x \in Int : x <= 0 /\ x >= 0 => -x = 0
  OBVIOUS
<1>13. -Payables(l) = 0 /\ -l.dividends = 0
  <2>1. \A x : x = 0 => x \in Int /\ x <= 0 /\ x >= 0
    OBVIOUS
  <2> QED BY <1>8, <1>9, <1>12, <2>1, Zenon
<1>14. BooksAgree(l)
  BY <1>7, <1>8, <1>9, <1>10, <1>11, <1>13 DEF BooksAgree
<1>15. BooksTyped(l) /\ KnownShares(l)
  BY <1>7, <1>10 DEF BooksTyped, KnownShares
<1> QED BY <1>6, <1>7, <1>9, <1>14, <1>15 DEF Sound, l

-----------------------------------------------------------------------------
(* The run. *)
Refusals == {"buy_exceeds_cash", "short", "calendar_too_short", "reservation",
             "payable_exceeds_cash", "unbalanced", "not_chronological",
             "does_not_reconcile", "action_repeated"}

(* The reasons for which a run may fail. *)
Pardonable(reason) ==
    /\ reason \notin Refusals \ {"payable_exceeds_cash"}
    /\ reason = "payable_exceeds_cash" => ~SalesPay

FirstSession == Min(config.sessions)

(* The latest time of a transaction so far, once there is something to record. *)
Now == At(day, IF phase = "execute" THEN 2 ELSE IF phase \in {"actions", "open"} THEN 1 ELSE 0)

(* Before the first session there is nothing to settle; the account was opened on its eve. *)
Early ==
    /\ phase \in {"decide", "account"} /\ day < FirstSession
    /\ ledger.pending = <<>> /\ ledger.receivables = {}
    /\ ledger.lastAt <= At(FirstSession, 0)

OnTime == Early \/ ledger.lastAt <= Now

AppliedBefore ==
    \A a \in config.setup.actions :
        a.id \in ledger.applied => a.effective <= Bound /\ a \notin pendingActions

RestsNat == \A o \in DOMAIN book : book[o].remaining \in Nat

(* A run that has not failed. *)
Standing == Sound(ledger) /\ OnTime /\ AppliedBefore /\ RestsNat /\ failure = "none"

Executing == Pardonable(failure) /\ (phase # "failed" => Standing)

(* A raise with a reason that may occur. *)
LEMMA RaiseExecuting ==
    ASSUME NEW reason, Raise(reason), Pardonable(reason)
    PROVE  Executing'
BY DEF Raise, Executing, Pardonable, SalesPay

(* No failure at all. *)
LEMMA NoneIsPardonable == Pardonable("none") /\ Pardonable("none")'
BY DEF Pardonable, Refusals

(* Sessions and corporate actions begin with the first session. *)
LEMMA FirstFacts ==
    ASSUME EngineInvariant
    PROVE  /\ FirstSession \in config.sessions /\ FirstSession \in Nat \ {0}
           /\ \A d \in config.sessions : FirstSession <= d
           /\ \A a \in config.setup.actions : a.effective >= FirstSession /\ ValidAction(a)
           /\ \A a, b \in config.setup.actions : a.id = b.id => a = b
           /\ day \in Nat \ {0} /\ LedgerTyped(ledger)
           /\ Available(ledger) >= 0
<1>1. config \in {c \in Configs : ValidConfig(c)} /\ day \in Nat \ {0} /\ LedgerTyped(ledger)
      /\ Available(ledger) >= 0
  BY DEF EngineInvariant, EngineTyped, BuysCovered
<1>2. config.sessions \subseteq 1 .. Horizon /\ config.sessions # {} /\ Horizon \in Nat
      /\ config.setup \in Setups
  BY <1>1, ConfigFacts, EngineAssumption
<1>3. FirstSession \in config.sessions /\ \A d \in config.sessions : FirstSession <= d
  <2>1. config.sessions \subseteq Nat
    BY <1>2
  <2> QED BY <1>2, <2>1, LeastIsMin DEF FirstSession
<1>4. /\ \A a \in config.setup.actions : a.effective >= FirstSession
      /\ \A a, b \in config.setup.actions : a.id = b.id => a = b
  BY <1>1 DEF ValidConfig, FirstSession
<1> QED BY <1>1, <1>2, <1>3, <1>4, EngineAssumption

(* A run starts with sound books. *)
LEMMA ExecutingStarts == ASSUME Init PROVE Executing
<1>1. EngineInvariant
  BY EngineStarts
<1> DEFINE start == Decision(Evening(Min(config.sessions))) - 1
<1>2. /\ ledger = OpenLedger(InitialCash, start) /\ day = 1 /\ phase = "decide"
      /\ pendingActions = {} /\ book = <<>> /\ failure = "none"
  BY DEF Init, NoOrders
<1>3. /\ FirstSession \in config.sessions /\ FirstSession \in Nat \ {0}
      /\ \A d \in config.sessions : FirstSession <= d /\ d \in Nat
  BY <1>1, FirstFacts, ConfigFacts DEF EngineInvariant, EngineTyped
<1>4. Evening(FirstSession) \in Nat /\ Evening(FirstSession) <= FirstSession - 1
  <2>1. CASE config.decides = "on_eve"
    BY <1>3, <2>1 DEF Evening
  <2>2. CASE config.decides # "on_eve"
    <3>1. {0} \cup {e \in config.sessions : e < FirstSession} = {0}
      BY <1>3
    <3>2. Max({0}) = 0
      <4>1. {0} \subseteq 0 .. 0 /\ {0} # {}
        OBVIOUS
      <4> QED BY <4>1, GreatestIsMax
    <3> QED BY <1>3, <2>2, <3>1, <3>2 DEF Evening
  <2> QED BY <2>1, <2>2
<1>5. start \in Int /\ start <= At(FirstSession, 0)
  <2> DEFINE e == Evening(FirstSession)
  <2>1. start = Decision(e) - 1
    BY DEF FirstSession
  <2> HIDE DEF start, e
  <2>2. e \in Nat /\ e <= FirstSession - 1
    BY <1>4 DEF e
  <2>3. Decision(e) = 10 * e + 7 /\ At(FirstSession, 0) = 10 * FirstSession + 0
    BY Zenon DEF Decision, At
  <2> QED BY ONLY <1>3, <2>1, <2>2, <2>3
<1> HIDE DEF start
<1>6. InitialCash \in Int
  BY EngineAssumption
<1>7. /\ Sound(ledger) /\ ledger.lastAt = start /\ ledger.applied = {}
      /\ ledger.pending = <<>> /\ ledger.receivables = {}
  BY <1>2, <1>5, <1>6, OpenLedgerSound, OpenLedgerFacts
<1>8. OnTime
  <2>1. CASE day < FirstSession
    BY <1>2, <1>5, <1>7, <2>1 DEF OnTime, Early
  <2>2. CASE ~(day < FirstSession)
    <3>1. FirstSession = 1
      BY <1>2, <1>3, <2>2
    <3> QED BY <1>2, <1>5, <1>7, <3>1 DEF OnTime, Now
  <2> QED BY <2>1, <2>2
<1>9. AppliedBefore /\ RestsNat
  BY <1>2, <1>7 DEF AppliedBefore, RestsNat
<1> QED BY <1>2, <1>7, <1>8, <1>9, NoneIsPardonable DEF Executing, Standing

(* A day without a session. *)
LEMMA NoSessionExecutes == ASSUME EngineInvariant, Executing, NoSession PROVE Executing'
<1>1. /\ phase = "decide" /\ phase' = "account"
      /\ UNCHANGED <<config, day, pendingActions, ledger, book, failure>>
  BY DEF NoSession
<1>2. Standing
  BY <1>1 DEF Executing
<1>3. Bound' = Bound /\ Now' = Now /\ FirstSession' = FirstSession
  BY <1>1 DEF Bound, Now, FirstSession
<1>4. OnTime'
  <2>1. Early => Early'
    BY <1>1, <1>3 DEF Early
  <2> QED BY <1>1, <1>2, <1>3, <2>1 DEF Standing, OnTime
<1>5. AppliedBefore' /\ RestsNat'
  BY <1>1, <1>2, <1>3 DEF Standing, AppliedBefore, RestsNat
<1> QED BY <1>1, <1>2, <1>4, <1>5, NoneIsPardonable DEF Standing, Executing

(* A decision leaves the ledger and the book alone. *)
LEMMA DecideExecutes ==
    ASSUME EngineInvariant, Executing, phase = "decide", day \in config.sessions,
           NEW quotes, NEW rows, Decide(quotes, rows)
    PROVE  Executing'
<1>1. Standing
  BY DEF Executing
<1>2. Sound(ledger) /\ failure = "none"
  BY <1>1 DEF Standing
<1>3. Checked(ledger).error \in {"none", "available_cash_negative", "stale_mark"}
  BY <1>2, SoundChecked
<1>4. CASE \E reason \in {Checked(ledger).error, "coverage", "contract", "event_order", "conversion"} :
               Raise(reason)
  <2>1. \A reason \in {Checked(ledger).error, "coverage", "contract", "event_order", "conversion"} :
            Pardonable(reason)
    BY <1>3 DEF Pardonable, Refusals
  <2> QED BY <1>4, <2>1, RaiseExecuting
<1>5. CASE ~\E reason \in {Checked(ledger).error, "coverage", "contract", "event_order", "conversion"} :
               Raise(reason)
  <2>1. phase' = "account" /\ UNCHANGED <<config, day, pendingActions, ledger, book, failure>>
    BY <1>5 DEF Decide
  <2>2. Bound' = Bound /\ Now' = Now
    BY <2>1 DEF Bound, Now
  <2>3. ~Early
    BY FirstFacts DEF Early
  <2>4. OnTime'
    BY <1>1, <2>1, <2>2, <2>3 DEF Standing, OnTime
  <2>5. AppliedBefore' /\ RestsNat'
    BY <1>1, <2>1, <2>2 DEF Standing, AppliedBefore, RestsNat
  <2> QED BY <1>2, <2>1, <2>4, <2>5, NoneIsPardonable DEF Standing, Executing
<1> QED BY <1>4, <1>5

(* Nothing is settled in an account without obligations. *)
LEMMA NothingToSettle ==
    ASSUME NEW l, Sound(l), Available(l) >= 0, l.pending = <<>>, l.receivables = {},
           NEW date \in Nat, NEW at
    PROVE  ProcessSettlements(l, date, at) = l
<1> DEFINE last == CHOOSE f : Settles(f, l, 0, date, at)
<1>1. Len(l.pending) = 0
  OBVIOUS
<1>2. Settles(last, l, 0, date, at)
  BY SettlesExist
<1>3. SettleTrades(l, date, at) = last[0]
  <2>1. SettleTrades(l, date, at) = (CHOOSE f : Settles(f, l, Len(l.pending), date, at))[Len(l.pending)]
    BY DEF SettleTrades, Settles
  <2> QED BY <1>1, <2>1
<1> HIDE DEF last
<1>4. last[0] = l
  <2>1. \A k \in 0 .. 0 : last[k] = IF k = 0 THEN l ELSE SettleOne(last[k - 1], k, date, at)
    BY <1>2, Zenon DEF Settles
  <2> QED BY <2>1
<1>5. PayDividends(l, date, at) = l
  BY DEF PayDividends
<1>6. Reconcile(l) = l
  BY SoundReconciles
<1> QED BY <1>3, <1>4, <1>5, <1>6 DEF ProcessSettlements

(* When the day has been accounted for, what was applied and recorded is of that day. *)
LEMMA GoOnExecutes ==
    ASSUME EngineInvariant, NEW rest, GoOn(rest),
           UNCHANGED <<config, session, book, failure>>, failure = "none", RestsNat,
           Sound(ledger'), ledger'.lastAt <= Accounting(day),
           \A a \in config.setup.actions :
              a.id \in ledger'.applied => a.effective <= day /\ a \notin rest
    PROVE  Executing'
<1>1. /\ Bound' = day /\ day' \in {day, day + 1} /\ pendingActions' = rest
      /\ phase' \in {"actions", "decide", "open"}
      /\ phase' = "decide" <=> day' = day + 1
  BY GoOnFacts DEF EngineInvariant
<1>2. day \in Nat /\ ledger'.lastAt \in Int
  BY FirstFacts DEF Sound, BooksTyped
<1>3. Accounting(day) <= Now'
  BY <1>1, <1>2 DEF Accounting, Now, At
<1>4. Accounting(day) \in Int /\ Now' \in Int
  BY <1>1, <1>2 DEF Accounting, Now, At
<1>5. OnTime'
  BY <1>2, <1>3, <1>4 DEF OnTime
<1>6. AppliedBefore' /\ RestsNat'
  BY <1>1 DEF AppliedBefore, RestsNat
<1> QED BY <1>5, <1>6, NoneIsPardonable DEF Standing, Executing

(* The settlements of a day. *)
LEMMA AccountExecutes == ASSUME EngineInvariant, Executing, Account PROVE Executing'
<1> DEFINE at == Accounting(day)
           m == ProcessSettlements(ledger, day, at)
           today == {a \in config.setup.actions : a.effective = day}
<1>1. Standing /\ phase = "account"
  BY DEF Account, Executing
<1>2. Sound(ledger) /\ failure = "none" /\ RestsNat /\ OnTime /\ AppliedBefore
  BY <1>1 DEF Standing
<1>3. /\ day \in Nat \ {0} /\ Available(ledger) >= 0 /\ LedgerTyped(ledger)
      /\ FirstSession \in Nat \ {0} /\ ledger.lastAt \in Int
      /\ \A a \in config.setup.actions : a.effective >= FirstSession /\ ValidAction(a)
  BY <1>2, FirstFacts DEF Sound, BooksTyped
<1>4. at \in Int /\ at = 10 * day + 1
  BY <1>3 DEF Accounting, At
<1>5. CASE Early
  <2>1. m = ledger /\ Good(m)
    BY <1>2, <1>3, <1>5, NothingToSettle DEF Early, Sound
  <2>2. today = {} /\ session = <<>>
    <3>1. today = {}
      BY <1>3, <1>5 DEF Early
    <3>2. day \notin config.sessions
      BY <1>3, <1>5, FirstFacts DEF Early
    <3> QED BY <3>1, <3>2 DEF EngineInvariant, EngineTyped, SessionTyped
  <2> HIDE DEF m, today
  <2>3. CASE Raise("event_order")
    BY <2>3, RaiseExecuting DEF Pardonable, Refusals
  <2>4. CASE ~Raise("event_order")
    <3>1. /\ ledger' = ledger /\ GoOn(today)
          /\ UNCHANGED <<config, session, book, failure>>
      BY <2>1, <2>4 DEF Account, m, today
    <3>2. phase' = "decide" /\ day' = day + 1 /\ pendingActions' = {}
      BY <2>2, <3>1 DEF GoOn
    <3>3. Bound' = day /\ FirstSession' = FirstSession
      BY <1>3, <3>1, <3>2 DEF Bound, FirstSession
    <3>4. OnTime'
      <4>1. CASE day + 1 < FirstSession
        BY <1>3, <1>5, <3>1, <3>2, <3>3, <4>1 DEF Early, OnTime
      <4>2. CASE ~(day + 1 < FirstSession)
        <5>1. day + 1 = FirstSession
          BY <1>3, <1>5, <4>2 DEF Early
        <5>2. Now' = At(FirstSession, 0)
          BY <3>2, <5>1 DEF Now
        <5> QED BY <1>5, <3>1, <5>2 DEF Early, OnTime
      <4> QED BY <4>1, <4>2
    <3>5. AppliedBefore'
      <4>1. \A a \in config.setup.actions : a.id \in ledger.applied => a.effective <= day - 1
        BY <1>1, <1>2 DEF AppliedBefore, Bound
      <4>2. \A a \in config.setup.actions : a.effective \in Int
        BY <1>3 DEF ValidAction
      <4> QED BY <1>3, <3>1, <3>2, <3>3, <4>1, <4>2 DEF AppliedBefore
    <3> QED BY <1>2, <3>1, <3>4, <3>5, NoneIsPardonable DEF Standing, Executing, RestsNat
  <2> QED BY <2>3, <2>4
<1>6. CASE ~Early
  <2>1. ledger.lastAt <= at
    <3>1. ledger.lastAt <= 10 * day + 0
      BY <1>1, <1>2, <1>6 DEF OnTime, Now, At
    <3> QED BY <1>3, <1>4, <3>1
  <2> HIDE DEF at
  <2>2. \/ Sound(m) /\ m.lastAt <= at
        \/ m.error = "available_cash_negative"
        \/ m.error = "payable_exceeds_cash" /\ ~(SalesPayIn(ledger) /\ Available(ledger) >= 0)
    BY <1>2, <1>3, <1>4, <2>1, SettlementsSound
  <2>3. ~Good(m) => Pardonable(m.error)
    <3>1. Sound(m) => Good(m)
      BY DEF Sound
    <3>2. CASE m.error = "available_cash_negative"
      BY <3>2 DEF Pardonable, Refusals
    <3>3. CASE m.error = "payable_exceeds_cash" /\ ~(SalesPayIn(ledger) /\ Available(ledger) >= 0)
      <4>1. ~SalesPay
        BY <1>3, <3>3 DEF SalesPay, SalesPayIn
      <4> QED BY <3>3, <4>1 DEF Pardonable, Refusals
    <3> QED BY <2>2, <3>1, <3>2, <3>3
  <2>4. CASE Raise("event_order")
    BY <2>4, RaiseExecuting DEF Pardonable, Refusals
  <2>5. CASE ~Good(m)
    <3>1. Raise(m.error)
      BY <2>5 DEF Account, at
    <3> QED BY <2>3, <2>5, <3>1, RaiseExecuting
  <2>6. CASE Good(m) /\ ~Raise("event_order")
    <3>1. /\ ledger' = m /\ GoOn(today) /\ UNCHANGED <<config, session, book, failure>>
      BY <2>6 DEF Account, at
    <3>2. Sound(m) /\ m.lastAt <= at
      BY <2>2, <2>6 DEF Good
    <3>3. m.applied = ledger.applied
      BY <1>3, <2>6, SettlementFacts DEF SettledFrom
    <3> HIDE DEF m
    <3>4. \A a \in config.setup.actions :
              a.id \in m.applied => a.effective <= day /\ a \notin today
      <4>1. \A a \in config.setup.actions : a.id \in ledger.applied => a.effective <= day - 1
        BY <1>1, <1>2 DEF AppliedBefore, Bound
      <4>2. \A a \in config.setup.actions : a.effective \in Int
        BY <1>3 DEF ValidAction
      <4> QED BY <1>3, <3>3, <4>1, <4>2
    <3> HIDE DEF today
    <3> QED BY <1>2, <3>1, <3>2, <3>4, GoOnExecutes DEF at
  <2> QED BY <2>4, <2>5, <2>6
<1> QED BY <1>5, <1>6

(* A corporate action of the day. *)
LEMMA ActExecutes == ASSUME EngineInvariant, Executing, Act PROVE Executing'
<1> DEFINE at == Accounting(day)
<1>1. phase = "actions" /\ Standing
  BY DEF Act, Executing
<1>2. Sound(ledger) /\ failure = "none" /\ RestsNat /\ OnTime /\ AppliedBefore
  BY <1>1 DEF Standing
<1>3. /\ day \in Nat \ {0} /\ Available(ledger) >= 0 /\ LedgerTyped(ledger)
      /\ ledger.lastAt \in Int
      /\ \A a \in config.setup.actions : ValidAction(a)
      /\ \A a, b \in config.setup.actions : a.id = b.id => a = b
  BY <1>2, FirstFacts DEF Sound, BooksTyped
<1>4. at \in Int /\ ledger.lastAt <= at
  <2>1. at = At(day, 1) /\ Now = At(day, 1) /\ ~Early
    BY <1>1 DEF Accounting, Now, Early
  <2>2. at \in Int
    BY <1>3, <2>1 DEF At
  <2> QED BY <1>2, <2>1, <2>2 DEF OnTime
<1>5. PICK a \in pendingActions :
          IF ~Good(ApplyAction(ledger, a, at)) THEN Raise(ApplyAction(ledger, a, at).error)
          ELSE /\ ledger' = ApplyAction(ledger, a, at) /\ GoOn(pendingActions \ {a})
               /\ UNCHANGED <<config, session, book, failure>>
  BY DEF Act
<1>6. a \in config.setup.actions /\ a.effective = day /\ ValidAction(a)
  BY <1>1, <1>3, <1>5 DEF EngineInvariant, EngineTyped
<1>7. a.id \notin ledger.applied
  BY <1>2, <1>5, <1>6 DEF AppliedBefore
<1> HIDE DEF at
<1> DEFINE m == ApplyAction(ledger, a, at)
<1>8. \/ Sound(m) /\ m.lastAt <= at /\ m.applied = ledger.applied \cup {a.id}
      \/ m.error = "fractional_shares"
  <2>1. CASE a.kind = "dividend"
    <3>1. m = AccrueDividend(ledger, a, at)
      BY <2>1 DEF ApplyAction
    <3> QED BY <1>2, <1>3, <1>4, <1>6, <1>7, <3>1, AccrueSound
  <2>2. CASE a.kind # "dividend"
    <3>1. m = ApplySplit(ledger, a, at)
      BY <2>2 DEF ApplyAction
    <3> QED BY <1>2, <1>3, <1>4, <1>6, <1>7, <3>1, SplitSound
  <2> QED BY <2>1, <2>2
<1> HIDE DEF m
<1>9. CASE ~Good(m)
  <2>1. Raise(m.error)
    BY <1>5, <1>9 DEF m
  <2>2. m.error = "fractional_shares"
    BY <1>8, <1>9 DEF Sound
  <2> QED BY <2>1, <2>2, RaiseExecuting DEF Pardonable, Refusals
<1>10. CASE Good(m)
  <2>1. /\ ledger' = m /\ GoOn(pendingActions \ {a}) /\ UNCHANGED <<config, session, book, failure>>
    BY <1>5, <1>10 DEF m
  <2>2. Sound(m) /\ m.lastAt <= at /\ m.applied = ledger.applied \cup {a.id}
    BY <1>8, <1>10 DEF Good
  <2>3. \A b \in config.setup.actions :
            b.id \in m.applied => b.effective <= day /\ b \notin pendingActions \ {a}
    <3>1. Bound = day
      BY <1>1 DEF Bound
    <3> SUFFICES ASSUME NEW b \in config.setup.actions, b.id \in m.applied
                 PROVE  b.effective <= day /\ b \notin pendingActions \ {a}
      OBVIOUS
    <3>2. CASE b.id \in ledger.applied
      BY <1>2, <3>1, <3>2 DEF AppliedBefore
    <3>3. CASE b.id \notin ledger.applied
      <4>1. b = a
        BY <1>3, <1>6, <2>2, <3>3
      <4> QED BY <1>3, <1>6, <4>1
    <3> QED BY <3>2, <3>3
  <2> QED BY <1>2, <2>1, <2>2, <2>3, GoOnExecutes DEF at
<1> QED BY <1>9, <1>10

(* The marks at the open. *)
LEMMA OpenExecutes == ASSUME EngineInvariant, Executing, Open PROVE Executing'
<1> DEFINE price == [i \in DOMAIN session.quotes |-> session.quotes[i].open]
           n == MarkAll(ledger, price)
<1>1. phase = "open" /\ Standing
  BY DEF Open, Executing
<1>2. Sound(ledger) /\ failure = "none" /\ RestsNat /\ OnTime /\ AppliedBefore
  BY <1>1 DEF Standing
<1>3. session # <<>> /\ day \in Nat /\ ledger.lastAt \in Int
  BY <1>1, <1>2, FirstFacts DEF EngineInvariant, IntentsOfToday, Sound, BooksTyped
<1>4. \A i \in Instruments \cap DOMAIN price : price[i] \in Int
  BY <1>3, PricesFacts DEF EngineInvariant
<1>5. /\ \/ ~Good(Checked(n)) /\ Raise(Checked(n).error)
         \/ /\ Good(Checked(n)) /\ ledger' = Checked(n) /\ phase' = "execute"
            /\ UNCHANGED <<config, day, session, pendingActions, book, failure>>
  BY DEF Open
<1> HIDE DEF price
<1>6. Sound(n) /\ n.lastAt = ledger.lastAt /\ n.applied = ledger.applied
  BY <1>2, <1>4, MarkSound
<1> HIDE DEF n
<1>7. /\ Checked(n).error \in {"none", "available_cash_negative", "stale_mark"}
      /\ Good(Checked(n)) => Checked(n) = n
  BY <1>6, SoundChecked
<1>8. CASE ~Good(Checked(n)) /\ Raise(Checked(n).error)
  BY <1>7, <1>8, RaiseExecuting DEF Pardonable, Refusals
<1>9. CASE /\ Good(Checked(n)) /\ ledger' = Checked(n) /\ phase' = "execute"
           /\ UNCHANGED <<config, day, session, pendingActions, book, failure>>
  <2>1. ledger' = n
    BY <1>7, <1>9
  <2>2. OnTime'
    <3>1. Now = At(day, 1) /\ Now' = At(day, 2) /\ ~Early
      BY <1>1, <1>9 DEF Now, Early
    <3>2. ledger'.lastAt <= At(day, 2)
      <4>1. ledger.lastAt <= At(day, 1)
        BY <1>2, <3>1 DEF OnTime
      <4> QED BY <1>3, <1>6, <2>1, <4>1 DEF At
    <3> QED BY <3>1, <3>2 DEF OnTime
  <2>3. Bound' = Bound
    BY <1>1, <1>9 DEF Bound
  <2>4. AppliedBefore' /\ RestsNat'
    BY <1>2, <1>6, <1>9, <2>1, <2>3 DEF AppliedBefore, RestsNat
  <2> QED BY <1>2, <1>6, <1>9, <2>1, <2>2, <2>4, NoneIsPardonable DEF Standing, Executing
<1> QED BY <1>5, <1>8, <1>9

(* The marks at the close. *)
LEMMA CloseSessionExecutes == ASSUME EngineInvariant, Executing, CloseSession PROVE Executing'
<1> DEFINE price == [i \in DOMAIN session.quotes |-> session.quotes[i].close]
           aged == AgeUnmarked(ledger, DOMAIN price)
           n == MarkAll(aged, price)
<1>1. phase = "execute" /\ Standing
  BY DEF CloseSession, Executing
<1>2. Sound(ledger) /\ failure = "none" /\ RestsNat /\ OnTime /\ AppliedBefore
  BY <1>1 DEF Standing
<1>3. session # <<>> /\ day \in Nat /\ ledger.lastAt \in Int
  BY <1>1, <1>2, FirstFacts DEF EngineInvariant, IntentsOfToday, Sound, BooksTyped
<1>4. \A i \in Instruments \cap DOMAIN price : price[i] \in Int
  BY <1>3, PricesFacts DEF EngineInvariant
<1>5. /\ \/ ~Good(Checked(n)) /\ Raise(Checked(n).error)
         \/ /\ Good(Checked(n)) /\ ledger' = Checked(n) /\ phase' = "decide" /\ day' = day + 1
            /\ UNCHANGED <<config, pendingActions, book, failure>>
  BY DEF CloseSession
<1> HIDE DEF price
<1>6. Sound(aged) /\ aged.lastAt = ledger.lastAt /\ aged.applied = ledger.applied
  BY <1>2, AgeSound
<1> HIDE DEF aged
<1>7. Sound(n) /\ n.lastAt = ledger.lastAt /\ n.applied = ledger.applied
  BY <1>4, <1>6, MarkSound
<1> HIDE DEF n
<1>8. /\ Checked(n).error \in {"none", "available_cash_negative", "stale_mark"}
      /\ Good(Checked(n)) => Checked(n) = n
  BY <1>7, SoundChecked
<1>9. CASE ~Good(Checked(n)) /\ Raise(Checked(n).error)
  BY <1>8, <1>9, RaiseExecuting DEF Pardonable, Refusals
<1>10. CASE /\ Good(Checked(n)) /\ ledger' = Checked(n) /\ phase' = "decide" /\ day' = day + 1
            /\ UNCHANGED <<config, pendingActions, book, failure>>
  <2>1. ledger' = n
    BY <1>8, <1>10
  <2>2. OnTime'
    <3>1. Now = At(day, 2) /\ Now' = At(day + 1, 0) /\ ~Early
      BY <1>1, <1>10 DEF Now, Early
    <3>2. ledger'.lastAt <= At(day + 1, 0)
      <4>1. ledger.lastAt <= At(day, 2)
        BY <1>2, <3>1 DEF OnTime
      <4> QED BY <1>3, <1>7, <2>1, <4>1 DEF At
    <3> QED BY <3>1, <3>2 DEF OnTime
  <2>3. Bound' = Bound
    BY <1>1, <1>3, <1>10 DEF Bound
  <2>4. AppliedBefore' /\ RestsNat'
    BY <1>2, <1>7, <1>10, <2>1, <2>3 DEF AppliedBefore, RestsNat
  <2> QED BY <1>2, <1>7, <1>10, <2>1, <2>2, <2>4, NoneIsPardonable DEF Standing, Executing
<1> QED BY <1>5, <1>9, <1>10

(* The end of the run. *)
LEMMA CompleteExecutes == ASSUME EngineInvariant, Executing, Complete PROVE Executing'
<1>1. phase = "decide" /\ day > FinalDue /\ Standing
  BY DEF Complete, Executing
<1>2. Sound(ledger) /\ failure = "none" /\ RestsNat /\ OnTime /\ AppliedBefore
  BY <1>1 DEF Standing
<1>3. Checked(ledger).error \in {"none", "available_cash_negative", "stale_mark"}
  BY <1>2, SoundChecked
<1>4. CASE Raise(Checked(ledger).error)
  BY <1>3, <1>4, RaiseExecuting DEF Pardonable, Refusals
<1>5. CASE ~Raise(Checked(ledger).error)
  <2>1. phase' = "done" /\ UNCHANGED <<config, day, pendingActions, ledger, book, failure>>
    BY <1>5 DEF Complete
  <2>2. ~Early
    <3>1. FirstSession <= LastSession /\ FirstSession \in Nat /\ LastSession \in Nat
          /\ FinalDue = LastSession + SettlementLag /\ SettlementLag \in Nat /\ day \in Nat
      BY FirstFacts, ConfigFacts, PolicyAssumption DEF EngineInvariant, EngineTyped
    <3> QED BY <1>1, <3>1 DEF Early
  <2>3. Bound' = Bound /\ Now' = Now
    BY <1>1, <2>1 DEF Bound, Now
  <2>4. OnTime'
    BY <1>2, <2>1, <2>2, <2>3 DEF OnTime
  <2>5. AppliedBefore' /\ RestsNat'
    BY <1>2, <2>1, <2>3 DEF AppliedBefore, RestsNat
  <2> QED BY <1>2, <2>1, <2>4, <2>5, NoneIsPardonable DEF Standing, Executing
<1> QED BY <1>4, <1>5

(* What an approved sale takes is held: other sales reserve no negative number of shares. *)
LEMMA SaleHeld ==
    ASSUME NEW intent, NEW price, NEW l, NEW nav, NEW b, IsFiniteSet(DOMAIN b),
           \A o \in DOMAIN b : b[o].remaining \in Nat,
           intent.side = "sell", intent.quantity \in Nat,
           l.positions[intent.instrument].quantity \in Nat,
           Reasons(intent, price, l, nav, b) = {}
    PROVE  intent.quantity <= l.positions[intent.instrument].quantity
<1> DEFINE i == intent.instrument
           f == [o \in DOMAIN b |-> b[o].remaining]
           sales == {o \in Active(b) : b[o].instrument = i /\ b[o].side = "sell"}
<1>1. ~(intent.quantity > l.positions[i].quantity - ReservedSales(b, i))
  BY DEF Reasons
<1>2. ReservedSales(b, i) = SumFunctionOnSet(f, sales)
  BY DEF ReservedSales
<1>3. sales \subseteq DOMAIN b
  BY DEF Active
<1>4. IsFiniteSet(sales) /\ \A o \in sales : f[o] \in Nat
  <2>1. \A o \in sales : f[o] \in Nat
    BY <1>3
  <2> HIDE DEF sales
  <2> QED BY <1>3, <2>1, FS_Subset
<1> HIDE DEF f, sales
<1>5. ReservedSales(b, i) \in Nat
  BY <1>2, <1>4, SumNat
<1> QED BY <1>1, <1>5

(* The order of an intent that is executed has been reserved before it is filled. *)
LEMMA ExecuteExecutes == ASSUME EngineInvariant, Executing, Execute PROVE Executing'
<1>1. phase = "execute" /\ Standing
  BY DEF Execute, Executing
<1>2. Sound(ledger) /\ failure = "none" /\ RestsNat /\ OnTime /\ AppliedBefore
  BY <1>1 DEF Standing
<1>3. /\ LedgerTyped(ledger) /\ BookOK(book) /\ session # <<>> /\ day \in Nat
      /\ Available(ledger) >= 0 /\ ledger.lastAt \in Int /\ day \in config.sessions
      /\ config \in {c \in Configs : ValidConfig(c)}
  BY <1>1, <1>2 DEF EngineInvariant, EngineTyped, SessionTyped, IntentsOfToday, BuysCovered,
     Sound, BooksTyped
<1>4. Now = At(day, 2) /\ ledger.lastAt <= At(day, 2)
  BY <1>1, <1>2 DEF Now, OnTime, Early
<1>5. PICK intent \in intents :
        LET quote == session.quotes[intent.instrument]
            price == EstimatedPrice(intent.side, quote.open)
            reserved == Reserve(book, intent, price)
            quantity == FilledQuantity(intent.quantity, quote)
        IN \/ Raise("execution_price")
           \/ Rejected(intent)
           \/ quantity = 0 /\ Unfilled(intent, reserved)
           \/ /\ Reasons(intent, price, ledger, openNav, book) = {}
              /\ quantity # 0 /\ Filled(intent, reserved, price, quantity)
  BY DEF Execute
<1>6. IntentTyped(intent, day) /\ intent.id \notin DOMAIN book
      /\ intent.instrument \in DOMAIN session.quotes
  BY DEF EngineInvariant, IntentsOfToday
<1>7. intent.instrument \in Instruments /\ intent.side \in Sides /\ intent.quantity \in Nat \ {0}
      /\ intent.id[1] = day /\ intent.id \in OrderIds
  BY <1>3, <1>6 DEF IntentTyped, OrderIds
<1> DEFINE quote == session.quotes[intent.instrument]
           price == EstimatedPrice(intent.side, quote.open)
           reserved == Reserve(book, intent, price)
           quantity == FilledQuantity(intent.quantity, quote)
           new == EnteredOrder(intent, price)
<1>8. ValidQuote(quote) /\ quote.open \in Nat
  BY <1>3, <1>6, PricesFacts DEF EngineInvariant
<1>9. price \in Nat /\ quantity \in Nat /\ quantity <= intent.quantity
  BY <1>7, <1>8, EstimatedPriceFacts, FilledQuantityFacts
<1>10. /\ reserved[intent.id] = new /\ intent.id \in DOMAIN reserved
       /\ \A e : [reserved EXCEPT ![intent.id] = e]
                   = [o \in DOMAIN book \cup {intent.id} |-> IF o = intent.id THEN e ELSE book[o]]
  <2> HIDE DEF price, quote, quantity
  <2>1. reserved = [o \in DOMAIN book \cup {intent.id} |-> IF o = intent.id THEN new ELSE book[o]]
    BY <1>6 DEF Reserve, EnteredOrder
  <2> HIDE DEF reserved, new
  <2> QED BY <2>1
<1>11. /\ new.side = intent.side /\ new.instrument = intent.instrument
       /\ new.remaining = intent.quantity /\ new.status = "active"
  BY DEF EnteredOrder
<1>12. ASSUME NEW e, e.remaining \in Nat, book' = [reserved EXCEPT ![intent.id] = e] PROVE RestsNat'
  <2> HIDE DEF reserved
  <2>1. book' = [o \in DOMAIN book \cup {intent.id} |-> IF o = intent.id THEN e ELSE book[o]]
    BY <1>10, <1>12
  <2> QED BY <1>2, <1>12, <2>1 DEF RestsNat
<1>13. ASSUME UNCHANGED <<config, day, phase, pendingActions, failure>>, RestsNat', Sound(ledger'),
              ledger'.applied = ledger.applied, ledger'.lastAt <= At(day, 2)
       PROVE  Executing'
  <2>1. Now' = Now /\ Bound' = Bound
    BY <1>13 DEF Now, Bound
  <2>2. OnTime' /\ AppliedBefore'
    BY <1>2, <1>4, <1>13, <2>1 DEF OnTime, AppliedBefore
  <2> QED BY <1>2, <1>13, <2>2, NoneIsPardonable DEF Standing, Executing
<1> HIDE DEF quote, price, reserved, quantity, new
<1>14. CASE Raise("execution_price")
  BY <1>14, RaiseExecuting DEF Pardonable, Refusals
<1>15. CASE Rejected(intent)
  <2>1. UNCHANGED <<config, day, phase, pendingActions, failure, ledger, book>>
    BY <1>15 DEF Rejected
  <2> QED BY <1>2, <1>4, <1>13, <2>1 DEF RestsNat
<1>16. CASE Unfilled(intent, reserved)
  <2> DEFINE e == Release(new, "expired")
  <2>1. book' = [reserved EXCEPT ![intent.id] = e]
        /\ UNCHANGED <<config, day, phase, pendingActions, failure, ledger>>
    BY <1>10, <1>16 DEF Unfilled
  <2>2. e.remaining = new.remaining
    BY DEF Release, EnteredOrder, new
  <2> HIDE DEF e
  <2>3. RestsNat'
    BY <1>7, <1>11, <1>12, <2>1, <2>2
  <2> QED BY <1>2, <1>4, <1>13, <2>1, <2>3
<1>17. CASE /\ Reasons(intent, price, ledger, openNav, book) = {}
            /\ quantity # 0 /\ Filled(intent, reserved, price, quantity)
  <2> DEFINE gross == price * quantity
             fill == [id |-> intent.id, instrument |-> intent.instrument, side |-> intent.side,
                      quantity |-> quantity, price |-> price,
                      fee |-> IncrementalFee(0, gross, 0), tax |-> Tax(intent.side, gross),
                      at |-> Execution(day)]
             applied == ApplyFill(ledger, fill, day, Horizon)
             updated == FillReservation(new, fill)
             released == Release(updated, "cancelled")
             required == price * intent.quantity + Costs("buy", price * intent.quantity)
  <2>1. /\ gross \in Nat /\ Fee(gross) \in Nat /\ Tax(intent.side, gross) \in Nat
        /\ intent.side = "buy" => Tax(intent.side, gross) = 0
    <3>1. gross \in Nat
      BY <1>9
    <3> HIDE DEF gross
    <3> QED BY <3>1, FeeFacts, TaxFacts DEF Tax
  <2>2. IncrementalFee(0, gross, 0) = Fee(gross)
    <3>1. \A g, f \in Nat : 0 + g = g /\ f - 0 = f
      OBVIOUS
    <3> HIDE DEF gross, fill, applied, updated
    <3>2. 0 + gross = gross /\ Fee(gross) - 0 = Fee(gross)
      BY <2>1, <3>1
    <3> QED BY <3>2 DEF IncrementalFee
  <2>3. /\ fill.side = intent.side /\ fill.quantity = quantity /\ fill.price = price
        /\ fill.fee = Fee(gross) /\ fill.tax = Tax(intent.side, gross) /\ fill.at = Execution(day)
        /\ fill.id = intent.id /\ fill.instrument = intent.instrument
    BY <2>2
  <2>4. \/ ~FillAccepted(reserved, intent.id, fill) /\ Raise("reservation")
        \/ ~Good(applied) /\ Raise(applied.error)
        \/ /\ ledger' = applied
           /\ \E e \in {updated, released} : book' = [reserved EXCEPT ![intent.id] = e]
           /\ UNCHANGED <<config, day, phase, pendingActions, failure>>
    BY <1>10, <1>17 DEF Filled
  <2>5. \A e \in {updated, released} : e.remaining = intent.quantity - quantity
    <3>1. "remaining" \in DOMAIN new /\ DOMAIN new = DOMAIN EnteredOrder(intent, price)
      BY DEF EnteredOrder, new
    <3>2. fill.quantity = quantity
      BY <2>3
    <3> HIDE DEF fill
    <3>3. updated.remaining = new.remaining - fill.quantity /\ "remaining" \in DOMAIN updated
      BY <3>1 DEF FillReservation
    <3> HIDE DEF updated
    <3>4. released.remaining = updated.remaining
      BY <3>3 DEF Release
    <3> QED BY <1>11, <3>2, <3>3, <3>4
  <2> HIDE DEF fill
  <2>6. FillTyped(fill)
    BY <1>7, <1>9, <1>17, <2>1, <2>3 DEF FillTyped
  <2>7. updated.cash \in Nat /\ (intent.side = "buy" => updated.cash + Spent(fill) <= required)
    BY <1>6, <1>7, <1>9, <1>17, <2>3, UpdatedFacts DEF new
  <2> HIDE DEF applied, updated, released
  <2>8. FillAccepted(reserved, intent.id, fill)
    BY <1>9, <1>10, <1>11, <2>3 DEF FillAccepted, Active
  <2>9. Spent(fill) \in Nat /\ Available(ledger) \in Int /\ required \in Nat
    <3>1. Spent(fill) \in Nat
      BY <2>6 DEF FillTyped, Spent
    <3>2. price * intent.quantity \in Nat
      BY <1>7, <1>9
    <3>3. Costs("buy", price * intent.quantity) \in Nat
      BY <3>2, FeeFacts, TaxFacts DEF Costs
    <3> QED BY <1>3, <3>1, <3>2, <3>3, LedgerNumbers
  <2>10. Spent(fill) <= Available(ledger)
    <3>1. CASE intent.side = "buy"
      <4>1. required <= Available(ledger) - ReservedCash(book)
        BY <1>3, <1>6, <1>7, <1>9, <1>17, <3>1, ApprovedFacts
      <4>2. ReservedCash(book) \in Nat
        BY <1>3, BuyCashFacts
      <4> HIDE DEF required
      <4> QED BY <2>7, <2>9, <3>1, <4>1, <4>2
    <3>2. CASE intent.side # "buy"
      BY <1>3, <2>3, <3>2 DEF Spent
    <3> QED BY <3>1, <3>2
  <2>11. fill.side = "sell" => fill.quantity <= ledger.positions[fill.instrument].quantity
    <3> SUFFICES ASSUME intent.side = "sell"
                 PROVE  quantity <= ledger.positions[intent.instrument].quantity
      BY <2>3
    <3>1. ledger.positions[intent.instrument].quantity \in Nat
      BY <1>3, <1>7 DEF LedgerTyped, Positions
    <3>2. intent.quantity <= ledger.positions[intent.instrument].quantity
      BY <1>2, <1>3, <1>7, <1>17, <3>1, SaleHeld DEF BookOK, RestsNat
    <3> QED BY <1>7, <1>9, <3>1, <3>2
  <2>12. DueDate(day, Horizon) # 0 /\ Horizon \in Nat /\ SettlementLag \in Nat
    <3>1. DueDate(day, Horizon) = day + SettlementLag /\ day \in 1 .. Horizon
      BY <1>3, ConfigFacts
    <3> QED BY <3>1, EngineAssumption, PolicyAssumption
  <2>13. fill.at = At(day, 2) /\ fill.at \in Int
    BY <1>3, <2>3 DEF Execution, At
  <2>14. Sound(applied) /\ applied.lastAt = fill.at
    BY <1>2, <1>3, <1>4, <2>6, <2>10, <2>11, <2>12, <2>13, FillBooked DEF applied
  <2>15. Good(applied)
    BY <2>14 DEF Sound
  <2>16. applied.applied = ledger.applied
    BY <1>3, <2>6, <2>12, <2>15, FillFacts DEF applied
  <2>17. PICK e \in {updated, released} : book' = [reserved EXCEPT ![intent.id] = e]
    BY <2>4, <2>8, <2>15
  <2>18. e.remaining \in Nat
    BY <1>7, <1>9, <2>5
  <2>19. RestsNat'
    BY <1>12, <2>17, <2>18
  <2>20. ledger'.lastAt <= At(day, 2)
    BY <1>3, <2>4, <2>8, <2>13, <2>14, <2>15
  <2> QED BY <1>13, <2>4, <2>8, <2>14, <2>15, <2>16, <2>19, <2>20
<1> QED BY <1>5, <1>14, <1>15, <1>16, <1>17 DEF quote, price, reserved, quantity
(* Every step keeps the books, and fails for a reason that may occur. *)
LEMMA ExecutingSteps == ASSUME EngineInvariant, Executing, [Next]_vars PROVE Executing'
<1>1. CASE NoSession
  BY <1>1, NoSessionExecutes
<1>2. CASE DecideSession
  BY <1>2, DecideExecutes DEF DecideSession
<1>3. CASE Account \/ Act \/ Open
  BY <1>3, AccountExecutes, ActExecutes, OpenExecutes
<1>4. CASE Execute \/ CloseSession \/ Complete
  BY <1>4, ExecuteExecutes, CloseSessionExecutes, CompleteExecutes
<1>5. CASE UNCHANGED vars \/ Ended
  <2>1. UNCHANGED vars
    BY <1>5 DEF Ended
  <2>2. Bound' = Bound /\ Now' = Now /\ FirstSession' = FirstSession /\ SalesPay' = SalesPay
    BY <2>1 DEF vars, Bound, Now, FirstSession, SalesPay
  <2>3. Standing => Standing'
    BY <2>1, <2>2 DEF vars, Standing, OnTime, Early, AppliedBefore, RestsNat
  <2> QED BY <2>1, <2>2, <2>3 DEF vars, Executing, Pardonable
<1> QED BY <1>1, <1>2, <1>3, <1>4, <1>5 DEF Next

(* Along every run that has not failed the ledger is sound: every balance of its journal
   is the figure it stands for, and transactions came in order (portfolio/accounting.py
   reconcile). *)
THEOREM ExecutingTheorem == Spec => []Executing
<1>1. EngineInvariant /\ Executing /\ [Next]_vars => Executing'
  BY ExecutingSteps
<1>2. Init => Executing
  BY ExecutingStarts
<1> QED BY <1>1, <1>2, EngineTheorem, PTL DEF Spec

(* What can be said of a whole run of the refusals of the ledger and of the book. *)
LEMMA RefusalsSpelled ==
    ASSUME Executing
    PROVE  /\ SalesPay => ApprovedOrdersExecute
           /\ failure \in Refusals => failure = "payable_exceeds_cash"
BY DEF Executing, Pardonable, Refusals, ApprovedOrdersExecute

-----------------------------------------------------------------------------
(* No sale at the price of a quote costs more than it fetches. *)
SalesFetchTheirCosts ==
    \A i \in Instruments : \A q \in Quotes[i], n \in Nat \ {0} :
        LET gross == EstimatedPrice("sell", q.open) * n
        IN gross > 0 => Fee(gross) + Tax("sell", gross) <= gross

QuotesGiven == session # <<>> => \A i \in DOMAIN session.quotes : session.quotes[i] \in Quotes[i]

Paying == QuotesGiven /\ SalesPay

(* A run starts without obligations. *)
LEMMA StartsPaying == ASSUME Init PROVE Paying
<1>1. ledger.pending = <<>>
  BY EngineAssumption, OpenLedgerFacts DEF Init
<1> QED BY <1>1 DEF Init, Paying, QuotesGiven, SalesPay

(* A step that adds no obligation. *)
LEMMA SamePaying ==
    ASSUME Paying, session' \in {session, <<>>},
           \/ ledger'.pending = ledger.pending
           \/ SettledFrom(ledger, ledger')
    PROVE  Paying'
BY DEF Paying, QuotesGiven, SalesPay, SettledFrom

(* A decision takes the quotes of the session. *)
LEMMA DecidePaying ==
    ASSUME Paying, DecideSession
    PROVE  Paying'
<1>1. PICK quoted \in SUBSET Instruments :
        \E quotes \in {q \in [quoted -> UNION {Quotes[i] : i \in quoted}] :
                           \A i \in quoted : q[i] \in Quotes[i]}, rows \in Rows : Decide(quotes, rows)
  BY DEF DecideSession
<1>2. PICK quotes \in {q \in [quoted -> UNION {Quotes[i] : i \in quoted}] :
                           \A i \in quoted : q[i] \in Quotes[i]}, rows \in Rows : Decide(quotes, rows)
  BY <1>1
<1>3. \/ session' = session /\ ledger' = ledger
      \/ session' = [quotes |-> quotes] /\ ledger' = ledger
  BY <1>2 DEF Decide, Raise
<1>4. DOMAIN quotes = quoted /\ \A i \in quoted : quotes[i] \in Quotes[i]
  OBVIOUS
<1> QED BY <1>3, <1>4 DEF Paying, QuotesGiven, SalesPay

(* A sale at the price of a quote brings in something. *)
LEMMA ExecutePaying ==
    ASSUME EngineInvariant, Paying, SalesFetchTheirCosts, Execute
    PROVE  Paying'
<1>1. phase = "execute"
  BY DEF Execute
<1>2. /\ LedgerTyped(ledger) /\ session # <<>> /\ day \in Nat /\ Horizon \in Nat
  BY <1>1, EngineAssumption DEF EngineInvariant, EngineTyped, IntentsOfToday
<1>3. PICK intent \in intents :
        LET quote == session.quotes[intent.instrument]
            price == EstimatedPrice(intent.side, quote.open)
            reserved == Reserve(book, intent, price)
            quantity == FilledQuantity(intent.quantity, quote)
        IN \/ UNCHANGED <<ledger, session>>
           \/ price # 0 /\ quantity # 0 /\ Filled(intent, reserved, price, quantity)
  BY DEF Execute, Raise, Rejected, Unfilled
<1>4. IntentTyped(intent, day) /\ intent.instrument \in DOMAIN session.quotes
  BY DEF EngineInvariant, IntentsOfToday
<1>5. intent.instrument \in Instruments /\ intent.side \in Sides /\ intent.quantity \in Nat \ {0}
      /\ intent.id \in OrderIds
  BY <1>2, <1>4 DEF IntentTyped, OrderIds
<1> DEFINE quote == session.quotes[intent.instrument]
           price == EstimatedPrice(intent.side, quote.open)
           reserved == Reserve(book, intent, price)
           quantity == FilledQuantity(intent.quantity, quote)
           gross == price * quantity
<1>6. ValidQuote(quote) /\ quote.open \in Nat /\ quote \in Quotes[intent.instrument]
  BY <1>2, <1>4, PricesFacts DEF EngineInvariant, Paying, QuotesGiven
<1>7. price \in Nat /\ quantity \in Nat
  BY <1>5, <1>6, EstimatedPriceFacts, FilledQuantityFacts
<1>8. CASE UNCHANGED <<ledger, session>>
  BY <1>8, SamePaying
<1>9. CASE price # 0 /\ quantity # 0 /\ Filled(intent, reserved, price, quantity)
  <2>1. gross \in Nat /\ gross > 0
    <3>1. \A p, q \in Nat \ {0} : p * q \in Nat /\ p * q > 0
      OBVIOUS
    <3> HIDE DEF price, quantity
    <3> QED BY <1>7, <1>9, <3>1
  <2>2. intent.side = "sell" => Fee(gross) + Tax("sell", gross) <= gross
    <3> SUFFICES ASSUME intent.side = "sell" PROVE Fee(gross) + Tax("sell", gross) <= gross
      OBVIOUS
    <3>1. gross = EstimatedPrice("sell", quote.open) * quantity
      OBVIOUS
    <3> HIDE DEF gross, quantity, quote, price
    <3> QED BY <1>5, <1>6, <1>7, <1>9, <2>1, <3>1 DEF SalesFetchTheirCosts
  <2> HIDE DEF quote, reserved
  <2> DEFINE fill == [id |-> intent.id, instrument |-> intent.instrument, side |-> intent.side,
                      quantity |-> quantity, price |-> price,
                      fee |-> IncrementalFee(0, gross, 0), tax |-> Tax(intent.side, gross),
                      at |-> Execution(day)]
             applied == ApplyFill(ledger, fill, day, Horizon)
  <2>3. \/ ledger' = ledger /\ session' = session
        \/ Good(applied) /\ ledger' = applied /\ session' = session
    BY <1>9 DEF Filled, Raise
  <2> HIDE DEF price, quantity, gross
  <2>4. Fee(gross) \in Nat /\ Tax(intent.side, gross) \in Nat
        /\ (intent.side = "buy" => Tax(intent.side, gross) = 0)
    BY <2>1, FeeFacts, TaxFacts DEF Tax
  <2>5. IncrementalFee(0, gross, 0) = Fee(gross)
    <3>1. \A g, f \in Nat : 0 + g = g /\ f - 0 = f
      OBVIOUS
    <3> HIDE DEF fill, applied
    <3>2. 0 + gross = gross /\ Fee(gross) - 0 = Fee(gross)
      BY <2>1, <2>4, <3>1
    <3> QED BY <3>2 DEF IncrementalFee
  <2>6. /\ fill.side = intent.side /\ fill.quantity = quantity /\ fill.price = price
        /\ fill.fee = Fee(gross) /\ fill.tax = Tax(intent.side, gross)
        /\ fill.id = intent.id /\ fill.instrument = intent.instrument
    BY <2>5
  <2> HIDE DEF fill
  <2>7. FillTyped(fill)
    BY <1>5, <1>7, <1>9, <2>4, <2>6 DEF FillTyped
  <2> HIDE DEF applied
  <2>8. CASE Good(applied) /\ ledger' = applied /\ session' = session
    <3> DEFINE item == Obligation(fill, day + SettlementLag, Owing(fill))
    <3>1. ledger'.pending = Append(ledger.pending, item)
      BY <1>2, <2>7, <2>8, FillFacts DEF applied
    <3>2. Owing(fill) >= 0
      <4>1. fill.price * fill.quantity = gross
        BY <2>6 DEF gross
      <4>2. Tax("sell", gross) \in Nat
        BY <2>1, TaxFacts
      <4>3. CASE fill.side = "buy"
        <5>1. Owing(fill) = gross + Fee(gross)
          BY <2>6, <4>1, <4>3 DEF Owing
        <5> QED BY <2>1, <2>4, <5>1
      <4>4. CASE fill.side # "buy"
        <5>1. fill.side = "sell" /\ intent.side = "sell"
          BY <1>5, <2>6, <4>4 DEF Sides
        <5>2. Owing(fill) = gross - Fee(gross) - Tax("sell", gross)
          BY <2>6, <4>1, <4>4, <5>1 DEF Owing, Proceeds
        <5> QED BY <2>1, <2>2, <2>4, <4>2, <5>1, <5>2
      <4> QED BY <4>3, <4>4
    <3>3. item.amount = Owing(fill)
      BY DEF Obligation
    <3> HIDE DEF item
    <3>4. ledger.pending \in Seq(Items)
      BY <1>2 DEF LedgerTyped
    <3>5. \A k \in DOMAIN ledger'.pending : ledger'.pending[k].amount >= 0
      <4>1. \A k \in DOMAIN ledger'.pending :
              \/ ledger'.pending[k] = item
              \/ k \in DOMAIN ledger.pending /\ ledger'.pending[k] = ledger.pending[k]
        BY <3>1, <3>4
      <4> QED BY <3>2, <3>3, <4>1 DEF Paying, SalesPay
    <3> QED BY <2>8, <3>5 DEF Paying, QuotesGiven, SalesPay
  <2> QED BY <2>3, <2>8, SamePaying
<1> QED BY <1>3, <1>8, <1>9 DEF quote, price, reserved, quantity

(* Settlements keep the amounts. *)
LEMMA AccountPaying == ASSUME EngineInvariant, Paying, Account PROVE Paying'
<1> DEFINE m == ProcessSettlements(ledger, day, Accounting(day))
<1>1. \/ UNCHANGED <<ledger, session>>
      \/ Good(m) /\ ledger' = m /\ session' = session
  BY DEF Account, Raise
<1>2. Good(m) => SettledFrom(ledger, m)
  BY SettlementFacts DEF EngineInvariant, EngineTyped
<1> HIDE DEF m
<1> QED BY <1>1, <1>2, SamePaying

(* Corporate actions are no sales. *)
LEMMA ActPaying == ASSUME EngineInvariant, Paying, Act PROVE Paying'
<1> DEFINE at == Accounting(day)
<1>1. PICK a \in pendingActions :
        \/ UNCHANGED <<ledger, session>>
        \/ /\ Good(ApplyAction(ledger, a, at)) /\ ledger' = ApplyAction(ledger, a, at)
           /\ session' = session
  BY DEF Act, Raise
<1>2. phase = "actions"
  BY DEF Act
<1>3. LedgerTyped(ledger) /\ ValidAction(a)
  BY <1>2, ConfigFacts, EngineAssumption DEF EngineInvariant, EngineTyped
<1> DEFINE m == ApplyAction(ledger, a, at)
<1> HIDE DEF at
<1>4. CASE Good(m) /\ ledger' = m /\ session' = session
  <2>1. SameCash(ledger, m)
    <3>1. CASE a.kind = "dividend"
      BY <1>3, <1>4, <3>1, AccrueFacts DEF ApplyAction
    <3>2. CASE a.kind # "dividend"
      BY <1>3, <1>4, <3>2, SplitFacts DEF ApplyAction
    <3> QED BY <3>1, <3>2
  <2> HIDE DEF m
  <2> QED BY <1>4, <2>1, SamePaying DEF SameCash
<1> QED BY <1>1, <1>4, SamePaying

(* Marks are no sales. *)
LEMMA OpenPaying == ASSUME EngineInvariant, Paying, Open PROVE Paying'
<1> DEFINE price == [i \in DOMAIN session.quotes |-> session.quotes[i].open]
           n == MarkAll(ledger, price)
<1>1. \/ UNCHANGED <<ledger, session>>
      \/ Good(Checked(n)) /\ ledger' = Checked(n) /\ session' = session
  BY DEF Open, Raise
<1>2. LedgerTyped(ledger) /\ session # <<>>
  BY DEF EngineInvariant, EngineTyped, IntentsOfToday, Open
<1>3. \A i \in Instruments \cap DOMAIN price : price[i] \in Int
  BY <1>2, PricesFacts DEF EngineInvariant
<1> HIDE DEF price
<1>4. SameCash(ledger, n)
  BY <1>2, <1>3, MarkFacts
<1> HIDE DEF n
<1>5. Good(Checked(n)) => Checked(n) = n
  BY <1>4, CheckedFacts DEF SameCash
<1> QED BY <1>1, <1>4, <1>5, SamePaying DEF SameCash

(* Marks are no sales. *)
LEMMA CloseSessionPaying == ASSUME EngineInvariant, Paying, CloseSession PROVE Paying'
<1> DEFINE price == [i \in DOMAIN session.quotes |-> session.quotes[i].close]
           aged == AgeUnmarked(ledger, DOMAIN price)
           n == MarkAll(aged, price)
<1>1. \/ UNCHANGED <<ledger, session>>
      \/ Good(Checked(n)) /\ ledger' = Checked(n) /\ session' = <<>>
  BY DEF CloseSession, Raise
<1>2. LedgerTyped(ledger) /\ session # <<>>
  BY DEF EngineInvariant, EngineTyped, IntentsOfToday, CloseSession
<1>3. \A i \in Instruments \cap DOMAIN price : price[i] \in Int
  BY <1>2, PricesFacts DEF EngineInvariant
<1> HIDE DEF price
<1>4. SameCash(ledger, aged)
  BY <1>2, AgeFacts
<1> HIDE DEF aged
<1>5. SameCash(aged, n)
  BY <1>3, <1>4, MarkFacts DEF SameCash
<1> HIDE DEF n
<1>6. Good(Checked(n)) => Checked(n) = n
  BY <1>5, CheckedFacts DEF SameCash
<1> QED BY <1>1, <1>4, <1>5, <1>6, SamePaying DEF SameCash

(* Every step keeps the amounts of sales from being negative. *)
LEMMA PayingSteps ==
    ASSUME EngineInvariant, Paying, SalesFetchTheirCosts, [Next]_vars PROVE Paying'
<1>1. CASE DecideSession
  BY <1>1, DecidePaying
<1>2. CASE Account \/ Act
  BY <1>2, AccountPaying, ActPaying
<1>3. CASE Open \/ CloseSession
  BY <1>3, OpenPaying, CloseSessionPaying
<1>4. CASE Execute
  BY <1>4, ExecutePaying
<1>5. CASE NoSession \/ Complete
  <2>1. ledger' = ledger /\ session' \in {session, <<>>}
    BY <1>5 DEF NoSession, Complete, Raise
  <2> QED BY <2>1, SamePaying
<1>6. CASE UNCHANGED vars \/ Ended
  <2>1. ledger' = ledger /\ session' = session
    BY <1>6 DEF vars, Ended
  <2> QED BY <2>1, SamePaying
<1> QED BY <1>1, <1>2, <1>3, <1>4, <1>5, <1>6 DEF Next

(* What risk approved, the ledger and the book execute, as long as no sale of the run brings in
   less than its fees and its tax: no fill exceeds the cash or the shares there are, every
   payable is covered on the day it is due, every account reconciles after every step, no
   corporate action comes twice, and the calendar is long enough (engine.py, accounting.py). *)
THEOREM ApprovedTheorem == Spec => [](SalesPay => ApprovedOrdersExecute)
<1>1. Executing => (SalesPay => ApprovedOrdersExecute)
  BY RefusalsSpelled
<1> QED BY <1>1, ExecutingTheorem, PTL

(* Whatever sales bring in, a payable that is not covered is the only refusal of the ledger
   or of the book with which a run ends. *)
THEOREM RefusalTheorem == Spec => [](failure \in Refusals => failure = "payable_exceeds_cash")
<1>1. Executing => (failure \in Refusals => failure = "payable_exceeds_cash")
  BY RefusalsSpelled
<1> QED BY <1>1, ExecutingTheorem, PTL

(* With fees and taxes that no sale at the price of a quote fails to pay, a run never ends
   with a refusal of the ledger or of the book. *)
THEOREM NoRefusalTheorem ==
    ASSUME SalesFetchTheirCosts PROVE Spec => []ApprovedOrdersExecute
<1>1. EngineInvariant /\ Paying /\ [Next]_vars => Paying'
  BY PayingSteps
<1>2. Init => Paying
  BY StartsPaying
<1>3. Executing /\ Paying => ApprovedOrdersExecute
  BY RefusalsSpelled DEF Paying
<1> QED BY <1>1, <1>2, <1>3, EngineTheorem, ExecutingTheorem, PTL DEF Spec

-----------------------------------------------------------------------------
(* The offline broker. *)
BrokerOrders == [quantity : Nat, filled : Nat, state : OrderStates, last : Nat \ {0}]

(* The orders, events and keys of the broker, and how keys and orders go together: a
   client order id has an order exactly when its key has been seen. *)
BrokerTypeOK ==
    /\ kill \in BOOLEAN
    /\ DOMAIN placed \subseteq Clients
    /\ \A c \in DOMAIN placed :
        placed[c] \in BrokerOrders
    /\ \A r \in Requests : r.key \in keys <=> r.client \in DOMAIN placed
    /\ heard \subseteq Callbacks

(* An expired session leaves kill_new_risk as it is: a fixture with that fault must never
   have lifted it. *)
ExpiredKeepsKill == "session_expired" \in faults => kill

(* No order is filled beyond the quantity last asked for. *)
NeverOverfilled == \A c \in DOMAIN placed : placed[c].filled <= placed[c].quantity

BrokerInvariant ==
    BrokerTypeOK /\ ExpiredKeepsKill /\ UnhealthyStopsNewRisk
      /\ SequencesUsedOnce /\ NeverOverfilled

-----------------------------------------------------------------------------
LEMMA WithFacts ==
    ASSUME NEW f, NEW k, NEW v
    PROVE  /\ DOMAIN With(f, k, v) = DOMAIN f \cup {k}
           /\ With(f, k, v)[k] = v
           /\ \A x \in DOMAIN f : x # k => With(f, k, v)[x] = f[x]
BY DEF With

(* An order that moves on to its next sequence number keeps all of the invariant, if the
   event that moved it, if any, is recorded under that number. *)
LEMMA AdvanceKeepsInvariant ==
    ASSUME BrokerInvariant,
           NEW c \in DOMAIN placed,
           NEW o \in BrokerOrders,
           o.filled <= o.quantity,
           Advance(c, o),
           heard \subseteq heard',
           heard' \subseteq Callbacks,
           \A e \in heard' \ heard : e.client = c /\ e.sequence = ExpectedSequence(c),
           \A e, f \in heard' \ heard : e = f,
           UNCHANGED <<faults, health, kill, keys>>
    PROVE  BrokerInvariant'
<1> USE CallbackAssumption
<1> DEFINE n == [o EXCEPT !.last = placed[c].last + 1]
<1>1. ExpectedSequence(c) = placed[c].last + 1 /\ placed[c].last \in Nat \ {0}
  BY DEF ExpectedSequence, BrokerInvariant, BrokerTypeOK, BrokerOrders
<1>2. placed' = With(placed, c, n)
  BY <1>1 DEF Advance
<1>3. /\ n \in BrokerOrders
      /\ n.last = placed[c].last + 1
      /\ n.filled <= n.quantity
  BY <1>1 DEF BrokerOrders
<1>4. /\ DOMAIN placed' = DOMAIN placed
      /\ placed'[c] = n
      /\ \A x \in DOMAIN placed : x # c => placed'[x] = placed[x]
  BY <1>2 DEF With
<1> HIDE DEF n
<1>5. BrokerTypeOK'
  BY <1>3, <1>4 DEF BrokerInvariant, BrokerTypeOK
<1>6. ExpiredKeepsKill' /\ UnhealthyStopsNewRisk'
  BY DEF BrokerInvariant, ExpiredKeepsKill, UnhealthyStopsNewRisk
<1>7. NeverOverfilled'
  BY <1>3, <1>4 DEF BrokerInvariant, NeverOverfilled
<1>8. \A e \in heard : /\ e.client \in DOMAIN placed
                       /\ e.sequence \in 2..placed[e.client].last
                       /\ e.sequence \in Nat
  BY DEF BrokerInvariant, SequencesUsedOnce, BrokerTypeOK
<1>9. \A e \in heard' : e.client \in DOMAIN placed' /\ e.sequence \in 2..placed'[e.client].last
  <2>1. ASSUME NEW e \in heard PROVE e.sequence \in 2..placed'[e.client].last
    <3>1. CASE e.client = c
      BY <1>1, <1>3, <1>4, <1>8, <3>1
    <3>2. CASE e.client # c
      BY <1>4, <1>8, <3>2
    <3> QED BY <3>1, <3>2
  <2>2. ASSUME NEW e \in heard' \ heard PROVE e.sequence \in 2..placed'[e.client].last
    BY <1>1, <1>3, <1>4
  <2> QED BY <1>4, <1>8, <2>1, <2>2
<1>10. \A e, f \in heard' : e.client = f.client /\ e.sequence = f.sequence => e = f
  <2>1. ASSUME NEW e \in heard, NEW f \in heard' \ heard, e.client = f.client
        PROVE e.sequence # f.sequence
    BY <1>1, <1>8, <2>1
  <2> QED BY <2>1 DEF BrokerInvariant, SequencesUsedOnce
<1> QED BY <1>5, <1>6, <1>7, <1>9, <1>10 DEF BrokerInvariant, SequencesUsedOnce

LEMMA FillKeepsType ==
    ASSUME NEW o \in BrokerOrders, NEW filled \in Nat, NEW state \in OrderStates
    PROVE  [o EXCEPT !.filled = filled, !.state = state] \in BrokerOrders
BY DEF BrokerOrders

LEMMA InitEstablishes == BrokerInit => BrokerInvariant
BY DEF BrokerInit, BrokerInvariant, BrokerTypeOK, ExpiredKeepsKill, UnhealthyStopsNewRisk,
       SequencesUsedOnce, NeverOverfilled

(* The session actions and the refusals of ingest_event leave orders and events alone. *)
LEMMA SessionStepsKeepInvariant ==
    ASSUME BrokerInvariant,
           \/ OpenSession \/ EndSession \/ ForceKillNewRisk \/ ClearFaultsAndReconnect
           \/ \E e \in Callbacks : IngestCorrupted(e) \/ IngestGap(e)
                                     \/ IngestUncorrelated(e) \/ IngestOverfill(e)
    PROVE  BrokerInvariant'
<1>1. UNCHANGED <<placed, keys, heard>> /\ kill' \in BOOLEAN
  BY DEF OpenSession, EndSession, ForceKillNewRisk, ClearFaultsAndReconnect, IngestCorrupted, IngestGap,
         IngestUncorrelated, IngestOverfill, BrokerInvariant, BrokerTypeOK
<1>2. ExpiredKeepsKill' /\ UnhealthyStopsNewRisk'
  BY DEF OpenSession, EndSession, ForceKillNewRisk, ClearFaultsAndReconnect, IngestCorrupted, IngestGap,
         IngestUncorrelated, IngestOverfill, BrokerInvariant, ExpiredKeepsKill,
         UnhealthyStopsNewRisk
<1> QED BY <1>1, <1>2 DEF BrokerInvariant, BrokerTypeOK, SequencesUsedOnce, NeverOverfilled

LEMMA SubmitKeepsInvariant ==
    ASSUME BrokerInvariant, NEW r \in Requests, Submit(r)
    PROVE  BrokerInvariant'
<1> DEFINE n == [quantity |-> r.quantity, filled |-> 0, state |-> "acknowledged", last |-> 1]
<1>1. n \in BrokerOrders
      /\ n.filled <= n.quantity
  BY RequestAssumption DEF BrokerOrders, OrderStates
<1>2. r.client \notin DOMAIN placed
  BY DEF Submit, BrokerInvariant, BrokerTypeOK
<1>3. placed' = With(placed, r.client, n) /\ keys' = keys \cup {r.key}
  BY DEF Submit
<1>4. /\ DOMAIN placed' = DOMAIN placed \cup {r.client}
      /\ placed'[r.client] = n
      /\ \A x \in DOMAIN placed : placed'[x] = placed[x]
  BY <1>2, <1>3, WithFacts
<1> HIDE DEF n
<1>5. UNCHANGED <<faults, health, kill, heard>>
  BY DEF Submit
<1>6. r.client \in Clients
  BY DEF Clients
<1>7. \A s \in Requests : s.key \in keys' <=> s.client \in DOMAIN placed'
  BY <1>3, <1>4, RequestAssumption DEF BrokerInvariant, BrokerTypeOK
<1>8. BrokerTypeOK'
  BY <1>1, <1>4, <1>5, <1>6, <1>7 DEF BrokerInvariant, BrokerTypeOK
<1>9. SequencesUsedOnce'
  BY <1>4, <1>5 DEF BrokerInvariant, SequencesUsedOnce
<1>10. NeverOverfilled'
  BY <1>1, <1>4 DEF BrokerInvariant, NeverOverfilled
<1> QED
  BY <1>5, <1>8, <1>9, <1>10 DEF BrokerInvariant, ExpiredKeepsKill, UnhealthyStopsNewRisk

LEMMA CommandsKeepInvariant ==
    ASSUME BrokerInvariant, NEW c \in Clients,
           Cancel(c) \/ \E q \in NewQuantities : Replace(c, q)
    PROVE  BrokerInvariant'
<1>1. c \in DOMAIN placed
  BY DEF Cancel, Replace, Commandable
<1>2. placed[c] \in BrokerOrders
      /\ placed[c].filled <= placed[c].quantity
  BY <1>1 DEF BrokerInvariant, BrokerTypeOK, NeverOverfilled
<1>3. UNCHANGED <<faults, health, kill, keys>> /\ heard' = heard
  BY DEF Cancel, Replace
<1> heard \subseteq Callbacks
  BY DEF BrokerInvariant, BrokerTypeOK
<1>4. ASSUME Cancel(c) PROVE BrokerInvariant'
  <2> DEFINE o == [placed[c] EXCEPT !.state = "cancelled"]
  <2>1. Advance(c, o)
    BY <1>4 DEF Cancel
  <2>2. o \in BrokerOrders
        /\ o.filled <= o.quantity
    BY <1>2 DEF BrokerOrders, OrderStates
  <2> HIDE DEF o
  <2> QED BY <1>1, <1>3, <2>1, <2>2, AdvanceKeepsInvariant
<1>5. ASSUME NEW q \in NewQuantities, Replace(c, q) PROVE BrokerInvariant'
  <2> DEFINE o == [placed[c] EXCEPT !.state = "replaced", !.quantity = q]
  <2>1. Advance(c, o) /\ q >= placed[c].filled
    BY <1>5 DEF Replace, NotBelowFilled
  <2>2. o \in BrokerOrders
        /\ o.filled <= o.quantity
    BY <1>2, <2>1, CallbackAssumption DEF BrokerOrders, OrderStates
  <2> HIDE DEF o
  <2> QED BY <1>1, <1>3, <2>1, <2>2, AdvanceKeepsInvariant
<1> QED BY <1>4, <1>5

LEMMA EventsKeepInvariant ==
    ASSUME BrokerInvariant, NEW e \in Callbacks, IngestFill(e) \/ IngestOrder(e)
    PROVE  BrokerInvariant'
<1> DEFINE c == e.client
<1>1. c \in DOMAIN placed /\ e.sequence = ExpectedSequence(c)
  BY DEF IngestFill, IngestOrder, Applicable, InSequence
<1>2. placed[c] \in BrokerOrders
      /\ placed[c].filled <= placed[c].quantity
  BY <1>1 DEF BrokerInvariant, BrokerTypeOK, NeverOverfilled
<1>3. UNCHANGED <<faults, health, kill, keys>> /\ heard' = heard \cup {e}
  BY DEF IngestFill, IngestOrder
<1> heard \subseteq Callbacks
  BY DEF BrokerInvariant, BrokerTypeOK
<1>4. ASSUME IngestFill(e) PROVE BrokerInvariant'
  <2> DEFINE o == AfterFill(placed[c], e.quantity)
  <2>1. Advance(c, o) /\ placed[c].filled + e.quantity <= placed[c].quantity
    BY <1>4 DEF IngestFill, Fits
  <2>2. e.quantity \in Nat
    BY CallbackAssumption
  <2>3. o \in BrokerOrders
    <3>1. placed[c].filled + e.quantity \in Nat
      BY <1>2, <2>2 DEF BrokerOrders
    <3>2. {"filled", "partially_filled"} \subseteq OrderStates
      BY DEF OrderStates
    <3> QED BY <1>2, <3>1, <3>2, FillKeepsType DEF AfterFill
  <2>4. o.filled <= o.quantity
    BY <1>2, <2>1, <2>2 DEF AfterFill, BrokerOrders
  <2> HIDE DEF o
  <2> QED BY <1>1, <1>3, <2>1, <2>3, <2>4, AdvanceKeepsInvariant
<1>5. ASSUME IngestOrder(e) PROVE BrokerInvariant'
  <2> DEFINE o == [placed[c] EXCEPT !.state = e.state]
  <2>1. Advance(c, o)
    BY <1>5 DEF IngestOrder
  <2>2. o \in BrokerOrders
        /\ o.filled <= o.quantity
    BY <1>2, <1>5, CallbackAssumption DEF IngestOrder, BrokerOrders
  <2> HIDE DEF o
  <2> QED BY <1>1, <1>3, <2>1, <2>2, AdvanceKeepsInvariant
<1> QED BY <1>4, <1>5

(* The invariant is inductive for every set of requests and callbacks. *)
THEOREM BrokerInvariance == BrokerSpec => []BrokerInvariant
<1>1. BrokerInit => BrokerInvariant
  BY InitEstablishes
<1>2. BrokerInvariant /\ [BrokerNext]_brokerVars => BrokerInvariant'
  <2> SUFFICES ASSUME BrokerInvariant, [BrokerNext]_brokerVars PROVE BrokerInvariant'
    OBVIOUS
  <2>1. CASE \E r \in Requests : Submit(r)
    BY <2>1, SubmitKeepsInvariant
  <2>2. CASE \E c \in Clients : Cancel(c) \/ \E q \in NewQuantities : Replace(c, q)
    BY <2>2, CommandsKeepInvariant
  <2>3. CASE \E e \in Callbacks : IngestFill(e) \/ IngestOrder(e)
    BY <2>3, EventsKeepInvariant
  <2>4. CASE \/ OpenSession \/ EndSession \/ ForceKillNewRisk \/ ClearFaultsAndReconnect
             \/ \E e \in Callbacks : IngestCorrupted(e) \/ IngestGap(e)
                                       \/ IngestUncorrelated(e) \/ IngestOverfill(e)
    BY <2>4, SessionStepsKeepInvariant
  <2>5. CASE UNCHANGED brokerVars
    BY <2>5 DEF brokerVars, BrokerInvariant, BrokerTypeOK, ExpiredKeepsKill,
                UnhealthyStopsNewRisk, SequencesUsedOnce, NeverOverfilled
  <2> QED BY <2>1, <2>2, <2>3, <2>4, <2>5 DEF BrokerNext, IngestEvent
<1> QED BY <1>1, <1>2, PTL DEF BrokerSpec

(* ADR 0017: a session that is not healthy stops new risk, whatever expires, disconnects,
   is killed or reconnected (brokers/fixture.py open, close, ingest_event). *)
THEOREM UnhealthyTheorem == BrokerSpec => []UnhealthyStopsNewRisk
BY BrokerInvariance, PTL DEF BrokerInvariant

(* Callbacks count once: every one applied has a sequence number of its order to itself,
   and no order is filled beyond its quantity (ingest_event, cancel and replace). *)
THEOREM SequencesTheorem == BrokerSpec => [](SequencesUsedOnce /\ NeverOverfilled)
BY BrokerInvariance, PTL DEF BrokerInvariant

-----------------------------------------------------------------------------
(* The fills recorded are callbacks of orders the broker has, finitely many, and what an
   order has filled is the sum of its own. *)
FillsRecorded ==
    /\ IsFiniteSet(DOMAIN recorded)
    /\ \A f \in DOMAIN recorded :
        recorded[f] \in Callbacks /\ recorded[f].client \in DOMAIN placed
    /\ \A c \in DOMAIN placed :
        placed[c].filled = SumFunctionOnSet(RecordedQuantities, RecordedFor(c))

(* A step that records no fill keeps the sums, if new orders start with nothing filled. *)
LEMMA NoFillKeepsSums ==
    ASSUME FillsRecorded,
           recorded' = recorded,
           DOMAIN placed \subseteq DOMAIN placed',
           \A c \in DOMAIN placed : placed'[c].filled = placed[c].filled,
           \A c \in DOMAIN placed' \ DOMAIN placed : placed'[c].filled = 0
    PROVE  FillsRecorded'
<1>1. \A c : RecordedFor(c)' = RecordedFor(c)
  BY DEF RecordedFor
<1>2. RecordedQuantities' = RecordedQuantities
  BY DEF RecordedQuantities
<1>3. \A c \in DOMAIN placed' \ DOMAIN placed : RecordedFor(c) = {}
  BY DEF FillsRecorded, RecordedFor
<1>4. ASSUME NEW c \in DOMAIN placed'
      PROVE  placed'[c].filled = SumFunctionOnSet(RecordedQuantities', RecordedFor(c)')
  <2>1. CASE c \in DOMAIN placed
    BY <1>1, <1>2, <2>1 DEF FillsRecorded
  <2>2. CASE c \notin DOMAIN placed
    BY <1>1, <1>2, <1>3, <2>2, SumOfNone
  <2> QED BY <2>1, <2>2
<1> QED BY <1>4 DEF FillsRecorded

(* Recording a fill under a new id adds its quantity to its order's sum and to no other. *)
LEMMA FillAddsToSum ==
    ASSUME BrokerInvariant, FillsRecorded, NEW e \in Callbacks, IngestFill(e)
    PROVE  FillsRecorded'
<1> DEFINE c == e.client
           q == RecordedQuantities
           r == RecordedQuantities'
<1>1. /\ c \in DOMAIN placed
      /\ e.fill \notin DOMAIN recorded
      /\ recorded' = With(recorded, e.fill, e)
      /\ Advance(c, AfterFill(placed[c], e.quantity))
  BY DEF IngestFill, Applicable, NewFill
<1>2. placed[c] \in BrokerOrders
  BY <1>1 DEF BrokerInvariant, BrokerTypeOK
<1>3. /\ DOMAIN placed' = DOMAIN placed
      /\ placed'[c].filled = placed[c].filled + e.quantity
      /\ \A x \in DOMAIN placed : x # c => placed'[x] = placed[x]
  BY <1>1, <1>2 DEF Advance, With, AfterFill, BrokerOrders
<1>4. /\ DOMAIN recorded' = DOMAIN recorded \cup {e.fill}
      /\ recorded'[e.fill] = e
      /\ \A f \in DOMAIN recorded : recorded'[f] = recorded[f]
  BY <1>1 DEF With
<1>5. /\ RecordedFor(c)' = RecordedFor(c) \cup {e.fill}
      /\ \A x : x # c => RecordedFor(x)' = RecordedFor(x)
  BY <1>4 DEF RecordedFor
<1>6. /\ \A f \in DOMAIN recorded : q[f] \in Nat /\ r[f] = q[f]
      /\ r[e.fill] = e.quantity
      /\ e.quantity \in Nat
  BY <1>4, CallbackAssumption DEF FillsRecorded, RecordedQuantities
<1>7. \A x : /\ RecordedFor(x) \subseteq DOMAIN recorded
             /\ IsFiniteSet(RecordedFor(x))
  BY FS_Subset DEF FillsRecorded, RecordedFor
<1> HIDE DEF q, r
<1>8. \A x : SumFunctionOnSet(r, RecordedFor(x)) = SumFunctionOnSet(q, RecordedFor(x))
  <2> TAKE x
  <2> QED BY <1>6, <1>7, SumAgrees
<1>9. SumFunctionOnSet(r, RecordedFor(c) \cup {e.fill})
        = SumFunctionOnSet(r, RecordedFor(c)) + e.quantity
  <2>1. e.fill \notin RecordedFor(c)
    BY <1>1 DEF RecordedFor
  <2>2. \A f \in RecordedFor(c) \cup {e.fill} : r[f] \in Int
    BY <1>6, <1>7
  <2>3. SumFunctionOnSet(r, RecordedFor(c) \cup {e.fill})
          = SumFunctionOnSet(r, RecordedFor(c)) + r[e.fill]
    BY <1>7, <2>1, <2>2, SumAdd
  <2> QED BY <1>6, <2>3
<1>10. ASSUME NEW x \in DOMAIN placed
       PROVE  placed'[x].filled = SumFunctionOnSet(r, RecordedFor(x)')
  <2>1. placed[x].filled = SumFunctionOnSet(r, RecordedFor(x))
    BY <1>8 DEF FillsRecorded, q
  <2>2. CASE x = c
    BY <1>3, <1>5, <1>9, <2>1, <2>2
  <2>3. CASE x # c
    BY <1>3, <1>5, <2>1, <2>3
  <2> QED BY <2>2, <2>3
<1>11. IsFiniteSet(DOMAIN recorded')
  BY <1>4, FS_AddElement DEF FillsRecorded
<1>12. \A f \in DOMAIN recorded' : recorded'[f] \in Callbacks /\ recorded'[f].client \in DOMAIN placed'
  BY <1>1, <1>3, <1>4 DEF FillsRecorded
<1> QED BY <1>3, <1>10, <1>11, <1>12 DEF FillsRecorded, r

(* A command or an order update moves an order on and leaves what is filled alone. *)
LEMMA AdvanceKeepsSums ==
    ASSUME BrokerInvariant, FillsRecorded, recorded' = recorded,
           NEW c \in DOMAIN placed, NEW o, o.filled = placed[c].filled,
           o \in BrokerOrders, Advance(c, o)
    PROVE  FillsRecorded'
<1>1. /\ DOMAIN placed' = DOMAIN placed
      /\ placed'[c].filled = o.filled
      /\ \A x \in DOMAIN placed : x # c => placed'[x] = placed[x]
  BY DEF Advance, With, BrokerOrders
<1> QED BY <1>1, NoFillKeepsSums

(* Every step of the broker keeps the sums. *)
LEMMA StepKeepsSums ==
    ASSUME BrokerInvariant, FillsRecorded, [BrokerNext]_brokerVars
    PROVE  FillsRecorded'
<1>1. ASSUME NEW r \in Requests, Submit(r) PROVE FillsRecorded'
  <2>1. r.client \notin DOMAIN placed
    BY <1>1 DEF Submit, BrokerInvariant, BrokerTypeOK
  <2>2. /\ DOMAIN placed' = DOMAIN placed \cup {r.client}
        /\ placed'[r.client].filled = 0
        /\ \A x \in DOMAIN placed : placed'[x] = placed[x]
        /\ recorded' = recorded
    BY <1>1, <2>1 DEF Submit, With
  <2> QED BY <2>2, NoFillKeepsSums
<1>2. ASSUME NEW c \in Clients, Cancel(c) \/ \E q \in NewQuantities : Replace(c, q)
      PROVE  FillsRecorded'
  <2>1. c \in DOMAIN placed /\ placed[c] \in BrokerOrders /\ recorded' = recorded
    BY <1>2 DEF Cancel, Replace, Commandable, BrokerInvariant, BrokerTypeOK
  <2>2. CASE Cancel(c)
    <3> DEFINE o == [placed[c] EXCEPT !.state = "cancelled"]
    <3>1. o \in BrokerOrders /\ o.filled = placed[c].filled /\ Advance(c, o)
      BY <2>1, <2>2 DEF BrokerOrders, OrderStates, Cancel
    <3> HIDE DEF o
    <3> QED BY <2>1, <3>1, AdvanceKeepsSums
  <2>3. ASSUME NEW q \in NewQuantities, Replace(c, q) PROVE FillsRecorded'
    <3> DEFINE o == [placed[c] EXCEPT !.state = "replaced", !.quantity = q]
    <3>1. o \in BrokerOrders /\ o.filled = placed[c].filled /\ Advance(c, o)
      BY <2>1, <2>3, CallbackAssumption DEF BrokerOrders, OrderStates, Replace
    <3> HIDE DEF o
    <3> QED BY <2>1, <3>1, AdvanceKeepsSums
  <2> QED BY <1>2, <2>2, <2>3
<1>3. ASSUME NEW e \in Callbacks, IngestOrder(e) PROVE FillsRecorded'
  <2> DEFINE c == e.client
             o == [placed[c] EXCEPT !.state = e.state]
  <2>1. c \in DOMAIN placed /\ placed[c] \in BrokerOrders /\ recorded' = recorded
    BY <1>3 DEF IngestOrder, Applicable, BrokerInvariant, BrokerTypeOK
  <2>2. o \in BrokerOrders /\ o.filled = placed[c].filled /\ Advance(c, o)
    BY <1>3, <2>1, CallbackAssumption DEF IngestOrder, BrokerOrders
  <2> HIDE DEF o
  <2> QED BY <2>1, <2>2, AdvanceKeepsSums
<1>4. ASSUME NEW e \in Callbacks, IngestFill(e) PROVE FillsRecorded'
  BY <1>4, FillAddsToSum
<1>5. ASSUME \/ OpenSession \/ EndSession \/ ForceKillNewRisk \/ ClearFaultsAndReconnect
             \/ \E e \in Callbacks : IngestCorrupted(e) \/ IngestGap(e)
                                       \/ IngestUncorrelated(e) \/ IngestOverfill(e)
             \/ UNCHANGED brokerVars
      PROVE  FillsRecorded'
  <2>1. recorded' = recorded /\ placed' = placed
    BY <1>5 DEF OpenSession, EndSession, ForceKillNewRisk, ClearFaultsAndReconnect,
         IngestCorrupted, IngestGap, IngestUncorrelated, IngestOverfill, brokerVars
  <2> QED BY <2>1, NoFillKeepsSums
<1> QED BY <1>1, <1>2, <1>3, <1>4, <1>5 DEF BrokerNext, IngestEvent

(* Whatever callbacks come, in whatever order, again, under another identity or between
   cancels and replaces: an order has filled the sum of the fills recorded for it, within
   the quantity last asked for, and no sequence number is used twice (ingest_event). *)
THEOREM BrokerFillsTheorem == BrokerSpec => []FillsMatchOrders
<1>1. BrokerInit => FillsRecorded
  BY FS_EmptySet DEF BrokerInit, FillsRecorded
<1>2. BrokerInvariant /\ FillsRecorded /\ [BrokerNext]_brokerVars => FillsRecorded'
  BY StepKeepsSums
<1>3. BrokerInvariant /\ FillsRecorded => FillsMatchOrders
  BY DEF BrokerInvariant, NeverOverfilled, FillsRecorded, FillsMatchOrders
<1> QED BY <1>1, <1>2, <1>3, BrokerInvariance, PTL DEF BrokerSpec
=============================================================================

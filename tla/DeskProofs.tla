------------------------------ MODULE DeskProofs ------------------------------
(***************************************************************************)
(* What holds of the paper desk for any markets, targets, policies and     *)
(* interruptions.                                                          *)
(***************************************************************************)
EXTENDS PaperDesk, TradingProofs

-----------------------------------------------------------------------------
(* Sums over the rows of a table. *)

(* A new row adds its value. *)
LEMMA SumOfAppended ==
    ASSUME NEW n \in Nat, NEW f, NEW g, DOMAIN f = 1 .. n, DOMAIN g = 1 .. n + 1,
           \A k \in 1 .. n + 1 : g[k] \in Int,
           \A k \in 1 .. n : g[k] = f[k]
    PROVE  SumFunction(f) \in Int /\ SumFunction(g) = SumFunction(f) + g[n + 1]
<1>1. IsFiniteSet(1 .. n)
  BY FS_Interval
<1>a. n + 1 \notin 1 .. n /\ 1 .. n + 1 = (1 .. n) \cup {n + 1}
  OBVIOUS
<1>2. SumFunctionOnSet(g, 1 .. n + 1) = SumFunctionOnSet(g, 1 .. n) + g[n + 1]
  BY <1>1, <1>a, SumAdd
<1>3. SumFunctionOnSet(g, 1 .. n) = SumFunctionOnSet(f, 1 .. n)
  BY <1>1, SumAgrees
<1>4. SumFunctionOnSet(f, 1 .. n) \in Int
  BY <1>1, SumInt
<1> QED BY <1>2, <1>3, <1>4 DEF SumFunction

(* Rows of n numbers that differ in the k-th. *)
RowChanged(f, g, n, k) ==
    /\ n \in Nat /\ DOMAIN f = 1 .. n /\ DOMAIN g = 1 .. n /\ k \in 1 .. n
    /\ \A j \in 1 .. n : f[j] \in Int /\ g[j] \in Int
    /\ \A j \in 1 .. n : j # k => g[j] = f[j]

\* What the change does to their sum.
SumMoves(f, g, k) == SumFunction(g) = SumFunction(f) - f[k] + g[k]

(* A changed row replaces its value. *)
LEMMA SumOfChanged ==
    ASSUME NEW n, NEW f, NEW g, NEW k, RowChanged(f, g, n, k)
    PROVE  SumMoves(f, g, k)
<1>a. /\ n \in Nat /\ DOMAIN f = 1 .. n /\ DOMAIN g = 1 .. n /\ k \in 1 .. n
      /\ \A j \in 1 .. n : f[j] \in Int /\ g[j] \in Int
      /\ \A j \in 1 .. n : j # k => g[j] = f[j]
  BY DEF RowChanged
<1>1. IsFiniteSet(1 .. n)
  BY <1>a, FS_Interval
<1>2. SumFunctionOnSet(g, 1 .. n) = SumFunctionOnSet(f, 1 .. n) - f[k] + g[k]
  BY <1>1, <1>a, SumChange
<1> QED BY <1>a, <1>2 DEF SumFunction, SumMoves

(* Smaller values have a smaller sum. *)
LEMMA SumOfSmaller ==
    ASSUME NEW n \in Nat, NEW f, NEW g, DOMAIN f = 1 .. n, DOMAIN g = 1 .. n,
           \A j \in 1 .. n : f[j] \in Nat /\ g[j] \in Nat /\ g[j] <= f[j]
    PROVE  SumFunction(f) \in Nat /\ SumFunction(g) \in Nat /\ SumFunction(g) <= SumFunction(f)
<1>1. IsFiniteSet(1 .. n)
  BY FS_Interval
<1>2. SumFunctionOnSet(g, 1 .. n) <= SumFunctionOnSet(f, 1 .. n)
  BY <1>1, SumShrinks
<1>3. SumFunctionOnSet(f, 1 .. n) \in Nat /\ SumFunctionOnSet(g, 1 .. n) \in Nat
  BY <1>1, SumNat
<1> QED BY <1>2, <1>3 DEF SumFunction

-----------------------------------------------------------------------------
(* Types. *)
DeskStates == OpenStates \cup {"filled", "risk_rejected", "cancelled"}

DeskOrders ==
    [instrument : Instruments, side : Sides, quantity : Nat \ {0}, filled : Nat, day : Nat,
     price : Int, state : DeskStates, cash : Int, shares : Nat, outbox : BOOLEAN]

DeskFills ==
    [order : Nat, id : Nat, instrument : Instruments, side : Sides, day : Nat,
     quantity : Nat \ {0}, price : Nat, fee : Nat, tax : Nat, at : Nat]

DeskCommands == [instrument : Instruments, side : Sides, quantity : Nat \ {0}]

Cycles ==
    [job : 0 .. 5, holds : BOOLEAN, target : TargetSets \cup {NoTarget}, todo : SUBSET DeskCommands]

DeskTyped ==
    /\ markets \in Seq(Markets)
    /\ wanted \in TargetSets \cup {NoTarget}
    /\ cycle \in Cycles
    /\ orders \in Seq(DeskOrders)
    /\ fills \in Seq(DeskFills)
    /\ portfolio \in [nav : Int, available : Int, held : [Instruments -> Int], covers : Nat]
    /\ limit \in [Instruments -> Int]
    /\ blind \in BOOLEAN

(* No process is at work before the first day. *)
CycleSound == cycle.job # 0 => Len(markets) > 0

(* What an order has filled, and what a sale has reserved for the rest. *)
OrderSound(o) ==
    /\ o.filled <= o.quantity
    /\ o.state = "submit_pending" => o.filled = 0
    /\ o.side = "sell" /\ o.state \in LiveStates => Remaining(o) <= o.shares

OrdersSound == \A k \in DOMAIN orders : OrderSound(orders[k])

FillSound(f) == f.day \in 1 .. Today /\ (f.side = "buy" => f.tax = 0)

FillsOfThePast == \A n \in DOMAIN fills : FillSound(fills[n])

(* A portfolio that has seen every fill holds what they amount to. *)
PortfolioTrue ==
    /\ portfolio.covers <= Len(fills)
    /\ portfolio.covers = Len(fills) => \A i \in Instruments : portfolio.held[i] = TrueHolding(i)

(* Commands wait only between sizing and queueing, one for an instrument, and those to buy
   are within the limit. *)
CommandsWithin ==
    cycle.todo # {} =>
        /\ cycle.job = 2 /\ cycle.holds
        /\ \A c, d \in cycle.todo : c.instrument = d.instrument => c = d
        /\ ~blind =>
            /\ portfolio.covers = Len(fills)
            /\ \A c \in cycle.todo : c.side = "buy" =>
                 TrueHolding(c.instrument) + LiveQuantity("buy", c.instrument) + c.quantity
                    <= limit[c.instrument]

DeskInvariant ==
    /\ DeskTyped /\ CycleSound /\ OrdersSound /\ FillsOfThePast /\ PortfolioTrue
    /\ CommandsWithin /\ NeverBeyondTarget

-----------------------------------------------------------------------------
(* What is held, open and live. *)
MoveOf(f, i) == IF f.instrument = i THEN Change(f.side, f.quantity) ELSE 0

LiveOf(o, side, i) ==
    IF o.state \in LiveStates /\ o.instrument = i /\ o.side = side THEN Remaining(o) ELSE 0

OpenOf(o, side, i) ==
    IF o.state \in OpenStates /\ o.instrument = i /\ o.side = side THEN Remaining(o) ELSE 0

SharesOf(o, i) == IF o.instrument = i /\ o.side = "sell" THEN o.shares ELSE 0

LEMMA TrueHoldingIs ==
    ASSUME NEW i
    PROVE  TrueHolding(i) = SumFunction([k \in DOMAIN fills |-> MoveOf(fills[k], i)])
BY DEF TrueHolding, SumOver, MoveOf

LEMMA LiveQuantityIs ==
    ASSUME NEW side, NEW i
    PROVE  LiveQuantity(side, i) = SumFunction([k \in DOMAIN orders |-> LiveOf(orders[k], side, i)])
BY DEF LiveQuantity, SumOver, LiveOf

LEMMA OpenQuantityIs ==
    ASSUME NEW side, NEW i
    PROVE  OpenQuantity(side, i) = SumFunction([k \in DOMAIN orders |-> OpenOf(orders[k], side, i)])
BY DEF OpenQuantity, SumOver, OpenOf

LEMMA ReservedSharesIs ==
    ASSUME NEW i
    PROVE  ReservedShares(i) = SumFunction([k \in DOMAIN orders |-> SharesOf(orders[k], i)])
BY DEF ReservedShares, SumOver, SharesOf

(* What counts of an order is a natural. *)
LEMMA OrderNumbers ==
    ASSUME NEW o \in DeskOrders, OrderSound(o), NEW i
    PROVE  /\ Remaining(o) \in Nat
           /\ \A side : /\ LiveOf(o, side, i) \in Nat /\ OpenOf(o, side, i) \in Nat
                        /\ LiveOf(o, side, i) <= OpenOf(o, side, i)
           /\ SharesOf(o, i) \in Nat /\ LiveOf(o, "sell", i) <= SharesOf(o, i)
<1>1. /\ o.quantity \in Nat /\ o.filled \in Nat /\ o.shares \in Nat
  BY DEF DeskOrders
<1>2. Remaining(o) \in Nat
  BY <1>1 DEF Remaining, OrderSound
<1>3. LiveStates \subseteq OpenStates
  BY DEF LiveStates
<1> QED BY <1>1, <1>2, <1>3 DEF LiveOf, OpenOf, SharesOf, OrderSound

(* The orders, by their number. *)
LEMMA OrderRows ==
    ASSUME DeskTyped, OrdersSound
    PROVE  /\ Len(orders) \in Nat /\ DOMAIN orders = 1 .. Len(orders)
           /\ \A k \in 1 .. Len(orders) : orders[k] \in DeskOrders /\ OrderSound(orders[k])
<1>1. orders \in Seq(DeskOrders)
  BY DEF DeskTyped
<1>2. \A k \in DOMAIN orders : OrderSound(orders[k])
  BY DEF OrdersSound
<1> QED BY ONLY <1>1, <1>2

(* The open orders of the desk are naturals, live ones are open, and what may be sold is reserved. *)
LEMMA OrderSums ==
    ASSUME DeskTyped, OrdersSound, NEW i
    PROVE  /\ \A side : /\ LiveQuantity(side, i) \in Nat /\ OpenQuantity(side, i) \in Nat
                        /\ LiveQuantity(side, i) <= OpenQuantity(side, i)
           /\ ReservedShares(i) \in Nat /\ LiveQuantity("sell", i) <= ReservedShares(i)
<1>1. PICK n \in Nat : n = Len(orders)
  BY OrderRows
<1>2. DOMAIN orders = 1 .. n /\ \A k \in 1 .. n : orders[k] \in DeskOrders /\ OrderSound(orders[k])
  BY <1>1, OrderRows
<1>3. ASSUME NEW side
      PROVE  /\ LiveQuantity(side, i) \in Nat /\ OpenQuantity(side, i) \in Nat
             /\ LiveQuantity(side, i) <= OpenQuantity(side, i)
  <2> DEFINE g == [k \in DOMAIN orders |-> LiveOf(orders[k], side, i)]
             f == [k \in DOMAIN orders |-> OpenOf(orders[k], side, i)]
  <2>1. \A j \in 1 .. n : f[j] \in Nat /\ g[j] \in Nat /\ g[j] <= f[j]
    BY <1>2, OrderNumbers
  <2>2. DOMAIN f = 1 .. n /\ DOMAIN g = 1 .. n
    BY <1>2
  <2>3. LiveQuantity(side, i) = SumFunction(g) /\ OpenQuantity(side, i) = SumFunction(f)
    BY LiveQuantityIs, OpenQuantityIs
  <2> HIDE DEF f, g
  <2> QED BY <2>1, <2>2, <2>3, SumOfSmaller
<1>4. ReservedShares(i) \in Nat /\ LiveQuantity("sell", i) <= ReservedShares(i)
  <2> DEFINE g == [k \in DOMAIN orders |-> LiveOf(orders[k], "sell", i)]
             f == [k \in DOMAIN orders |-> SharesOf(orders[k], i)]
  <2>1. \A j \in 1 .. n : f[j] \in Nat /\ g[j] \in Nat /\ g[j] <= f[j]
    BY <1>2, OrderNumbers
  <2>2. DOMAIN f = 1 .. n /\ DOMAIN g = 1 .. n
    BY <1>2
  <2>3. LiveQuantity("sell", i) = SumFunction(g) /\ ReservedShares(i) = SumFunction(f)
    BY LiveQuantityIs, ReservedSharesIs
  <2> HIDE DEF f, g
  <2> QED BY <2>1, <2>2, <2>3, SumOfSmaller
<1> QED BY <1>3, <1>4

(* A fill moves what is held. *)
LEMMA MoveInt ==
    ASSUME NEW f \in DeskFills, NEW i PROVE MoveOf(f, i) \in Int
BY DEF DeskFills, MoveOf, Change

LEMMA HoldingInt ==
    ASSUME DeskTyped, NEW i PROVE TrueHolding(i) \in Int
<1>1. PICK n \in Nat : n = Len(fills)
  BY DEF DeskTyped
<1>2. DOMAIN fills = 1 .. n /\ \A k \in 1 .. n : fills[k] \in DeskFills
  BY <1>1 DEF DeskTyped
<1> DEFINE f == [k \in DOMAIN fills |-> MoveOf(fills[k], i)]
<1>3. DOMAIN f = 1 .. n /\ TrueHolding(i) = SumFunction(f) /\ \A k \in 1 .. n : f[k] \in Int
  BY <1>2, MoveInt, TrueHoldingIs
<1> HIDE DEF f
<1> QED BY <1>3, FS_Interval, SumInt DEF SumFunction

LEMMA HoldingAfterFill ==
    ASSUME DeskTyped, NEW e \in DeskFills, fills' = Append(fills, e), NEW i
    PROVE  TrueHolding(i)' = TrueHolding(i) + MoveOf(e, i)
<1>1. PICK n \in Nat : n = Len(fills)
  BY DEF DeskTyped
<1>2. DOMAIN fills = 1 .. n /\ \A k \in 1 .. n : fills[k] \in DeskFills
  BY <1>1 DEF DeskTyped
<1>3. /\ DOMAIN fills' = 1 .. n + 1 /\ fills'[n + 1] = e
      /\ \A k \in 1 .. n : fills'[k] = fills[k]
  BY <1>1, <1>2 DEF DeskTyped
<1> DEFINE f == [k \in DOMAIN fills |-> MoveOf(fills[k], i)]
           g == [k \in DOMAIN fills' |-> MoveOf(fills'[k], i)]
<1>4. /\ DOMAIN f = 1 .. n /\ DOMAIN g = 1 .. n + 1 /\ g[n + 1] = MoveOf(e, i)
      /\ \A k \in 1 .. n + 1 : g[k] \in Int
      /\ \A k \in 1 .. n : g[k] = f[k]
  BY <1>2, <1>3, MoveInt
<1>5. TrueHolding(i) = SumFunction(f)
  BY TrueHoldingIs
<1>6. TrueHolding(i)' = SumFunction(g)
  BY DEF TrueHolding, SumOver, MoveOf
<1> HIDE DEF f, g
<1> QED BY <1>4, <1>5, <1>6, SumOfAppended

(* A new order adds what counts of it. *)
LEMMA LiveAfterOrder ==
    ASSUME DeskTyped, OrdersSound, NEW o \in DeskOrders, OrderSound(o), orders' = Append(orders, o),
           NEW side, NEW i
    PROVE  LiveQuantity(side, i)' = LiveQuantity(side, i) + LiveOf(o, side, i)
<1>1. PICK n \in Nat : n = Len(orders)
  BY OrderRows
<1>2. DOMAIN orders = 1 .. n /\ \A k \in 1 .. n : orders[k] \in DeskOrders /\ OrderSound(orders[k])
  BY <1>1, OrderRows
<1>3. /\ DOMAIN orders' = 1 .. n + 1 /\ orders'[n + 1] = o
      /\ \A k \in 1 .. n : orders'[k] = orders[k]
  BY <1>1, <1>2 DEF DeskTyped
<1> DEFINE f == [k \in DOMAIN orders |-> LiveOf(orders[k], side, i)]
           g == [k \in DOMAIN orders' |-> LiveOf(orders'[k], side, i)]
<1>4. /\ DOMAIN f = 1 .. n /\ DOMAIN g = 1 .. n + 1 /\ g[n + 1] = LiveOf(o, side, i)
      /\ \A k \in 1 .. n + 1 : g[k] \in Int
      /\ \A k \in 1 .. n : g[k] = f[k]
  <2>1. \A k \in 1 .. n : LiveOf(orders[k], side, i) \in Nat
    BY <1>2, OrderNumbers
  <2>2. LiveOf(o, side, i) \in Nat
    BY OrderNumbers
  <2> QED BY <1>2, <1>3, <2>1, <2>2
<1>5. LiveQuantity(side, i) = SumFunction(f)
  BY LiveQuantityIs
<1>6. LiveQuantity(side, i)' = SumFunction(g)
  BY DEF LiveQuantity, SumOver, LiveOf, Remaining
<1> HIDE DEF f, g
<1> QED BY <1>4, <1>5, <1>6, SumOfAppended

(* A changed order counts for what it is now. *)
LEMMA LiveAfterChange ==
    ASSUME DeskTyped, OrdersSound, NEW k \in DOMAIN orders, NEW o \in DeskOrders, OrderSound(o),
           orders' = [orders EXCEPT ![k] = o], NEW side, NEW i
    PROVE  LiveQuantity(side, i)' = LiveQuantity(side, i) - LiveOf(orders[k], side, i)
                                        + LiveOf(o, side, i)
<1>1. PICK n \in Nat : n = Len(orders)
  BY OrderRows
<1>2. DOMAIN orders = 1 .. n /\ \A j \in 1 .. n : orders[j] \in DeskOrders /\ OrderSound(orders[j])
  BY <1>1, OrderRows
<1>3. /\ DOMAIN orders' = 1 .. n /\ orders'[k] = o
      /\ \A j \in 1 .. n : j # k => orders'[j] = orders[j]
  BY <1>1, <1>2 DEF DeskTyped
<1> DEFINE f == [j \in DOMAIN orders |-> LiveOf(orders[j], side, i)]
           g == [j \in DOMAIN orders' |-> LiveOf(orders'[j], side, i)]
<1>4. /\ DOMAIN f = 1 .. n /\ DOMAIN g = 1 .. n /\ g[k] = LiveOf(o, side, i)
      /\ f[k] = LiveOf(orders[k], side, i) /\ k \in 1 .. n
      /\ \A j \in 1 .. n : f[j] \in Int /\ g[j] \in Int
      /\ \A j \in 1 .. n : j # k => g[j] = f[j]
  <2>1. \A j \in 1 .. n : LiveOf(orders[j], side, i) \in Nat
    BY <1>2, OrderNumbers
  <2>2. LiveOf(o, side, i) \in Nat
    BY OrderNumbers
  <2> QED BY <1>2, <1>3, <2>1, <2>2
<1>5. LiveQuantity(side, i) = SumFunction(f)
  BY LiveQuantityIs
<1>6. LiveQuantity(side, i)' = SumFunction(g)
  BY DEF LiveQuantity, SumOver, LiveOf, Remaining
<1> HIDE DEF f, g
<1>7. RowChanged(f, g, n, k)
  BY ONLY <1>1, <1>4 DEF RowChanged
<1>8. SumMoves(f, g, k)
  BY ONLY <1>7, SumOfChanged, Zenon
<1>9. f[k] = LiveOf(orders[k], side, i) /\ g[k] = LiveOf(o, side, i)
  BY <1>4
<1> QED BY ONLY <1>5, <1>6, <1>8, <1>9 DEF SumMoves

-----------------------------------------------------------------------------
(* The replay of the fills (operations/accounting.py project). *)
Moves(i) == [n \in DOMAIN fills |-> MoveOf(fills[n], i)]

\* The fills that the replay has met when it is at the k-th of day d.
Seen(d, k) ==
    {n \in DOMAIN fills : fills[n].day < d \/ (fills[n].day = d /\ n <= k)}

HeldBy(S, i) == SumFunctionOnSet(Moves(i), S)

\* A ledger that holds what these fills amount to.
Replays(l, d, k) ==
    /\ LedgerTyped(l)
    /\ \A i \in Instruments : l.positions[i].quantity = HeldBy(Seen(d, k), i)

\* The ledgers of a day, between the first n fills.
FillReplay(f, l, n, d) ==
    f = [k \in 0 .. n |-> IF k = 0 THEN ProcessSettlements(l, d, 10 * d)
                          ELSE ReplayDeskFill(f[k - 1], k, d)]

LEMMA FillReplayExists ==
    ASSUME NEW l, NEW d, NEW n \in Nat
    PROVE  \E f : FillReplay(f, l, n, d)
<1> DEFINE bad == {k \in Nat : ~\E f : FillReplay(f, l, k, d)}
           start == ProcessSettlements(l, d, 10 * d)
<1> SUFFICES ASSUME bad # {} PROVE FALSE
  OBVIOUS
<1>1. PICK k \in bad : \A j \in bad : k <= j
  BY LeastNumber
<1>2. CASE k = 0
  <2> DEFINE f == [j \in 0 .. 0 |-> start]
  <2>1. f = [j \in 0 .. 0 |-> IF j = 0 THEN start ELSE ReplayDeskFill(f[j - 1], j, d)]
    OBVIOUS
  <2> HIDE DEF f
  <2>2. FillReplay(f, l, k, d)
    BY <1>2, <2>1 DEF FillReplay
  <2> QED BY <2>2
<1>3. CASE k # 0
  <2>1. k - 1 \in Nat /\ k - 1 \notin bad
    BY <1>1, <1>3
  <2>2. PICK g : FillReplay(g, l, k - 1, d)
    BY <2>1
  <2> DEFINE f == [j \in 0 .. k |-> IF j = k THEN ReplayDeskFill(g[k - 1], k, d) ELSE g[j]]
  <2>3. \A j \in 0 .. k - 1 : g[j] = IF j = 0 THEN start ELSE ReplayDeskFill(g[j - 1], j, d)
    BY <2>2, Zenon DEF FillReplay
  <2> HIDE DEF start
  <2>4. \A j \in 0 .. k : f[j] = IF j = 0 THEN start ELSE ReplayDeskFill(f[j - 1], j, d)
    <3> SUFFICES ASSUME NEW j \in 0 .. k
                 PROVE  f[j] = IF j = 0 THEN start ELSE ReplayDeskFill(f[j - 1], j, d)
      OBVIOUS
    <3>1. CASE j = k
      <4>1. f[j] = ReplayDeskFill(g[k - 1], k, d) /\ f[j - 1] = g[k - 1]
        BY <1>1, <1>3, <3>1
      <4> HIDE DEF f
      <4> QED BY <1>3, <3>1, <4>1
    <3>2. CASE j # k
      <4>1. j \in 0 .. k - 1 /\ f[j] = g[j]
        BY <1>1, <3>2
      <4>2. j # 0 => f[j - 1] = g[j - 1]
        BY <1>1, <4>1
      <4> HIDE DEF f
      <4> QED BY <2>3, <4>1, <4>2
    <3> QED BY <3>1, <3>2
  <2>5. DOMAIN f = 0 .. k /\ f = [j \in DOMAIN f |-> f[j]]
    OBVIOUS
  <2> HIDE DEF f
  <2>6. FillReplay(f, l, k, d)
    BY <2>4, <2>5 DEF FillReplay, start
  <2> QED BY <2>6
<1> QED BY <1>2, <1>3

(* The replay of one more fill: it counts on its day and is passed over on others. *)
LEMMA SeenNext ==
    ASSUME DeskTyped, FillsOfThePast, NEW d \in Nat, NEW k \in DOMAIN fills, NEW i \in Instruments
    PROVE  /\ IF fills[k].day = d
              THEN HeldBy(Seen(d, k), i) = HeldBy(Seen(d, k - 1), i) + MoveOf(fills[k], i)
              ELSE Seen(d, k) = Seen(d, k - 1)
<1>1. PICK n \in Nat : n = Len(fills)
  BY DEF DeskTyped
<1>2. DOMAIN fills = 1 .. n /\ \A j \in 1 .. n : fills[j] \in DeskFills /\ fills[j].day \in Nat
  <2>1. fills \in Seq(DeskFills)
    BY DEF DeskTyped
  <2>2. \A e \in DeskFills : e.day \in Nat
    BY DEF DeskFills
  <2> QED BY ONLY <1>1, <2>1, <2>2
<1>3. CASE fills[k].day # d
  <2>1. Seen(d, k) = Seen(d, k - 1)
    BY <1>2, <1>3 DEF Seen
  <2> QED BY <1>3, <2>1
<1>4. CASE fills[k].day = d
  <2>1. Seen(d, k) = Seen(d, k - 1) \cup {k} /\ k \notin Seen(d, k - 1)
        /\ Seen(d, k - 1) \subseteq 1 .. n
    BY <1>2, <1>4 DEF Seen
  <2>2. IsFiniteSet(Seen(d, k - 1))
    <3>1. IsFiniteSet(1 .. n)
      BY FS_Interval
    <3> QED BY <2>1, <3>1, FS_Subset
  <2> DEFINE f == Moves(i)
  <2>3. \A j \in 1 .. n : f[j] = MoveOf(fills[j], i) /\ f[j] \in Int
    BY <1>2, MoveInt DEF Moves
  <2> HIDE DEF f
  <2>4. SumFunctionOnSet(f, Seen(d, k)) = SumFunctionOnSet(f, Seen(d, k - 1)) + f[k]
    BY <1>2, <2>1, <2>2, <2>3, SumAdd
  <2> QED BY <1>2, <1>4, <2>3, <2>4 DEF HeldBy, f
<1> QED BY <1>3, <1>4

(* A fill is a fill of the ledger. *)
LEMMA DeskFillTyped ==
    ASSUME DeskTyped, FillsOfThePast, NEW k \in DOMAIN fills
    PROVE  FillTyped(fills[k]) /\ fills[k] \in DeskFills
<1>1. fills[k] \in DeskFills /\ FillSound(fills[k])
  BY DEF DeskTyped, FillsOfThePast
<1> QED BY <1>1 DEF DeskFills, FillTyped, FillSound, OrderIds

LEMMA ReplayFillFacts ==
    ASSUME DeskTyped, FillsOfThePast, NEW d \in Nat, NEW k \in DOMAIN fills, NEW l,
           Good(ReplayDeskFill(l, k, d))
    PROVE  Good(l) /\ (Replays(l, d, k - 1) => Replays(ReplayDeskFill(l, k, d), d, k))
<1>1. FillTyped(fills[k]) /\ fills[k] \in DeskFills
  BY DeskFillTyped
<1>2. CASE fills[k].day # d
  <2>1. ReplayDeskFill(l, k, d) = l
    BY <1>2 DEF ReplayDeskFill
  <2>2. \A i \in Instruments : Seen(d, k) = Seen(d, k - 1)
    BY <1>2, SeenNext
  <2> QED BY <2>1, <2>2 DEF Replays
<1>3. CASE fills[k].day = d
  <2> DEFINE m == ApplyFill(l, fills[k], d, DeskHorizon)
  <2>1. ReplayDeskFill(l, k, d) = m /\ Good(m)
    BY <1>3 DEF ReplayDeskFill
  <2>2. Good(l)
    <3>1. ~Good(l) => m = l
      BY DEF ApplyFill
    <3> QED BY <2>1, <3>1
  <2>3. ASSUME Replays(l, d, k - 1) PROVE Replays(m, d, k)
    <3>1. LedgerTyped(l) /\ DeskHorizon \in Nat
      BY <2>3, DeskAssumption DEF Replays
    <3>2. LedgerTyped(m) /\ SharesAfter(l, m, fills[k].instrument, Moved(fills[k]))
      BY <1>1, <2>1, <3>1, FillFacts
    <3> HIDE DEF m
    <3>3. ASSUME NEW i \in Instruments
          PROVE  m.positions[i].quantity = HeldBy(Seen(d, k), i)
      <4>1. HeldBy(Seen(d, k), i) = HeldBy(Seen(d, k - 1), i) + MoveOf(fills[k], i)
        BY <1>3, <3>3, SeenNext
      <4>2. m.positions[i].quantity = l.positions[i].quantity
                + (IF i = fills[k].instrument THEN Moved(fills[k]) ELSE 0)
        BY <3>2, <3>3 DEF SharesAfter
      <4>3. MoveOf(fills[k], i) = IF i = fills[k].instrument THEN Moved(fills[k]) ELSE 0
        BY DEF MoveOf, Moved, Change
      <4>4. l.positions[i].quantity = HeldBy(Seen(d, k - 1), i)
        BY <2>3, <3>3 DEF Replays
      <4> QED BY ONLY <4>1, <4>2, <4>3, <4>4
    <3> QED BY <3>2, <3>3 DEF Replays
  <2> QED BY <2>1, <2>2, <2>3
<1> QED BY <1>2, <1>3

(* The replay of a day. *)
LEMMA ReplayDayFacts ==
    ASSUME DeskTyped, FillsOfThePast, NEW d \in 1 .. Today, NEW l, Good(ReplayDay(l, d))
    PROVE  /\ Good(l)
           /\ Replays(l, d, 0) => Replays(ReplayDay(l, d), d, Len(fills))
<1>a. Good(l)
  <2>1. ~Good(l) => ReplayDay(l, d) = l
    BY DEF ReplayDay
  <2> QED BY <2>1
<1> SUFFICES ASSUME Replays(l, d, 0)
             PROVE  Replays(ReplayDay(l, d), d, Len(fills))
  BY <1>a
<1> DEFINE n == Len(fills)
           f == CHOOSE f : FillReplay(f, l, n, d)
           price == [i \in Instruments |-> markets[d][i].price]
           marked == MarkAll(f[n], price)
           bad == {k \in 0 .. n : Good(f[k]) /\ ~Replays(f[k], d, k)}
<1>1. n \in Nat /\ DOMAIN fills = 1 .. n /\ Today \in Nat /\ d \in Nat
  BY DEF DeskTyped, Today
<1>2. FillReplay(f, l, n, d)
  BY <1>1, FillReplayExists
<1>3. ReplayDay(l, d) = AgeUnmarked(marked, Instruments)
  BY <1>a DEF ReplayDay, FillReplay
<1> HIDE DEF f
<1>4. \A k \in 0 .. n : f[k] = IF k = 0 THEN ProcessSettlements(l, d, 10 * d)
                               ELSE ReplayDeskFill(f[k - 1], k, d)
  BY <1>2, Zenon DEF FillReplay
<1>5. bad = {}
  <2> SUFFICES ASSUME bad # {} PROVE FALSE
    OBVIOUS
  <2>1. bad \subseteq Nat
    BY <1>1
  <2>2. PICK k \in bad : \A j \in bad : k <= j
    BY <2>1, LeastNumber
  <2>3. CASE k = 0
    <3>1. f[k] = ProcessSettlements(l, d, 10 * d) /\ Good(f[k])
      BY <1>1, <1>4, <2>2, <2>3
    <3>2. SettledFrom(l, f[k])
      BY <1>1, <3>1, SettlementFacts DEF Replays
    <3> QED BY <2>2, <2>3, <3>2 DEF Replays, SettledFrom
  <2>4. CASE k # 0
    <3>1. k \in DOMAIN fills /\ k - 1 \in 0 .. n /\ f[k] = ReplayDeskFill(f[k - 1], k, d)
      BY <1>1, <1>4, <2>2, <2>4
    <3>2. k - 1 \notin bad
      BY <1>1, <2>2, <2>4
    <3>3. Good(f[k]) /\ ~Replays(f[k], d, k)
      BY <2>2
    <3>4. Good(f[k - 1]) /\ (Replays(f[k - 1], d, k - 1) => Replays(f[k], d, k))
      BY <1>1, <3>1, <3>3, ReplayFillFacts
    <3> QED BY <3>1, <3>2, <3>3, <3>4
  <2> QED BY <2>3, <2>4
<1> DEFINE m == ReplayDay(l, d)
           t == f[n]
<1>6. Good(t) => Replays(t, d, n)
  BY <1>1, <1>5
<1> HIDE DEF t
<1>7. \A i \in Instruments \cap DOMAIN price : price[i] \in Int
  <2>1. markets[d] \in Markets
    BY DEF DeskTyped, Today
  <2> QED BY <2>1, DeskAssumption DEF ValidMarket
<1> HIDE DEF price
<1>8. Good(marked)
  <2>1. ~Good(marked) => AgeUnmarked(marked, Instruments) = marked
    BY DEF AgeUnmarked
  <2> QED BY <1>3, <2>1
<1>9. Good(t)
  BY <1>8 DEF MarkAll, Good, t
<1>10. LedgerTyped(t) /\ Replays(t, d, n)
  BY <1>6, <1>9 DEF Replays
<1>11. /\ LedgerTyped(marked)
       /\ \A i \in Instruments : marked.positions[i].quantity = t.positions[i].quantity
  BY <1>7, <1>10, MarkFacts DEF SameCash, t
<1> HIDE DEF marked
<1>12. /\ LedgerTyped(m)
       /\ \A i \in Instruments : m.positions[i].quantity = marked.positions[i].quantity
  BY <1>3, <1>11, AgeFacts DEF SameCash
<1> QED BY <1>10, <1>11, <1>12 DEF Replays, m

(* The ledgers between the days. *)
DaysReplay(f, n) ==
    f = [d \in 0 .. n |-> IF d = 0 THEN OpenLedger(DeskCash, 0) ELSE ReplayDay(f[d - 1], d)]

LEMMA DaysReplayExists ==
    ASSUME NEW n \in Nat
    PROVE  \E f : DaysReplay(f, n)
<1> DEFINE bad == {d \in Nat : ~\E f : DaysReplay(f, d)}
           start == OpenLedger(DeskCash, 0)
<1> SUFFICES ASSUME bad # {} PROVE FALSE
  OBVIOUS
<1>1. PICK d \in bad : \A j \in bad : d <= j
  BY LeastNumber
<1>2. CASE d = 0
  <2> DEFINE f == [j \in 0 .. 0 |-> start]
  <2>1. f = [j \in 0 .. 0 |-> IF j = 0 THEN start ELSE ReplayDay(f[j - 1], j)]
    OBVIOUS
  <2> HIDE DEF f
  <2>2. DaysReplay(f, d)
    BY <1>2, <2>1 DEF DaysReplay
  <2> QED BY <2>2
<1>3. CASE d # 0
  <2>1. d - 1 \in Nat /\ d - 1 \notin bad
    BY <1>1, <1>3
  <2>2. PICK g : DaysReplay(g, d - 1)
    BY <2>1
  <2> DEFINE f == [j \in 0 .. d |-> IF j = d THEN ReplayDay(g[d - 1], d) ELSE g[j]]
  <2>3. \A j \in 0 .. d - 1 : g[j] = IF j = 0 THEN start ELSE ReplayDay(g[j - 1], j)
    BY <2>2, Zenon DEF DaysReplay
  <2> HIDE DEF start
  <2>4. \A j \in 0 .. d : f[j] = IF j = 0 THEN start ELSE ReplayDay(f[j - 1], j)
    <3> SUFFICES ASSUME NEW j \in 0 .. d
                 PROVE  f[j] = IF j = 0 THEN start ELSE ReplayDay(f[j - 1], j)
      OBVIOUS
    <3>1. CASE j = d
      <4>1. f[j] = ReplayDay(g[d - 1], d) /\ f[j - 1] = g[d - 1]
        BY <1>1, <1>3, <3>1
      <4> HIDE DEF f
      <4> QED BY <1>3, <3>1, <4>1
    <3>2. CASE j # d
      <4>1. j \in 0 .. d - 1 /\ f[j] = g[j]
        BY <1>1, <3>2
      <4>2. j # 0 => f[j - 1] = g[j - 1]
        BY <1>1, <4>1
      <4> HIDE DEF f
      <4> QED BY <2>3, <4>1, <4>2
    <3> QED BY <3>1, <3>2
  <2>5. DOMAIN f = 0 .. d /\ f = [j \in DOMAIN f |-> f[j]]
    OBVIOUS
  <2> HIDE DEF f
  <2>6. DaysReplay(f, d)
    BY <2>4, <2>5 DEF DaysReplay, start
  <2> QED BY <2>6
<1> QED BY <1>2, <1>3

(* Before the first day no fill has been met, between two days those of the past, and after
   today all. *)
LEMMA SeenFacts ==
    ASSUME DeskTyped, FillsOfThePast, NEW d \in Nat
    PROVE  /\ Seen(1, 0) = {} /\ Seen(d + 1, 0) = Seen(d, Len(fills))
           /\ Seen(Today, Len(fills)) = DOMAIN fills
<1>1. fills \in Seq(DeskFills) /\ Len(fills) \in Nat /\ DOMAIN fills = 1 .. Len(fills)
  BY DEF DeskTyped
<1>2. \A n \in DOMAIN fills : fills[n].day \in 1 .. Today
  BY DEF FillsOfThePast, FillSound
<1>3. Today \in Nat
  BY DEF DeskTyped, Today
<1>4. ASSUME NEW n \in DOMAIN fills
      PROVE  n \in 1 .. Len(fills) /\ fills[n].day \in 1 .. Today /\ n \in Nat /\ fills[n].day \in Nat
  BY <1>1, <1>2, <1>3, <1>4
<1> HIDE DEF Today
<1>5. Seen(1, 0) = {}
  BY <1>3, <1>4 DEF Seen
<1>6. Seen(d + 1, 0) = Seen(d, Len(fills))
  BY <1>1, <1>3, <1>4 DEF Seen
<1>7. Seen(Today, Len(fills)) = DOMAIN fills
  BY <1>1, <1>3, <1>4 DEF Seen
<1> QED BY <1>5, <1>6, <1>7

(* A replay of the past that goes through holds what the fills amount to. *)
LEMMA ProjectionFacts ==
    ASSUME DeskTyped, FillsOfThePast, Good(Projection)
    PROVE  /\ LedgerTyped(Projection)
           /\ \A i \in Instruments : Projection.positions[i].quantity = TrueHolding(i)
<1> DEFINE n == Len(fills)
           f == CHOOSE f : DaysReplay(f, Today)
           bad == {d \in 1 .. Today : Good(f[d]) /\ ~Replays(f[d], d, n)}
<1>1. n \in Nat /\ Today \in Nat
  BY DEF DeskTyped, Today
<1>2. DaysReplay(f, Today)
  BY <1>1, DaysReplayExists
<1>3. Replayed = f[Today]
  BY DEF Replayed, DaysReplay
<1> HIDE DEF f
<1>4. \A d \in 0 .. Today : f[d] = IF d = 0 THEN OpenLedger(DeskCash, 0) ELSE ReplayDay(f[d - 1], d)
  BY <1>2, Zenon DEF DaysReplay
<1>5. Replays(f[0], 1, 0)
  <2>1. f[0] = OpenLedger(DeskCash, 0)
    BY <1>1, <1>4
  <2>2. LedgerTyped(f[0]) /\ \A i \in Instruments : f[0].positions[i].quantity = 0
    <3>1. DeskCash \in Int
      BY DeskAssumption
    <3> QED BY <2>1, <3>1, OpenLedgerFacts
  <2>3. \A i \in Instruments : HeldBy(Seen(1, 0), i) = 0
    BY SeenFacts, SumOfNone DEF HeldBy
  <2> QED BY <2>2, <2>3 DEF Replays
<1>6. bad = {}
  <2> SUFFICES ASSUME bad # {} PROVE FALSE
    OBVIOUS
  <2>1. bad \subseteq Nat
    BY <1>1
  <2>2. PICK d \in bad : \A j \in bad : d <= j
    BY <2>1, LeastNumber
  <2>3. d \in 1 .. Today /\ f[d] = ReplayDay(f[d - 1], d) /\ Good(f[d]) /\ ~Replays(f[d], d, n)
    BY <1>1, <1>4, <2>2
  <2>4. Good(f[d - 1]) /\ ~Replays(f[d - 1], d, 0)
    BY <2>3, ReplayDayFacts
  <2>5. CASE d = 1
    BY <1>5, <2>4, <2>5
  <2>6. CASE d # 1
    <3>1. d - 1 \in 1 .. Today /\ d - 1 \in Nat /\ d = (d - 1) + 1 /\ d - 1 \notin bad
      BY <1>1, <2>2, <2>3, <2>6
    <3>2. Replays(f[d - 1], d - 1, n)
      BY <2>4, <3>1
    <3>3. Seen(d, 0) = Seen(d - 1, n)
      BY <3>1, SeenFacts
    <3> QED BY <2>4, <3>2, <3>3 DEF Replays
  <2> QED BY <2>5, <2>6
<1>7. Good(Replayed)
  <2>1. ~Good(Replayed) => ~Good(Projection)
    BY DEF Projection, Checked, Reconcile
  <2> QED BY <2>1
<1>8. Replays(Replayed, Today, n)
  <2>1. CASE Today = 0
    <3>1. Seen(Today, n) = {} /\ Seen(1, 0) = {}
      <4>1. ASSUME NEW k \in DOMAIN fills PROVE FALSE
        <5>1. fills[k].day \in 1 .. 0
          BY <2>1, <4>1 DEF FillsOfThePast, FillSound
        <5> QED BY <5>1
      <4> QED BY <4>1 DEF Seen
    <3> QED BY <1>3, <1>5, <2>1, <3>1 DEF Replays
  <2>2. CASE Today # 0
    BY <1>1, <1>3, <1>6, <1>7, <2>2
  <2> QED BY <2>1, <2>2
<1>9. Projection = Replayed
  BY <1>8, CheckedFacts DEF Replays, Projection
<1>10. ASSUME NEW i \in Instruments PROVE TrueHolding(i) = HeldBy(Seen(Today, n), i)
  BY <1>1, SeenFacts, TrueHoldingIs DEF HeldBy, Moves, SumFunction
<1> QED BY <1>8, <1>9, <1>10 DEF Replays

-----------------------------------------------------------------------------
(* Steps. *)

(* The jobs by their place. *)
LEMMA BusyIs ==
    ASSUME DeskTyped
    PROVE  /\ Busy("decision") => cycle.job = 1
           /\ Busy("risk") => cycle.job = 2
           /\ Busy("submit") => cycle.job = 3
           /\ Busy("reconcile") => cycle.job = 4
           /\ Busy("mark") => cycle.job = 5
<1>1. cycle.job \in 0 .. 5
  BY DEF DeskTyped, Cycles
<1>2. \A job : Busy(job) => \/ cycle.job = 1 /\ job = "decision"
                            \/ cycle.job = 2 /\ job = "risk"
                            \/ cycle.job = 3 /\ job = "submit"
                            \/ cycle.job = 4 /\ job = "reconcile"
                            \/ cycle.job = 5 /\ job = "mark"
  BY <1>1 DEF Busy, Jobs
<1> QED BY <1>2

LEMMA IdleCycle == Idle \in Cycles /\ Idle.job = 0 /\ Idle.todo = {}
BY DEF Idle, Cycles

LEMMA NextJobFacts ==
    ASSUME cycle \in Cycles, cycle.todo = {}, CycleSound, cycle.job # 0
    PROVE  NextDeskJob \in Cycles /\ NextDeskJob.todo = {} /\ Len(markets) > 0
<1>1. Len(Jobs) = 5
  BY DEF Jobs
<1>2. CASE cycle.job = 5
  BY <1>1, <1>2, IdleCycle DEF NextDeskJob, CycleSound
<1>3. CASE cycle.job # 5
  <2>1. NextDeskJob = [cycle EXCEPT !.job = cycle.job + 1, !.holds = FALSE]
    BY <1>1, <1>3 DEF NextDeskJob
  <2>2. cycle.job + 1 \in 0 .. 5
    BY <1>3 DEF Cycles
  <2> QED BY <2>1, <2>2 DEF Cycles, CycleSound
<1> QED BY <1>2, <1>3

(* Sums of a table that is not touched. *)
LEMMA SameHolding ==
    ASSUME fills' = fills, NEW i PROVE TrueHolding(i)' = TrueHolding(i)
BY DEF TrueHolding, SumOver

LEMMA SameLive ==
    ASSUME orders' = orders, NEW side, NEW i PROVE LiveQuantity(side, i)' = LiveQuantity(side, i)
BY DEF LiveQuantity, SumOver, Remaining

(* A step that leaves no command waiting, and orders, fills, portfolio and limits alone. *)
QuietStep ==
    /\ UNCHANGED <<markets, orders, fills, portfolio, limit, blind>>
    /\ wanted' \in TargetSets \cup {NoTarget}
    /\ cycle' \in Cycles /\ cycle'.todo = {} /\ (cycle'.job # 0 => Len(markets) > 0)

LEMMA QuietKeeps ==
    ASSUME DeskInvariant, QuietStep
    PROVE  DeskInvariant'
<1>1. /\ UNCHANGED <<markets, orders, fills, portfolio, limit, blind>>
      /\ wanted' \in TargetSets \cup {NoTarget}
      /\ cycle' \in Cycles /\ cycle'.todo = {} /\ (cycle'.job # 0 => Len(markets) > 0)
  BY DEF QuietStep
<1>2. DeskTyped' /\ CycleSound'
  BY <1>1 DEF DeskInvariant, DeskTyped, CycleSound
<1>3. OrdersSound'
  BY <1>1 DEF DeskInvariant, OrdersSound, OrderSound, Remaining
<1>4. FillsOfThePast'
  BY <1>1 DEF DeskInvariant, FillsOfThePast, FillSound, Today
<1>5. PortfolioTrue'
  BY <1>1, SameHolding DEF DeskInvariant, PortfolioTrue
<1>6. CommandsWithin'
  BY <1>1 DEF CommandsWithin
<1>7. NeverBeyondTarget'
  BY <1>1, SameHolding, SameLive DEF DeskInvariant, NeverBeyondTarget
<1> QED BY <1>2, <1>3, <1>4, <1>5, <1>6, <1>7 DEF DeskInvariant

(* A process without its row, or at another job than the execution, has no commands. *)
LEMMA NothingTodo ==
    ASSUME DeskInvariant, ~cycle.holds \/ cycle.job # 2 PROVE cycle.todo = {}
BY DEF DeskInvariant, CommandsWithin

(* The steps of the scheduler and of the jobs that decide nothing of the money. *)
LEMMA QuietActions ==
    ASSUME DeskInvariant,
           \/ StartCycle \/ SkipJob \/ ClaimJob \/ ReadTarget \/ EvaluateRisk \/ RiskLimitFails
           \/ OutboxEmpty \/ CrashDesk \/ OperatorResumes
    PROVE  DeskInvariant'
<1>1. /\ cycle \in Cycles /\ CycleSound /\ wanted \in TargetSets \cup {NoTarget}
      /\ DeskTyped /\ markets \in Seq(Markets)
  BY DEF DeskInvariant, DeskTyped
<1>2. CASE StartCycle
  <2>1. UNCHANGED <<markets, orders, fills, portfolio, limit, blind>> /\ wanted' = wanted
    BY <1>2 DEF StartCycle, oms, audit
  <2>2. cycle' \in Cycles /\ cycle'.todo = {}
    <3>1. [Idle EXCEPT !.job = 1] \in Cycles /\ [Idle EXCEPT !.job = 1].todo = {}
      BY IdleCycle DEF Cycles
    <3> QED BY <1>2, <3>1, IdleCycle DEF StartCycle
  <2>3. Len(markets) > 0
    BY <1>1, <1>2 DEF StartCycle
  <2> QED BY <1>1, <2>1, <2>2, <2>3, QuietKeeps DEF QuietStep
<1>3. CASE SkipJob
  <2>1. UNCHANGED <<markets, orders, fills, portfolio, limit, blind>> /\ wanted' = wanted
    BY <1>3 DEF SkipJob, oms, audit
  <2>2. cycle.todo = {}
    BY <1>3, NothingTodo DEF SkipJob
  <2> QED BY <1>1, <1>3, <2>1, <2>2, NextJobFacts, QuietKeeps DEF QuietStep, SkipJob
<1>4. CASE ClaimJob
  <2>1. UNCHANGED <<markets, orders, fills, portfolio, limit, blind>> /\ wanted' = wanted
    BY <1>4 DEF ClaimJob, oms, audit
  <2>2. cycle.todo = {}
    BY <1>4, NothingTodo DEF ClaimJob
  <2>3. cycle' \in Cycles /\ cycle'.todo = {} /\ cycle'.job = cycle.job
    BY <1>1, <1>4, <2>2 DEF ClaimJob, Cycles
  <2> QED BY <1>1, <2>1, <2>3, QuietKeeps DEF QuietStep, CycleSound
<1>5. CASE ReadTarget
  <2>1. UNCHANGED <<markets, orders, fills, portfolio, limit, blind>> /\ wanted' = wanted
    BY <1>5 DEF ReadTarget, oms, audit
  <2>2. cycle.job = 1 /\ cycle.todo = {}
    BY <1>1, <1>5, BusyIs, NothingTodo DEF ReadTarget
  <2>3. NextDeskJob \in Cycles /\ NextDeskJob.todo = {} /\ Len(markets) > 0
    BY <1>1, <2>2, NextJobFacts
  <2>4. cycle' = [NextDeskJob EXCEPT !.target = wanted]
    BY <1>5 DEF ReadTarget, CompleteJob
  <2>5. cycle' \in Cycles /\ cycle'.todo = {}
    BY <1>1, <2>3, <2>4 DEF Cycles
  <2> QED BY <1>1, <2>1, <2>3, <2>5, QuietKeeps DEF QuietStep
<1>6. CASE EvaluateRisk \/ OutboxEmpty
  <2>1. UNCHANGED <<markets, orders, fills, portfolio, limit, blind>> /\ wanted' = wanted
    BY <1>6 DEF EvaluateRisk, OutboxEmpty, oms, audit
  <2>2. cycle.todo = {} /\ cycle.job # 0 /\ cycle' = NextDeskJob
    BY <1>1, <1>6, BusyIs, NothingTodo DEF EvaluateRisk, OutboxEmpty, CompleteJob
  <2> QED BY <1>1, <2>1, <2>2, NextJobFacts, QuietKeeps DEF QuietStep
<1>7. CASE RiskLimitFails \/ CrashDesk
  <2>1. UNCHANGED <<markets, orders, fills, portfolio, limit, blind>> /\ wanted' = wanted
        /\ cycle' = Idle
    BY <1>7 DEF RiskLimitFails, CrashDesk, FailJob, oms, audit
  <2> QED BY <1>1, <2>1, IdleCycle, QuietKeeps DEF QuietStep
<1>8. CASE OperatorResumes
  <2>1. UNCHANGED <<markets, orders, fills, portfolio, limit, blind>> /\ wanted' = wanted
        /\ cycle' = Idle
    BY <1>8 DEF OperatorResumes, oms, audit
  <2> QED BY <1>1, <2>1, IdleCycle, QuietKeeps DEF QuietStep
<1> QED BY <1>2, <1>3, <1>4, <1>5, <1>6, <1>7, <1>8

(* A new day has a market of its own; nobody is at work. *)
LEMMA DayKeeps ==
    ASSUME DeskInvariant, StartDay
    PROVE  DeskInvariant'
<1>1. PICK m \in Markets : markets' = Append(markets, m)
  BY DEF StartDay
<1>2. /\ UNCHANGED <<orders, fills, portfolio, limit, blind, cycle>> /\ wanted' \in TargetSets
      /\ cycle = Idle
  BY DEF StartDay, oms, audit
<1>3. markets \in Seq(Markets) /\ Today \in Nat
  BY DEF DeskInvariant, DeskTyped, Today
<1>4. markets' \in Seq(Markets) /\ Today' = Today + 1
  BY <1>1, <1>3 DEF Today
<1>5. DeskTyped' /\ CycleSound'
  BY <1>2, <1>4, IdleCycle DEF DeskInvariant, DeskTyped, CycleSound
<1>6. OrdersSound'
  BY <1>2 DEF DeskInvariant, OrdersSound, OrderSound, Remaining
<1>7. FillsOfThePast'
  <2> SUFFICES ASSUME NEW n \in DOMAIN fills
               PROVE  fills[n].day \in 1 .. Today + 1 /\ (fills[n].side = "buy" => fills[n].tax = 0)
    BY <1>2, <1>4 DEF FillsOfThePast, FillSound
  <2>1. fills[n].day \in 1 .. Today /\ (fills[n].side = "buy" => fills[n].tax = 0)
    BY DEF DeskInvariant, FillsOfThePast, FillSound
  <2> HIDE DEF Today
  <2> QED BY <1>3, <2>1
<1>8. PortfolioTrue'
  BY <1>2, SameHolding DEF DeskInvariant, PortfolioTrue
<1>9. CommandsWithin'
  BY <1>2, IdleCycle DEF CommandsWithin
<1>10. NeverBeyondTarget'
  BY <1>2, SameHolding, SameLive DEF DeskInvariant, NeverBeyondTarget
<1> QED BY <1>5, <1>6, <1>7, <1>8, <1>9, <1>10 DEF DeskInvariant

(* _project: what is published has seen every fill. *)
LEMMA ProjectKeeps ==
    ASSUME DeskInvariant, Project
    PROVE  DeskInvariant'
<1>1. /\ UNCHANGED <<markets, wanted, orders, fills, limit, blind>>
      /\ DeskTyped /\ FillsOfThePast /\ CycleSound /\ cycle \in Cycles
      /\ wanted \in TargetSets \cup {NoTarget}
  BY DEF Project, oms, audit, DeskInvariant, DeskTyped
<1>2. cycle.todo = {} /\ cycle.job # 0
  BY <1>1, BusyIs, NothingTodo DEF Project
<1>3. CASE ~Good(Projection)
  <2>1. portfolio' = portfolio /\ cycle' = Idle
    BY <1>3 DEF Project, FailJob
  <2> QED BY <1>1, <2>1, IdleCycle, QuietKeeps DEF QuietStep
<1>4. CASE Good(Projection)
  <2> DEFINE l == Projection
  <2>1. LedgerTyped(l) /\ \A i \in Instruments : l.positions[i].quantity = TrueHolding(i)
    BY <1>1, <1>4, ProjectionFacts
  <2>2. cycle' = NextDeskJob /\ portfolio' = Document(l)
    BY <1>4 DEF Project, CompleteJob, Publish
  <2> HIDE DEF l
  <2>3. cycle' \in Cycles /\ cycle'.todo = {} /\ Len(markets) > 0
    BY <1>1, <1>2, <2>2, NextJobFacts
  <2>4. NetAssetValue(l) \in Int /\ Available(l) \in Int /\ Len(fills) \in Nat
    BY <1>1, <2>1, NavInt, LedgerNumbers DEF DeskTyped
  <2>5. Held(l) \in [Instruments -> Int]
    BY <2>1 DEF Held, LedgerTyped, Positions
  <2>6. portfolio' \in [nav : Int, available : Int, held : [Instruments -> Int], covers : Nat]
    BY <2>2, <2>4, <2>5 DEF Document
  <2>7. DeskTyped' /\ CycleSound'
    BY <1>1, <2>3, <2>6 DEF DeskTyped, CycleSound
  <2>8. PortfolioTrue'
    BY <1>1, <2>1, <2>2, <2>4, SameHolding DEF PortfolioTrue, Document, Held
  <2>9. OrdersSound' /\ FillsOfThePast'
    BY <1>1 DEF DeskInvariant, OrdersSound, OrderSound, Remaining, FillsOfThePast, FillSound, Today
  <2>10. CommandsWithin'
    BY <2>3 DEF CommandsWithin
  <2>11. NeverBeyondTarget'
    BY <1>1, SameHolding, SameLive DEF DeskInvariant, NeverBeyondTarget
  <2> QED BY <2>7, <2>8, <2>9, <2>10, <2>11 DEF DeskInvariant
<1> QED BY <1>3, <1>4

LEMMA TodaysMarket ==
    ASSUME DeskTyped, Len(markets) > 0, NEW i \in Instruments
    PROVE  markets[Today][i].price \in Nat \ {0} /\ markets[Today][i].volume \in Nat
<1>1. markets \in Seq(Markets)
  BY DEF DeskTyped
<1>2. markets[Today] \in Markets
  BY <1>1 DEF Today
<1> HIDE DEF Today
<1> QED BY <1>2, DeskAssumption DEF ValidMarket

(* The shares a target asks for, and what is missing to them. *)
LEMMA DesiredFacts ==
    ASSUME DeskTyped, OrdersSound, Len(markets) > 0, NEW t \in TargetSets, NEW i \in DOMAIN t
    PROVE  i \in Instruments /\ Desired(t, i) \in Int /\ Delta(t, i) \in Int
<1>1. i \in Instruments /\ t[i] \in 0 .. RateUnit
  BY DeskAssumption DEF ValidTargets
<1>2. markets[Today][i].price \in Nat \ {0}
  BY <1>1, TodaysMarket
<1>3. RateUnit \in Nat \ {0} /\ portfolio.nav \in Int /\ portfolio.held[i] \in Int
  BY <1>1, PolicyAssumption DEF DeskTyped
<1>4. Desired(t, i) \in Int
  <2>1. RateUnit * markets[Today][i].price \in Nat \ {0}
    BY <1>2, <1>3
  <2>2. portfolio.nav * t[i] \in Int
    BY <1>1, <1>3
  <2>3. \A a \in Int, b \in Nat \ {0} : a \div b \in Int
    OBVIOUS
  <2> QED BY <2>1, <2>2, <2>3 DEF Desired
<1>5. OpenQuantity("buy", i) \in Nat /\ OpenQuantity("sell", i) \in Nat
  BY OrderSums
<1> QED BY <1>1, <1>3, <1>4, <1>5 DEF Delta, Projected

(* The commands of an execution: one for an instrument, for what is missing. *)
LEMMA CommandFacts ==
    ASSUME DeskTyped, OrdersSound, Len(markets) > 0, NEW t \in TargetSets, NEW c \in Commands(t)
    PROVE  /\ c \in DeskCommands /\ c.instrument \in DOMAIN t
           /\ c.side = "buy" => c.quantity = Delta(t, c.instrument)
<1>1. PICK i \in DOMAIN t :
        /\ Delta(t, i) # 0
        /\ c = [instrument |-> i, side |-> IF Delta(t, i) > 0 THEN "buy" ELSE "sell",
                quantity |-> Magnitude(Delta(t, i))]
  BY DEF Commands
<1>2. i \in Instruments /\ Delta(t, i) \in Int
  BY DesiredFacts
<1>3. /\ Magnitude(Delta(t, i)) \in Nat \ {0}
      /\ Delta(t, i) > 0 => Magnitude(Delta(t, i)) = Delta(t, i)
  BY <1>1, <1>2 DEF Magnitude
<1> QED BY <1>1, <1>2, <1>3 DEF DeskCommands, Sides

(* What an execution allows of an instrument. *)
Allowed(t, i) ==
    Max({TrueHolding(i) + LiveQuantity("buy", i)}
          \cup (IF i \in DOMAIN t THEN {Desired(t, i) + OpenQuantity("sell", i)} ELSE {}))

LEMMA AllowedFacts ==
    ASSUME DeskTyped, OrdersSound, Len(markets) > 0, NEW t \in TargetSets, NEW i \in Instruments
    PROVE  /\ Allowed(t, i) \in Int
           /\ TrueHolding(i) + LiveQuantity("buy", i) <= Allowed(t, i)
           /\ i \in DOMAIN t => Desired(t, i) + OpenQuantity("sell", i) <= Allowed(t, i)
<1> DEFINE a == TrueHolding(i) + LiveQuantity("buy", i)
           b == IF i \in DOMAIN t THEN Desired(t, i) + OpenQuantity("sell", i) ELSE a
<1>1. a \in Int
  <2>1. TrueHolding(i) \in Int /\ LiveQuantity("buy", i) \in Nat
    BY HoldingInt, OrderSums
  <2> QED BY <2>1
<1>2. b \in Int
  <2>1. i \in DOMAIN t => Desired(t, i) \in Int
    BY DesiredFacts
  <2>2. OpenQuantity("sell", i) \in Nat
    BY OrderSums
  <2> HIDE DEF a
  <2> QED BY <1>1, <2>1, <2>2
<1>3. Allowed(t, i) = Max({a, b})
  <2>1. {a} \cup (IF i \in DOMAIN t THEN {Desired(t, i) + OpenQuantity("sell", i)} ELSE {}) = {a, b}
    OBVIOUS
  <2> QED BY <2>1 DEF Allowed
<1> HIDE DEF a, b
<1>4. Max({a, b}) \in {a, b} /\ Max({a, b}) >= a /\ Max({a, b}) >= b
  BY <1>1, <1>2, PairMax
<1> QED BY <1>1, <1>2, <1>3, <1>4 DEF a, b

(* execute: the commands are what the projected positions miss to the target. *)
LEMMA SizeKeeps ==
    ASSUME DeskInvariant, Size
    PROVE  DeskInvariant'
<1>1. /\ UNCHANGED <<markets, wanted, orders, fills, portfolio>>
      /\ DeskTyped /\ OrdersSound /\ FillsOfThePast /\ CycleSound /\ PortfolioTrue
      /\ NeverBeyondTarget
      /\ cycle \in Cycles /\ wanted \in TargetSets \cup {NoTarget}
  BY DEF Size, oms, DeskInvariant, DeskTyped
<1>2. cycle.job = 2 /\ cycle.holds /\ Len(markets) > 0
  BY <1>1, BusyIs DEF Size, CycleSound, Busy
<1> DEFINE t == cycle.target
<1>3. t \in TargetSets
  BY <1>1 DEF Size, Cycles
<1>4. CASE ExecuteRaises(t)
  <2>1. limit' = limit /\ blind' = blind /\ cycle' = Idle
    BY <1>4 DEF Size, FailJob, audit
  <2> QED BY <1>1, <2>1, IdleCycle, QuietKeeps DEF QuietStep
<1>5. CASE ~ExecuteRaises(t)
  <2>1. /\ cycle' = [cycle EXCEPT !.target = NoTarget, !.todo = Commands(t)]
        /\ limit' = [i \in Instruments |-> Allowed(t, i)]
        /\ blind' = (blind \/ portfolio.covers # Len(fills))
    BY <1>5 DEF Size, Allowed
  <2> HIDE DEF t
  <2>2. Commands(t) \subseteq DeskCommands
    BY <1>1, <1>2, <1>3, CommandFacts
  <2>3. /\ cycle' \in Cycles /\ cycle'.job = 2 /\ cycle'.holds /\ cycle'.todo = Commands(t)
    BY <1>1, <1>2, <2>1, <2>2 DEF Cycles
  <2>4. DeskTyped' /\ CycleSound'
    <3>1. limit' \in [Instruments -> Int]
      BY <1>1, <1>2, <1>3, <2>1, AllowedFacts
    <3>2. blind' \in BOOLEAN
      BY <2>1
    <3> QED BY <1>1, <1>2, <2>3, <3>1, <3>2 DEF DeskTyped, CycleSound
  <2>5. OrdersSound' /\ FillsOfThePast'
    BY <1>1 DEF OrdersSound, OrderSound, Remaining, FillsOfThePast, FillSound, Today
  <2>6. PortfolioTrue'
    BY <1>1, SameHolding DEF PortfolioTrue
  <2>7. CommandsWithin'
    <3>1. ASSUME NEW c \in Commands(t), NEW d \in Commands(t), c.instrument = d.instrument
          PROVE  c = d
      BY <3>1 DEF Commands
    <3>2. ASSUME NEW c \in Commands(t), c.side = "buy", portfolio.covers = Len(fills)
          PROVE  TrueHolding(c.instrument) + LiveQuantity("buy", c.instrument) + c.quantity
                    <= limit'[c.instrument]
      <4> DEFINE i == c.instrument
      <4>1. i \in DOMAIN t /\ c.quantity = Delta(t, i)
        BY <1>1, <1>2, <1>3, <3>2, CommandFacts
      <4> HIDE DEF i
      <4>2. i \in Instruments /\ Desired(t, i) \in Int
        BY <1>1, <1>2, <1>3, <4>1, DesiredFacts
      <4>3. portfolio.held[i] = TrueHolding(i) /\ TrueHolding(i) \in Int
        BY <1>1, <3>2, <4>2, HoldingInt DEF PortfolioTrue
      <4>4. /\ LiveQuantity("buy", i) \in Nat /\ OpenQuantity("buy", i) \in Nat
            /\ OpenQuantity("sell", i) \in Nat /\ LiveQuantity("buy", i) <= OpenQuantity("buy", i)
        BY <1>1, OrderSums
      <4>5. limit'[i] \in Int /\ Desired(t, i) + OpenQuantity("sell", i) <= limit'[i]
        BY <1>1, <1>2, <1>3, <2>1, <4>1, <4>2, AllowedFacts
      <4>6. c.quantity = Desired(t, i)
                          - (portfolio.held[i] + OpenQuantity("buy", i) - OpenQuantity("sell", i))
        BY <4>1 DEF Delta, Projected
      <4>7. TrueHolding(i) + LiveQuantity("buy", i) + c.quantity <= limit'[i]
        BY ONLY <4>2, <4>3, <4>4, <4>5, <4>6
      <4> QED BY <4>7 DEF i
    <3>3. ~blind' => portfolio.covers = Len(fills)
      BY <2>1
    <3> QED BY <1>1, <2>3, <3>1, <3>2, <3>3, SameHolding, SameLive DEF CommandsWithin
  <2>8. NeverBeyondTarget'
    <3> SUFFICES ASSUME ~blind', NEW i \in Instruments
                 PROVE  /\ TrueHolding(i) + LiveQuantity("buy", i) <= limit'[i]
                        /\ LiveQuantity("sell", i) <= TrueHolding(i)
      BY <1>1, SameHolding, SameLive DEF NeverBeyondTarget
    <3>1. TrueHolding(i) + LiveQuantity("buy", i) <= limit'[i]
      BY <1>1, <1>2, <1>3, <2>1, AllowedFacts
    <3>2. ~blind
      BY <2>1
    <3> QED BY <1>1, <3>1, <3>2 DEF NeverBeyondTarget
  <2> QED BY <2>4, <2>5, <2>6, <2>7, <2>8 DEF DeskInvariant
<1> QED BY <1>4, <1>5

(* The order of a command is sound, and lives for its quantity if it is submitted. *)
LEMMA QueuedOrder ==
    ASSUME DeskTyped, Len(markets) > 0, NEW c \in DeskCommands,
           NEW state \in {"submit_pending", "risk_rejected", "risk_approved"}
    PROVE  LET o == NewOrder(c, state)
           IN /\ o \in DeskOrders /\ OrderSound(o)
              /\ \A side, i :
                    LiveOf(o, side, i) =
                        IF state = "submit_pending" /\ c.side = side /\ c.instrument = i
                        THEN c.quantity ELSE 0
<1> DEFINE o == NewOrder(c, state)
           price == markets[Today][c.instrument].price
<1>1. c.instrument \in Instruments /\ c.side \in Sides /\ c.quantity \in Nat \ {0}
  BY DEF DeskCommands
<1>2. price \in Nat /\ RateUnit \in Nat \ {0} /\ SlippageRate \in Nat
  BY <1>1, TodaysMarket, PolicyAssumption
<1>3. EstimatedCost(c) \in Nat
  <2>1. price * SlippageRate \in Nat
    BY <1>2
  <2>2. \A a \in Nat, b \in Nat \ {0} : a \div b \in Nat
    OBVIOUS
  <2>3. (price * SlippageRate) \div RateUnit \in Nat
    BY <1>2, <2>1, <2>2
  <2>4. EstimatedCost(c) = IF c.side = "buy" THEN price + (price * SlippageRate) \div RateUnit
                           ELSE price
    BY DEF EstimatedCost
  <2> DEFINE slip == (price * SlippageRate) \div RateUnit
  <2> HIDE DEF price, slip
  <2>5. slip \in Nat /\ EstimatedCost(c) = IF c.side = "buy" THEN price + slip ELSE price
    BY <2>3, <2>4 DEF slip
  <2> QED BY ONLY <1>2, <2>5
<1>4. Required(c) \in Int
  <2> DEFINE gross == EstimatedCost(c) * c.quantity
  <2>1. gross \in Nat
    BY <1>1, <1>3
  <2>2. Required(c) = gross + Fee(gross) + Tax(c.side, gross)
    BY DEF Required
  <2> HIDE DEF gross
  <2>3. Fee(gross) \in Nat
    BY <2>1, FeeFacts
  <2>4. Tax(c.side, gross) \in Nat
    BY <2>1, TaxFacts
  <2> QED BY ONLY <2>1, <2>2, <2>3, <2>4
<1>5. Today \in Nat
  BY DEF DeskTyped, Today
<1> HIDE DEF price
<1>6. /\ o.instrument = c.instrument /\ o.side = c.side /\ o.quantity = c.quantity
      /\ o.filled = 0 /\ o.state = state
      /\ o.shares = IF state = "submit_pending" THEN c.quantity ELSE 0
  BY DEF NewOrder
<1>7. o \in DeskOrders
  <2>1. (IF state = "submit_pending" /\ c.side = "buy" THEN Required(c) ELSE 0) \in Int
    BY <1>4
  <2>2. (IF state = "submit_pending" THEN c.quantity ELSE 0) \in Nat
    BY <1>1
  <2>3. state \in DeskStates /\ (state = "submit_pending") \in BOOLEAN
    BY DEF DeskStates, OpenStates
  <2> QED BY <1>1, <1>3, <1>5, <2>1, <2>2, <2>3 DEF NewOrder, DeskOrders
<1> HIDE DEF o
<1>8. Remaining(o) = c.quantity
  BY <1>1, <1>6 DEF Remaining
<1>9. state \in LiveStates <=> state = "submit_pending"
  BY DEF LiveStates, OpenStates
<1>10. OrderSound(o)
  BY <1>1, <1>6, <1>8, <1>9 DEF OrderSound
<1>11. \A side, i :
          LiveOf(o, side, i) = IF state = "submit_pending" /\ c.side = side /\ c.instrument = i
                               THEN c.quantity ELSE 0
  BY <1>6, <1>8, <1>9 DEF LiveOf
<1> QED BY <1>7, <1>10, <1>11 DEF o

(* A new order among the orders. *)
LEMMA OrderAdded ==
    ASSUME DeskInvariant, NEW o \in DeskOrders, OrderSound(o), orders' = Append(orders, o)
    PROVE  orders' \in Seq(DeskOrders) /\ OrdersSound'
<1>1. orders \in Seq(DeskOrders) /\ \A k \in DOMAIN orders : OrderSound(orders[k])
  BY DEF DeskInvariant, DeskTyped, OrdersSound
<1>2. orders' \in Seq(DeskOrders)
  BY <1>1
<1>3. \A k \in DOMAIN orders' : OrderSound(orders'[k])
  BY <1>1
<1> QED BY <1>2, <1>3 DEF OrdersSound, OrderSound, Remaining

(* A changed order among the orders. *)
LEMMA OrderChanged ==
    ASSUME DeskInvariant, NEW k \in DOMAIN orders, NEW o \in DeskOrders, OrderSound(o),
           orders' = [orders EXCEPT ![k] = o]
    PROVE  orders' \in Seq(DeskOrders) /\ OrdersSound'
<1>1. orders \in Seq(DeskOrders) /\ \A j \in DOMAIN orders : OrderSound(orders[j])
  BY DEF DeskInvariant, DeskTyped, OrdersSound
<1>2. orders' \in Seq(DeskOrders)
  BY <1>1
<1>3. \A j \in DOMAIN orders' : OrderSound(orders'[j])
  BY <1>1
<1> QED BY <1>2, <1>3 DEF OrdersSound, OrderSound, Remaining

(* queue: a purchase is within the limit of its execution, a sale within what is held and not
   reserved. *)
LEMMA QueueKeeps ==
    ASSUME DeskInvariant, NEW c \in cycle.todo, QueueOrder(c)
    PROVE  DeskInvariant'
<1> DEFINE state == IF Affordable(c) THEN "submit_pending" ELSE "risk_rejected"
           o == NewOrder(c, state)
           Adds(side, i) == IF state = "submit_pending" /\ c.side = side /\ c.instrument = i
                            THEN c.quantity ELSE 0
<1>1. /\ UNCHANGED <<markets, wanted, fills, portfolio, limit, blind>>
      /\ orders' = Append(orders, o) /\ cycle' = [cycle EXCEPT !.todo = cycle.todo \ {c}]
  BY DEF QueueOrder, audit
<1>2. /\ DeskTyped /\ OrdersSound /\ FillsOfThePast /\ CycleSound /\ PortfolioTrue
      /\ NeverBeyondTarget /\ CommandsWithin /\ cycle \in Cycles
  BY DEF DeskInvariant, DeskTyped
<1>3. cycle.job = 2 /\ cycle.holds /\ Len(markets) > 0 /\ c \in DeskCommands
  BY <1>2 DEF CommandsWithin, CycleSound, Cycles
<1>4. c.instrument \in Instruments /\ c.side \in Sides /\ c.quantity \in Nat \ {0}
  BY <1>3 DEF DeskCommands
<1>5. state \in {"submit_pending", "risk_rejected", "risk_approved"}
  OBVIOUS
<1> HIDE DEF state
<1>6. o \in DeskOrders /\ OrderSound(o) /\ \A side, i : LiveOf(o, side, i) = Adds(side, i)
  BY <1>2, <1>3, <1>5, QueuedOrder
<1> HIDE DEF o
<1>7. \A side, i : LiveQuantity(side, i)' = LiveQuantity(side, i) + LiveOf(o, side, i)
  BY <1>1, <1>2, <1>6, LiveAfterOrder
<1>8. \A side, i : LiveQuantity(side, i)' = LiveQuantity(side, i) + Adds(side, i)
  BY <1>6, <1>7
<1>9. ASSUME NEW i
      PROVE  /\ TrueHolding(i)' = TrueHolding(i) /\ TrueHolding(i) \in Int
             /\ LiveQuantity("buy", i) \in Nat /\ LiveQuantity("sell", i) \in Nat
             /\ ReservedShares(i) \in Nat /\ LiveQuantity("sell", i) <= ReservedShares(i)
  BY <1>1, <1>2, SameHolding, HoldingInt, OrderSums
<1>10. DeskTyped' /\ CycleSound' /\ OrdersSound'
  <2>1. orders' \in Seq(DeskOrders) /\ OrdersSound'
    BY <1>1, <1>6, OrderAdded
  <2>2. cycle' \in Cycles
    BY <1>1, <1>2 DEF Cycles
  <2> QED BY <1>1, <1>2, <1>3, <2>1, <2>2 DEF DeskTyped, CycleSound
<1>11. FillsOfThePast'
  BY <1>1, <1>2 DEF FillsOfThePast, FillSound, Today
<1>12. PortfolioTrue'
  BY <1>1, <1>2, SameHolding DEF PortfolioTrue
<1>13. CommandsWithin'
  <2>1. cycle'.job = 2 /\ cycle'.holds /\ cycle'.todo = cycle.todo \ {c}
    BY <1>1, <1>2, <1>3 DEF Cycles
  <2>2. \A d \in cycle.todo \ {c} : d.instrument # c.instrument
    BY <1>2 DEF CommandsWithin
  <2>3. ASSUME ~blind, NEW d \in cycle.todo \ {c}, d.side = "buy"
        PROVE  TrueHolding(d.instrument)' + LiveQuantity("buy", d.instrument)' + d.quantity
                  <= limit[d.instrument]
    <3>1. TrueHolding(d.instrument) + LiveQuantity("buy", d.instrument) + d.quantity
             <= limit[d.instrument]
      BY <1>2, <2>3 DEF CommandsWithin
    <3>2. Adds("buy", d.instrument) = 0
      BY <2>2, <2>3
    <3>3. LiveQuantity("buy", d.instrument)' = LiveQuantity("buy", d.instrument)
      BY <1>8, <1>9, <3>2
    <3> QED BY <1>9, <3>1, <3>3
  <2>4. \A d, e \in cycle.todo : d.instrument = e.instrument => d = e
    BY <1>2 DEF CommandsWithin
  <2>5. ~blind => portfolio.covers = Len(fills)
    BY <1>2 DEF CommandsWithin
  <2> QED BY <1>1, <2>1, <2>3, <2>4, <2>5 DEF CommandsWithin
<1>14. NeverBeyondTarget'
  <2> SUFFICES ASSUME ~blind, NEW i \in Instruments
               PROVE  /\ TrueHolding(i)' + LiveQuantity("buy", i)' <= limit[i]
                      /\ LiveQuantity("sell", i)' <= TrueHolding(i)'
    BY <1>1 DEF NeverBeyondTarget
  <2>1. /\ TrueHolding(i) + LiveQuantity("buy", i) <= limit[i]
        /\ LiveQuantity("sell", i) <= TrueHolding(i)
    BY <1>2 DEF NeverBeyondTarget
  <2>2. limit[i] \in Int
    BY <1>2 DEF DeskTyped
  <2>3. TrueHolding(i)' + LiveQuantity("buy", i)' <= limit[i]
    <3>1. CASE Adds("buy", i) = 0
      BY <1>8, <1>9, <2>1, <3>1
    <3>2. CASE Adds("buy", i) # 0
      <4>1. c.side = "buy" /\ c.instrument = i /\ Adds("buy", i) = c.quantity
        BY <3>2
      <4>2. TrueHolding(i) + LiveQuantity("buy", i) + c.quantity <= limit[i]
        BY <1>2, <4>1 DEF CommandsWithin
      <4> QED BY <1>4, <1>8, <1>9, <2>2, <4>1, <4>2
    <3> QED BY <3>1, <3>2
  <2>4. LiveQuantity("sell", i)' <= TrueHolding(i)'
    <3>1. CASE Adds("sell", i) = 0
      BY <1>8, <1>9, <2>1, <3>1
    <3>2. CASE Adds("sell", i) # 0
      <4>1. c.side = "sell" /\ c.instrument = i /\ Adds("sell", i) = c.quantity /\ Affordable(c)
        BY <3>2 DEF state
      <4>2. c.quantity <= portfolio.held[i] - ReservedShares(i)
        BY <4>1 DEF Affordable
      <4>3. portfolio.held[i] = TrueHolding(i)
        BY <1>2 DEF CommandsWithin, PortfolioTrue
      <4>4. LiveQuantity("sell", i)' = LiveQuantity("sell", i) + c.quantity
        BY <1>8, <4>1
      <4> QED BY <1>4, <1>9, <4>2, <4>3, <4>4
    <3> QED BY <3>1, <3>2
  <2> QED BY <2>3, <2>4
<1> QED BY <1>10, <1>11, <1>12, <1>13, <1>14 DEF DeskInvariant

(* A crash inside queue leaves an order that is never filled. *)
LEMMA CrashInQueueKeeps ==
    ASSUME DeskInvariant, NEW c \in cycle.todo, CrashInQueue(c)
    PROVE  DeskInvariant'
<1> DEFINE o == NewOrder(c, "risk_approved")
<1>1. /\ UNCHANGED <<markets, wanted, fills, portfolio, limit, blind>>
      /\ orders' = Append(orders, o) /\ cycle' = Idle
  BY DEF CrashInQueue, audit
<1>2. /\ DeskTyped /\ OrdersSound /\ FillsOfThePast /\ CycleSound /\ PortfolioTrue
      /\ NeverBeyondTarget /\ CommandsWithin /\ cycle \in Cycles
  BY DEF DeskInvariant, DeskTyped
<1>3. Len(markets) > 0 /\ c \in DeskCommands
  BY <1>2 DEF CommandsWithin, CycleSound, Cycles
<1>4. o \in DeskOrders /\ OrderSound(o) /\ \A side, i : LiveOf(o, side, i) = 0
  <2>1. "risk_approved" \in {"submit_pending", "risk_rejected", "risk_approved"}
    OBVIOUS
  <2> QED BY <1>2, <1>3, <2>1, QueuedOrder
<1> HIDE DEF o
<1>5. \A side, i : LiveQuantity(side, i)' = LiveQuantity(side, i) + LiveOf(o, side, i)
  BY <1>1, <1>2, <1>4, LiveAfterOrder
<1>6. \A i : /\ LiveQuantity("buy", i)' = LiveQuantity("buy", i)
             /\ LiveQuantity("sell", i)' = LiveQuantity("sell", i)
  BY <1>2, <1>4, <1>5, OrderSums
<1>7. DeskTyped' /\ CycleSound' /\ OrdersSound'
  <2>1. orders' \in Seq(DeskOrders) /\ OrdersSound'
    BY <1>1, <1>4, OrderAdded
  <2> QED BY <1>1, <1>2, <1>3, <2>1, IdleCycle DEF DeskTyped, CycleSound
<1>8. FillsOfThePast' /\ PortfolioTrue'
  BY <1>1, <1>2, SameHolding DEF FillsOfThePast, FillSound, Today, PortfolioTrue
<1>9. CommandsWithin'
  BY <1>1, IdleCycle DEF CommandsWithin
<1>10. NeverBeyondTarget'
  BY <1>1, <1>2, <1>6, SameHolding DEF NeverBeyondTarget
<1> QED BY <1>7, <1>8, <1>9, <1>10 DEF DeskInvariant

(* A step that changes one order into one that counts for no more. *)
ReleaseStep(k, o) ==
    /\ UNCHANGED <<markets, wanted, fills, portfolio, limit, blind>>
    /\ cycle' \in Cycles /\ cycle'.todo = {} /\ (cycle'.job # 0 => Len(markets) > 0)
    /\ o \in DeskOrders /\ OrderSound(o) /\ orders' = [orders EXCEPT ![k] = o]
    /\ \A side, i : LiveOf(o, side, i) <= LiveOf(orders[k], side, i)

LEMMA ReleaseKeeps ==
    ASSUME DeskInvariant, NEW k \in DOMAIN orders, NEW o, ReleaseStep(k, o)
    PROVE  DeskInvariant'
<1>1. /\ UNCHANGED <<markets, wanted, fills, portfolio, limit, blind>>
      /\ cycle' \in Cycles /\ cycle'.todo = {} /\ (cycle'.job # 0 => Len(markets) > 0)
      /\ o \in DeskOrders /\ OrderSound(o) /\ orders' = [orders EXCEPT ![k] = o]
      /\ \A side, i : LiveOf(o, side, i) <= LiveOf(orders[k], side, i)
  BY DEF ReleaseStep
<1>2. /\ DeskTyped /\ OrdersSound /\ FillsOfThePast /\ CycleSound /\ PortfolioTrue
      /\ NeverBeyondTarget
  BY DEF DeskInvariant
<1>3. orders[k] \in DeskOrders /\ OrderSound(orders[k])
  BY <1>2 DEF DeskTyped, OrdersSound
<1>4. \A side, i : LiveQuantity(side, i)' = LiveQuantity(side, i) - LiveOf(orders[k], side, i)
                                                + LiveOf(o, side, i)
  BY <1>1, <1>2, LiveAfterChange
<1>5. ASSUME NEW side, NEW i
      PROVE  /\ LiveQuantity(side, i)' \in Int /\ LiveQuantity(side, i) \in Int
             /\ LiveQuantity(side, i)' <= LiveQuantity(side, i)
  <2>1. LiveOf(o, side, i) \in Nat /\ LiveOf(orders[k], side, i) \in Nat
    BY <1>1, <1>3, OrderNumbers
  <2>2. LiveQuantity(side, i) \in Nat
    BY <1>2, OrderSums
  <2>3. LiveOf(o, side, i) <= LiveOf(orders[k], side, i)
    BY <1>1
  <2>4. LiveQuantity(side, i)' = LiveQuantity(side, i) - LiveOf(orders[k], side, i)
                                     + LiveOf(o, side, i)
    BY <1>4
  <2> QED BY ONLY <2>1, <2>2, <2>3, <2>4
<1>6. DeskTyped' /\ CycleSound' /\ OrdersSound'
  <2>1. orders' \in Seq(DeskOrders) /\ OrdersSound'
    BY <1>1, OrderChanged
  <2> QED BY <1>1, <1>2, <2>1 DEF DeskTyped, CycleSound
<1>7. FillsOfThePast' /\ PortfolioTrue'
  BY <1>1, <1>2, SameHolding DEF FillsOfThePast, FillSound, Today, PortfolioTrue
<1>8. CommandsWithin'
  BY <1>1 DEF CommandsWithin
<1>9. NeverBeyondTarget'
  <2> SUFFICES ASSUME ~blind, NEW i \in Instruments
               PROVE  /\ TrueHolding(i) + LiveQuantity("buy", i)' <= limit[i]
                      /\ LiveQuantity("sell", i)' <= TrueHolding(i)
    BY <1>1, SameHolding DEF NeverBeyondTarget
  <2>1. /\ TrueHolding(i) + LiveQuantity("buy", i) <= limit[i]
        /\ LiveQuantity("sell", i) <= TrueHolding(i)
    BY <1>2 DEF NeverBeyondTarget
  <2>2. TrueHolding(i) \in Int /\ limit[i] \in Int
    BY <1>2, HoldingInt DEF DeskTyped
  <2> QED BY <1>5, <2>1, <2>2
<1> QED BY <1>6, <1>7, <1>8, <1>9 DEF DeskInvariant

(* An order counts for the same after its acknowledgement and without its outbox row. *)
LEMMA AcknowledgedFacts ==
    ASSUME NEW o \in DeskOrders, OrderSound(o), NEW u \in {Acknowledged(o), Delivered(Acknowledged(o))}
    PROVE  /\ u \in DeskOrders /\ OrderSound(u)
           /\ \A side, i : LiveOf(u, side, i) = LiveOf(o, side, i)
<1>1. /\ u \in DeskOrders /\ u.instrument = o.instrument /\ u.side = o.side
      /\ u.quantity = o.quantity /\ u.filled = o.filled /\ u.shares = o.shares
      /\ u.state = IF o.state = "submit_pending" THEN "acknowledged" ELSE o.state
  <2>1. "acknowledged" \in DeskStates
    BY DEF DeskStates, OpenStates
  <2> DEFINE v == Acknowledged(o)
  <2>2. /\ v \in DeskOrders /\ v.instrument = o.instrument /\ v.side = o.side
        /\ v.quantity = o.quantity /\ v.filled = o.filled /\ v.shares = o.shares
        /\ v.state = IF o.state = "submit_pending" THEN "acknowledged" ELSE o.state
    <3>1. CASE o.state = "submit_pending"
      <4>1. v = [o EXCEPT !.state = "acknowledged"]
        BY <3>1 DEF Acknowledged
      <4> HIDE DEF v
      <4> QED BY <2>1, <3>1, <4>1 DEF DeskOrders
    <3>2. CASE o.state # "submit_pending"
      <4>1. v = o
        BY <3>2 DEF Acknowledged
      <4> HIDE DEF v
      <4> QED BY <3>2, <4>1
    <3> QED BY <3>1, <3>2
  <2> HIDE DEF v
  <2>3. \A w \in DeskOrders : /\ Delivered(w) \in DeskOrders
                              /\ Delivered(w).instrument = w.instrument
                              /\ Delivered(w).side = w.side
                              /\ Delivered(w).quantity = w.quantity
                              /\ Delivered(w).filled = w.filled
                              /\ Delivered(w).shares = w.shares /\ Delivered(w).state = w.state
    BY DEF Delivered, DeskOrders
  <2>4. u = v \/ u = Delivered(v)
    BY DEF v
  <2> QED BY <2>2, <2>3, <2>4
<1>2. (u.state \in LiveStates <=> o.state \in LiveStates) /\ u.state # "submit_pending"
  BY <1>1 DEF LiveStates, OpenStates
<1>3. Remaining(u) = Remaining(o)
  BY <1>1 DEF Remaining
<1> QED BY <1>1, <1>2, <1>3 DEF OrderSound, LiveOf

(* The broker has nothing to fill, or has filled it before. *)
LEMMA UnfilledKeeps ==
    ASSUME DeskInvariant, NEW k \in DOMAIN orders, DeliverUnfilled(k) \/ DeliverRaises(k)
    PROVE  DeskInvariant'
<1>1. /\ DeskTyped /\ CycleSound /\ cycle \in Cycles
      /\ orders[k] \in DeskOrders /\ OrderSound(orders[k])
  BY DEF DeskInvariant, DeskTyped, OrdersSound
<1>2. cycle.job = 3 /\ cycle.todo = {} /\ Len(markets) > 0
  BY <1>1, BusyIs, NothingTodo DEF DeliverUnfilled, DeliverRaises, CycleSound
<1>3. CASE DeliverUnfilled(k)
  <2> DEFINE o == Delivered(Acknowledged(orders[k]))
  <2>1. /\ UNCHANGED <<markets, wanted, fills, portfolio, limit, blind, cycle>>
        /\ orders' = [orders EXCEPT ![k] = o]
    BY <1>3 DEF DeliverUnfilled, audit
  <2>2. o \in DeskOrders /\ OrderSound(o) /\ \A side, i : LiveOf(o, side, i) = LiveOf(orders[k], side, i)
    BY <1>1, AcknowledgedFacts
  <2>3. \A side, i : LiveOf(orders[k], side, i) \in Nat
    BY <1>1, OrderNumbers
  <2> HIDE DEF o
  <2>4. ReleaseStep(k, o)
    BY <1>1, <1>2, <2>1, <2>2, <2>3 DEF ReleaseStep
  <2> QED BY <2>4, ReleaseKeeps
<1>4. CASE DeliverRaises(k)
  <2> DEFINE o == Acknowledged(orders[k])
  <2>1. /\ UNCHANGED <<markets, wanted, fills, portfolio, limit, blind>> /\ cycle' = Idle
        /\ orders' = [orders EXCEPT ![k] = o]
    BY <1>4 DEF DeliverRaises, FailJob, audit
  <2>2. o \in DeskOrders /\ OrderSound(o) /\ \A side, i : LiveOf(o, side, i) = LiveOf(orders[k], side, i)
    BY <1>1, AcknowledgedFacts
  <2>3. \A side, i : LiveOf(orders[k], side, i) \in Nat
    BY <1>1, OrderNumbers
  <2> HIDE DEF o
  <2>4. ReleaseStep(k, o)
    BY <1>1, <1>2, <2>1, <2>2, <2>3, IdleCycle DEF ReleaseStep
  <2> QED BY <2>4, ReleaseKeeps
<1> QED BY <1>3, <1>4

(* A cancelled order counts for nothing. *)
LEMMA CancelKeeps ==
    ASSUME DeskInvariant, NEW k \in DOMAIN orders, OperatorCancels(k)
    PROVE  DeskInvariant'
<1>1. /\ DeskTyped /\ orders[k] \in DeskOrders /\ OrderSound(orders[k])
  BY DEF DeskInvariant, DeskTyped, OrdersSound
<1> DEFINE o == [orders[k] EXCEPT !.state = "cancelled", !.cash = 0, !.shares = 0]
<1>2. /\ UNCHANGED <<markets, wanted, fills, portfolio, limit, blind>> /\ cycle' = Idle
  BY DEF OperatorCancels, audit
<1>3. orders' = [orders EXCEPT ![k] = o]
  <2>1. orders' = [orders EXCEPT ![k].state = "cancelled", ![k].cash = 0, ![k].shares = 0]
    BY DEF OperatorCancels
  <2> QED BY <2>1
<1>4. /\ o \in DeskOrders /\ o.state = "cancelled" /\ o.filled = orders[k].filled
      /\ o.quantity = orders[k].quantity
  <2>1. "cancelled" \in DeskStates
    BY DEF DeskStates
  <2>2. \A v \in DeskOrders, x \in DeskStates :
            /\ [v EXCEPT !.state = x] \in DeskOrders /\ [v EXCEPT !.state = x].state = x
            /\ [v EXCEPT !.state = x].filled = v.filled /\ [v EXCEPT !.state = x].quantity = v.quantity
    BY DEF DeskOrders
  <2>3. \A v \in DeskOrders, x \in Int :
            /\ [v EXCEPT !.cash = x] \in DeskOrders /\ [v EXCEPT !.cash = x].state = v.state
            /\ [v EXCEPT !.cash = x].filled = v.filled /\ [v EXCEPT !.cash = x].quantity = v.quantity
    BY DEF DeskOrders
  <2>4. \A v \in DeskOrders, x \in Nat :
            /\ [v EXCEPT !.shares = x] \in DeskOrders /\ [v EXCEPT !.shares = x].state = v.state
            /\ [v EXCEPT !.shares = x].filled = v.filled /\ [v EXCEPT !.shares = x].quantity = v.quantity
    BY DEF DeskOrders
  <2> DEFINE v == [orders[k] EXCEPT !.state = "cancelled"]
             u == [v EXCEPT !.cash = 0]
  <2>5. o = [u EXCEPT !.shares = 0]
    OBVIOUS
  <2>6. v \in DeskOrders /\ v.state = "cancelled" /\ v.filled = orders[k].filled
        /\ v.quantity = orders[k].quantity
    BY <1>1, <2>1, <2>2
  <2> HIDE DEF v
  <2>7. u \in DeskOrders /\ u.state = v.state /\ u.filled = v.filled /\ u.quantity = v.quantity
    BY <2>3, <2>6
  <2> HIDE DEF u, o
  <2> QED BY <2>4, <2>5, <2>6, <2>7
<1> HIDE DEF o
<1>5. "cancelled" \notin LiveStates
  BY DEF LiveStates, OpenStates
<1>6. OrderSound(o) /\ \A side, i : LiveOf(o, side, i) = 0
  BY <1>1, <1>4, <1>5 DEF OrderSound, LiveOf
<1>7. \A side, i : LiveOf(orders[k], side, i) \in Nat
  BY <1>1, OrderNumbers
<1>8. ReleaseStep(k, o)
  BY <1>2, <1>3, <1>4, <1>6, <1>7, IdleCycle DEF ReleaseStep
<1> QED BY <1>8, ReleaseKeeps

(* What the broker fills of an order that was submitted. *)
LEMMA BrokerFills ==
    ASSUME DeskTyped, Len(markets) > 0, NEW k \in DOMAIN orders, OrderSound(orders[k]), Fillable(k)
    PROVE  /\ FillOf(k) \in DeskFills
           /\ FillSound(FillOf(k)) /\ FillQuantity(orders[k]) \in 1 .. orders[k].quantity
<1> DEFINE o == orders[k]
           price == markets[Today][o.instrument].price
           volume == markets[Today][o.instrument].volume
           slip == (price * SlippageRate) \div RateUnit
           cap == (volume * BrokerCap) \div RateUnit
<1>1. o \in DeskOrders
  BY DEF DeskTyped
<1>2. o.instrument \in Instruments /\ o.side \in Sides /\ o.quantity \in Nat \ {0}
  BY <1>1 DEF DeskOrders
<1> HIDE DEF o
<1>3. price \in Nat \ {0} /\ volume \in Nat
  BY <1>2, TodaysMarket
<1>4. RateUnit \in Nat \ {0} /\ SlippageRate \in Nat /\ SlippageRate < RateUnit /\ BrokerCap \in Nat
  BY PolicyAssumption, DeskAssumption
<1> HIDE DEF price, volume
<1>5. slip \in Nat /\ slip <= price
  <2> DEFINE x == price * SlippageRate
  <2>1. x \in Nat /\ x <= price * RateUnit
    BY <1>3, <1>4
  <2>2. price * RateUnit \in Nat
    BY <1>3, <1>4
  <2> HIDE DEF x
  <2>3. x \div RateUnit \in Nat /\ RateUnit * (x \div RateUnit) <= x
    BY <1>4, <2>1
  <2>4. RateUnit * (x \div RateUnit) <= RateUnit * price
    BY <1>3, <1>4, <2>1, <2>2, <2>3
  <2> DEFINE q == x \div RateUnit
  <2>5. q \in Nat /\ RateUnit * q <= RateUnit * price
    BY <2>3, <2>4
  <2> HIDE DEF q
  <2>6. q <= price
    BY <1>3, <1>4, <2>5
  <2> QED BY <2>5, <2>6 DEF q, x
<1>6. cap \in Nat
  <2>1. volume * BrokerCap \in Nat
    BY <1>3, <1>4
  <2>2. \A a \in Nat, b \in Nat \ {0} : a \div b \in Nat
    OBVIOUS
  <2> QED BY <1>4, <2>1, <2>2
<1> HIDE DEF slip, cap
<1>7. FillQuantity(o) \in 1 .. o.quantity
  <2>1. FillQuantity(o) = Min({o.quantity, cap})
    BY DEF FillQuantity, cap, volume
  <2>2. FillQuantity(o) \in {o.quantity, cap} /\ FillQuantity(o) <= o.quantity
    <3>1. o.quantity \in Int /\ cap \in Int
      BY <1>2, <1>6
    <3>2. Min({o.quantity, cap}) \in {o.quantity, cap} /\ Min({o.quantity, cap}) <= o.quantity
      BY <3>1, PairMin
    <3> QED BY <2>1, <3>2
  <2>3. FillQuantity(o) > 0
    BY DEF Fillable, o
  <2> QED BY <1>2, <1>6, <2>2, <2>3
<1>8. BrokerPrice(o) \in Nat
  <2>1. BrokerPrice(o) = IF o.side = "buy" THEN price + slip ELSE price - slip
    BY DEF BrokerPrice, price, slip
  <2> QED BY <1>3, <1>5, <2>1
<1> DEFINE gross == BrokerPrice(o) * FillQuantity(o)
<1>9. gross \in Nat
  <2>1. FillQuantity(o) \in Nat
    BY <1>2, <1>7
  <2> QED BY <1>8, <2>1
<1> HIDE DEF gross
<1>10. Fee(gross) \in Nat /\ Tax(o.side, gross) \in Nat /\ (o.side = "buy" => Tax(o.side, gross) = 0)
  BY <1>9, FeeFacts, TaxFacts DEF Tax
<1>11. k \in Nat /\ Today \in Nat /\ Today > 0
  BY DEF DeskTyped, Today
<1> HIDE DEF Today
<1>12. FillOf(k) = [order |-> k, id |-> k, instrument |-> o.instrument, side |-> o.side,
                    day |-> Today, quantity |-> FillQuantity(o), price |-> BrokerPrice(o),
                    fee |-> Fee(gross), tax |-> Tax(o.side, gross), at |-> 10 * Today + 1]
  BY DEF FillOf, o, gross
<1>13. FillQuantity(o) \in Nat \ {0} /\ 10 * Today + 1 \in Nat
  BY <1>2, <1>7, <1>11
<1>14. FillOf(k) \in DeskFills
  BY <1>2, <1>8, <1>10, <1>11, <1>12, <1>13 DEF DeskFills
<1>15. FillSound(FillOf(k))
  BY <1>10, <1>11, <1>12 DEF FillSound
<1> QED BY <1>7, <1>14, <1>15 DEF o

(* A fill turns what an order counts for into what is held. *)
LEMMA FilledKeeps ==
    ASSUME DeskInvariant, NEW k \in DOMAIN orders, DeliverFilled(k)
    PROVE  DeskInvariant'
<1> DEFINE o == orders[k]
           n == FillQuantity(o)
           e == FillOf(k)
<1>1. /\ DeskTyped /\ OrdersSound /\ FillsOfThePast /\ CycleSound /\ PortfolioTrue
      /\ NeverBeyondTarget /\ cycle \in Cycles
      /\ o \in DeskOrders /\ OrderSound(o)
  BY DEF DeskInvariant, DeskTyped, OrdersSound
<1>2. cycle.todo = {} /\ Len(markets) > 0 /\ Fillable(k) /\ o.state = "submit_pending"
  BY <1>1, BusyIs, NothingTodo DEF DeliverFilled, CycleSound, Fillable
<1>3. PICK u \in {AfterDeskFill(o, n), Delivered(AfterDeskFill(o, n))} :
          /\ orders' = [orders EXCEPT ![k] = u] /\ cycle' \in {cycle, Idle}
  BY DEF DeliverFilled
<1>4. UNCHANGED <<markets, wanted, portfolio, limit, blind>> /\ fills' = Append(fills, e)
  BY DEF DeliverFilled
<1>5. e \in DeskFills /\ FillSound(e) /\ n \in 1 .. o.quantity
  BY <1>1, <1>2, BrokerFills
<1>6. /\ e.instrument = o.instrument /\ e.side = o.side /\ e.quantity = n
  BY DEF FillOf
<1> HIDE DEF e
<1>7. /\ o.quantity \in Nat \ {0} /\ o.cash \in Int /\ o.side \in Sides /\ o.filled = 0
      /\ o.instrument \in Instruments
  BY <1>1, <1>2 DEF DeskOrders, OrderSound
<1> HIDE DEF n
<1>8. /\ u \in DeskOrders /\ u.instrument = o.instrument /\ u.side = o.side
      /\ u.quantity = o.quantity /\ u.filled = n /\ u.shares = o.quantity - n
      /\ u.state = IF o.quantity - n = 0 THEN "filled" ELSE "partially_filled"
  <2> DEFINE rest == o.quantity - n
             cash == (o.cash * rest) \div o.quantity
             state == IF rest = 0 THEN "filled" ELSE "partially_filled"
  <2>1. rest \in Nat /\ n \in Nat
    BY <1>5, <1>7
  <2>2. cash \in Int
    <3>1. o.cash * rest \in Int
      BY <1>7, <2>1
    <3>2. \A a \in Int, b \in Nat \ {0} : a \div b \in Int
      OBVIOUS
    <3> QED BY <1>7, <3>1, <3>2
  <2>3. state \in DeskStates
    BY DEF DeskStates, OpenStates
  <2>4. AfterDeskFill(o, n) = [o EXCEPT !.filled = n, !.shares = rest, !.cash = cash, !.state = state]
    BY DEF AfterDeskFill
  <2> HIDE DEF rest, cash, state, o
  <2>5. /\ AfterDeskFill(o, n) \in DeskOrders
        /\ AfterDeskFill(o, n).instrument = o.instrument /\ AfterDeskFill(o, n).side = o.side
        /\ AfterDeskFill(o, n).quantity = o.quantity /\ AfterDeskFill(o, n).filled = n
        /\ AfterDeskFill(o, n).shares = rest /\ AfterDeskFill(o, n).state = state
    BY <1>1, <2>1, <2>2, <2>3, <2>4 DEF DeskOrders
  <2> DEFINE v == AfterDeskFill(o, n)
  <2> HIDE DEF v
  <2>6. v \in DeskOrders => /\ Delivered(v) \in DeskOrders
                            /\ Delivered(v).instrument = v.instrument /\ Delivered(v).side = v.side
                            /\ Delivered(v).quantity = v.quantity /\ Delivered(v).filled = v.filled
                            /\ Delivered(v).shares = v.shares /\ Delivered(v).state = v.state
    BY DEF Delivered, DeskOrders
  <2> QED BY <1>3, <2>5, <2>6 DEF v, rest, state
<1>9. Remaining(u) = o.quantity - n /\ Remaining(o) = o.quantity /\ n \in Nat /\ o.quantity - n \in Nat
  BY <1>5, <1>7, <1>8 DEF Remaining
<1>10. /\ o.state \in LiveStates /\ "partially_filled" \in LiveStates /\ u.state # "submit_pending"
  BY <1>2, <1>8 DEF LiveStates, OpenStates
<1>11. OrderSound(u)
  BY <1>5, <1>7, <1>8, <1>9, <1>10 DEF OrderSound
<1>12. \A side, i : LiveOf(u, side, i) =
           IF o.instrument = i /\ o.side = side THEN o.quantity - n ELSE 0
  BY <1>8, <1>9, <1>10 DEF LiveOf
<1>13. \A side, i : LiveOf(o, side, i) = IF o.instrument = i /\ o.side = side THEN o.quantity ELSE 0
  BY <1>9, <1>10 DEF LiveOf
<1>14. \A side, i : LiveQuantity(side, i)' = LiveQuantity(side, i) - LiveOf(o, side, i)
                                                 + LiveOf(u, side, i)
  BY <1>1, <1>3, <1>8, <1>11, LiveAfterChange
<1>15. \A i : TrueHolding(i)' = TrueHolding(i) + MoveOf(e, i)
  BY <1>1, <1>4, <1>5, HoldingAfterFill
<1>16. \A i : MoveOf(e, i) = IF o.instrument = i THEN (IF o.side = "buy" THEN n ELSE -n) ELSE 0
  BY <1>6 DEF MoveOf, Change
<1> HIDE DEF o
<1>17. DeskTyped' /\ CycleSound' /\ OrdersSound' /\ cycle'.todo = {}
  <2>1. orders' \in Seq(DeskOrders) /\ OrdersSound'
    BY <1>3, <1>8, <1>11, OrderChanged
  <2>2. fills' \in Seq(DeskFills)
    BY <1>1, <1>4, <1>5 DEF DeskTyped
  <2>3. cycle' \in Cycles /\ cycle'.todo = {}
    BY <1>1, <1>2, <1>3, IdleCycle
  <2> QED BY <1>1, <1>2, <1>4, <2>1, <2>2, <2>3 DEF DeskTyped, CycleSound
<1>18. fills \in Seq(DeskFills) /\ Len(fills) \in Nat /\ Len(fills') = Len(fills) + 1
  BY <1>1, <1>4 DEF DeskTyped
<1>19. FillsOfThePast'
  <2>1. ASSUME NEW j \in DOMAIN fills' PROVE FillSound(fills'[j])
    <3>1. fills'[j] = e \/ (j \in DOMAIN fills /\ fills'[j] = fills[j])
      BY <1>4, <1>18, <2>1
    <3> QED BY <1>1, <1>5, <3>1 DEF FillsOfThePast
  <2> QED BY <1>4, <2>1 DEF FillsOfThePast, FillSound, Today
<1>20. PortfolioTrue'
  <2>1. portfolio.covers \in Nat /\ portfolio.covers <= Len(fills)
    BY <1>1 DEF DeskTyped, PortfolioTrue
  <2> QED BY <1>4, <1>18, <2>1 DEF PortfolioTrue
<1>21. CommandsWithin'
  BY <1>17 DEF CommandsWithin
<1>22. NeverBeyondTarget'
  <2> SUFFICES ASSUME ~blind, NEW i \in Instruments
               PROVE  /\ TrueHolding(i)' + LiveQuantity("buy", i)' <= limit[i]
                      /\ LiveQuantity("sell", i)' <= TrueHolding(i)'
    BY <1>4 DEF NeverBeyondTarget
  <2>1. /\ TrueHolding(i) + LiveQuantity("buy", i) <= limit[i]
        /\ LiveQuantity("sell", i) <= TrueHolding(i)
    BY <1>1 DEF NeverBeyondTarget
  <2>2. /\ TrueHolding(i) \in Int /\ limit[i] \in Int /\ LiveQuantity("buy", i) \in Nat
        /\ LiveQuantity("sell", i) \in Nat
    BY <1>1, HoldingInt, OrderSums DEF DeskTyped
  <2>3. CASE o.instrument # i
    <3>1. /\ LiveQuantity("buy", i)' = LiveQuantity("buy", i) - 0 + 0
          /\ LiveQuantity("sell", i)' = LiveQuantity("sell", i) - 0 + 0
          /\ TrueHolding(i)' = TrueHolding(i) + 0
      BY <1>12, <1>13, <1>14, <1>15, <1>16, <2>3
    <3> QED BY <2>1, <2>2, <3>1
  <2>4. CASE o.instrument = i /\ o.side = "buy"
    <3>1. /\ LiveQuantity("buy", i)' = LiveQuantity("buy", i) - o.quantity + (o.quantity - n)
          /\ LiveQuantity("sell", i)' = LiveQuantity("sell", i) - 0 + 0
          /\ TrueHolding(i)' = TrueHolding(i) + n
      BY <1>12, <1>13, <1>14, <1>15, <1>16, <2>4
    <3> QED BY ONLY <1>7, <1>9, <2>1, <2>2, <3>1
  <2>5. CASE o.instrument = i /\ o.side = "sell"
    <3>1. /\ LiveQuantity("buy", i)' = LiveQuantity("buy", i) - 0 + 0
          /\ LiveQuantity("sell", i)' = LiveQuantity("sell", i) - o.quantity + (o.quantity - n)
          /\ TrueHolding(i)' = TrueHolding(i) + (-n)
      BY <1>12, <1>13, <1>14, <1>15, <1>16, <2>5
    <3> QED BY ONLY <1>7, <1>9, <2>1, <2>2, <3>1
  <2> QED BY <1>7, <2>3, <2>4, <2>5 DEF Sides
<1> QED BY <1>17, <1>19, <1>20, <1>21, <1>22 DEF DeskInvariant

-----------------------------------------------------------------------------
LEMMA DeskStarts ==
    ASSUME DeskInit
    PROVE  DeskInvariant
<1>1. /\ markets = <<>> /\ wanted = NoTarget /\ cycle = Idle /\ orders = <<>> /\ fills = <<>>
      /\ portfolio = NothingPublished /\ limit = [i \in Instruments |-> 0] /\ blind = FALSE
  BY DEF DeskInit
<1>2. Len(fills) = 0 /\ DOMAIN fills = {} /\ Len(orders) = 0 /\ DOMAIN orders = {}
  BY <1>1
<1>3. DeskTyped
  <2>1. portfolio \in [nav : Int, available : Int, held : [Instruments -> Int], covers : Nat]
    BY <1>1, DeskAssumption DEF NothingPublished
  <2>2. markets \in Seq(Markets) /\ orders \in Seq(DeskOrders) /\ fills \in Seq(DeskFills)
    BY <1>1
  <2>3. limit \in [Instruments -> Int] /\ blind \in BOOLEAN /\ wanted \in TargetSets \cup {NoTarget}
    <3>1. [i \in Instruments |-> 0] \in [Instruments -> Int]
      OBVIOUS
    <3>2. limit \in [Instruments -> Int]
      BY <1>1, <3>1
    <3>3. blind \in BOOLEAN
      BY <1>1
    <3>4. wanted \in TargetSets \cup {NoTarget}
      BY <1>1
    <3> QED BY <3>2, <3>3, <3>4
  <2> QED BY <1>1, <2>1, <2>2, <2>3, IdleCycle DEF DeskTyped
<1>4. CycleSound /\ CommandsWithin
  BY <1>1, IdleCycle DEF CycleSound, CommandsWithin
<1>5. OrdersSound /\ FillsOfThePast
  BY <1>2 DEF OrdersSound, FillsOfThePast
<1>6. ASSUME NEW i
      PROVE  TrueHolding(i) = 0 /\ LiveQuantity("buy", i) = 0 /\ LiveQuantity("sell", i) = 0
  <2>1. ASSUME NEW f, DOMAIN f = {} PROVE SumFunction(f) = 0
    BY <2>1, SumOfNone DEF SumFunction
  <2> DEFINE a == [k \in DOMAIN fills |-> MoveOf(fills[k], i)]
             b == [k \in DOMAIN orders |-> LiveOf(orders[k], "buy", i)]
             c == [k \in DOMAIN orders |-> LiveOf(orders[k], "sell", i)]
  <2>2. DOMAIN a = {} /\ DOMAIN b = {} /\ DOMAIN c = {}
    BY <1>2
  <2>3. TrueHolding(i) = SumFunction(a) /\ LiveQuantity("buy", i) = SumFunction(b)
        /\ LiveQuantity("sell", i) = SumFunction(c)
    BY TrueHoldingIs, LiveQuantityIs
  <2> HIDE DEF a, b, c
  <2> QED BY <2>1, <2>2, <2>3
<1>7. PortfolioTrue /\ NeverBeyondTarget
  BY <1>1, <1>2, <1>6 DEF PortfolioTrue, NothingPublished, NeverBeyondTarget
<1> QED BY <1>3, <1>4, <1>5, <1>7 DEF DeskInvariant

LEMMA DeskStays ==
    ASSUME DeskInvariant, UNCHANGED deskVars
    PROVE  DeskInvariant'
<1>1. UNCHANGED <<markets, wanted, cycle, orders, fills, portfolio, limit, blind>>
  BY DEF deskVars
<1>2. DeskTyped' /\ CycleSound'
  BY <1>1 DEF DeskInvariant, DeskTyped, CycleSound
<1>3. OrdersSound' /\ FillsOfThePast'
  BY <1>1 DEF DeskInvariant, OrdersSound, OrderSound, Remaining, FillsOfThePast, FillSound, Today
<1>4. PortfolioTrue' /\ NeverBeyondTarget'
  BY <1>1, SameHolding, SameLive DEF DeskInvariant, PortfolioTrue, NeverBeyondTarget
<1>5. CommandsWithin'
  BY <1>1, SameHolding, SameLive DEF DeskInvariant, CommandsWithin
<1> QED BY <1>2, <1>3, <1>4, <1>5 DEF DeskInvariant

(* The desk knows what it holds: for any markets, targets and policies, and wherever its
   cycles die, a portfolio that has seen every fill holds what they amount to, commands wait
   only within the limit of their execution, what is left to sell of an order is reserved, and
   every fill is of a day that was traded (operations/strategy.py execute, oms/service.py queue
   and deliver, operations/accounting.py project). *)
THEOREM DeskTheorem == DeskSpec => []DeskInvariant
<1>1. DeskInit => DeskInvariant
  BY DeskStarts
<1>2. DeskInvariant /\ [DeskNext]_deskVars => DeskInvariant'
  <2> SUFFICES ASSUME DeskInvariant, [DeskNext]_deskVars PROVE DeskInvariant'
    OBVIOUS
  <2>1. CASE \/ StartCycle \/ SkipJob \/ ClaimJob \/ ReadTarget \/ EvaluateRisk \/ RiskLimitFails
             \/ OutboxEmpty \/ CrashDesk \/ OperatorResumes
    BY <2>1, QuietActions
  <2>2. CASE StartDay
    BY <2>2, DayKeeps
  <2>3. CASE Size
    BY <2>3, SizeKeeps
  <2>4. CASE \E c \in cycle.todo : QueueOrder(c) \/ CrashInQueue(c)
    BY <2>4, QueueKeeps, CrashInQueueKeeps
  <2>5. CASE \E k \in DOMAIN orders : \/ DeliverUnfilled(k) \/ DeliverFilled(k)
                                      \/ DeliverRaises(k) \/ OperatorCancels(k)
    BY <2>5, UnfilledKeeps, FilledKeeps, CancelKeeps
  <2>6. CASE Project
    BY <2>6, ProjectKeeps
  <2>7. CASE UNCHANGED deskVars
    BY <2>7, DeskStays
  <2> QED BY <2>1, <2>2, <2>3, <2>4, <2>5, <2>6, <2>7 DEF DeskNext
<1> QED BY <1>1, <1>2, PTL DEF DeskSpec

(* NeverBeyondTarget for any markets, targets, policies and interruptions: orders left over by
   crashes, refusals and unfinished days are neither bought twice nor sold twice
   (operations/strategy.py, execute over projected positions). *)
THEOREM TargetTheorem == DeskSpec => []NeverBeyondTarget
<1>1. DeskInvariant => NeverBeyondTarget
  BY DEF DeskInvariant
<1> QED BY <1>1, DeskTheorem, PTL

-----------------------------------------------------------------------------
(* The replay over any sequence of fills and markets. *)
PlayFill(l, fill, d) == IF fill.day = d THEN ApplyFill(l, fill, d, DeskHorizon) ELSE l

\* The ledgers of a day, between the first n fills.
Plays(f, l, fs, n, d) ==
    f = [k \in 0 .. n |-> IF k = 0 THEN ProcessSettlements(l, d, 10 * d)
                          ELSE PlayFill(f[k - 1], fs[k], d)]

\* The ledger of a day when all its fills are in and no price is marked.
Played(l, fs, d) == (CHOOSE f : Plays(f, l, fs, Len(fs), d))[Len(fs)]

Marked(l, m) == AgeUnmarked(MarkAll(l, [i \in Instruments |-> m[i].price]), Instruments)

PlayDay(l, fs, m, d) == IF ~Good(l) THEN l ELSE Marked(Played(l, fs, d), m)

(* The ledgers of a day are a function of the fill. *)
LEMMA PlaysExist ==
    ASSUME NEW l, NEW fs, NEW d, NEW n \in Nat
    PROVE  \E f : Plays(f, l, fs, n, d)
<1> DEFINE bad == {k \in Nat : ~\E f : Plays(f, l, fs, k, d)}
           start == ProcessSettlements(l, d, 10 * d)
<1> SUFFICES ASSUME bad # {} PROVE FALSE
  OBVIOUS
<1>1. PICK k \in bad : \A j \in bad : k <= j
  BY LeastNumber
<1>2. CASE k = 0
  <2> DEFINE f == [j \in 0 .. 0 |-> start]
  <2>1. f = [j \in 0 .. 0 |-> IF j = 0 THEN start ELSE PlayFill(f[j - 1], fs[j], d)]
    OBVIOUS
  <2> HIDE DEF f
  <2>2. Plays(f, l, fs, k, d)
    BY <1>2, <2>1 DEF Plays
  <2> QED BY <2>2
<1>3. CASE k # 0
  <2>1. k - 1 \in Nat /\ k - 1 \notin bad
    BY <1>1, <1>3
  <2>2. PICK g : Plays(g, l, fs, k - 1, d)
    BY <2>1
  <2> DEFINE f == [j \in 0 .. k |-> IF j = k THEN PlayFill(g[k - 1], fs[k], d) ELSE g[j]]
  <2>3. \A j \in 0 .. k - 1 : g[j] = IF j = 0 THEN start ELSE PlayFill(g[j - 1], fs[j], d)
    BY <2>2, Zenon DEF Plays
  <2> HIDE DEF start
  <2>4. \A j \in 0 .. k : f[j] = IF j = 0 THEN start ELSE PlayFill(f[j - 1], fs[j], d)
    <3> SUFFICES ASSUME NEW j \in 0 .. k
                 PROVE  f[j] = IF j = 0 THEN start ELSE PlayFill(f[j - 1], fs[j], d)
      OBVIOUS
    <3>1. CASE j = k
      <4>1. f[j] = PlayFill(g[k - 1], fs[k], d) /\ f[j - 1] = g[k - 1]
        BY <1>1, <1>3, <3>1
      <4> HIDE DEF f
      <4> QED BY <1>3, <3>1, <4>1
    <3>2. CASE j # k
      <4>1. j \in 0 .. k - 1 /\ f[j] = g[j]
        BY <1>1, <3>2
      <4>2. j # 0 => f[j - 1] = g[j - 1]
        BY <1>1, <4>1
      <4> HIDE DEF f
      <4> QED BY <2>3, <4>1, <4>2
    <3> QED BY <3>1, <3>2
  <2>5. DOMAIN f = 0 .. k /\ f = [j \in DOMAIN f |-> f[j]]
    OBVIOUS
  <2> HIDE DEF f
  <2>6. Plays(f, l, fs, k, d)
    BY <2>4, <2>5 DEF Plays, start
  <2> QED BY <2>6
<1> QED BY <1>2, <1>3

(* Sequences of fills that begin alike are replayed alike. *)
LEMMA PlaysAgree ==
    ASSUME NEW l, NEW d, NEW n \in Nat, NEW p \in Nat, n <= p,
           NEW fs, NEW f, Plays(f, l, fs, n, d),
           NEW gs, NEW g, Plays(g, l, gs, p, d),
           \A k \in 1 .. n : fs[k] = gs[k]
    PROVE  \A k \in 0 .. n : f[k] = g[k]
<1> DEFINE bad == {k \in 0 .. n : f[k] # g[k]}
           start == ProcessSettlements(l, d, 10 * d)
<1> SUFFICES ASSUME bad # {} PROVE FALSE
  OBVIOUS
<1>1. \A k \in 0 .. n : f[k] = IF k = 0 THEN start ELSE PlayFill(f[k - 1], fs[k], d)
  BY Zenon DEF Plays
<1>2. \A k \in 0 .. p : g[k] = IF k = 0 THEN start ELSE PlayFill(g[k - 1], gs[k], d)
  BY Zenon DEF Plays
<1>3. bad \subseteq Nat
  OBVIOUS
<1>4. PICK k \in bad : \A j \in bad : k <= j
  BY <1>3, LeastNumber
<1> HIDE DEF start
<1>5. k \in 0 .. n /\ k \in 0 .. p /\ f[k] # g[k]
  BY <1>4
<1>6. CASE k = 0
  BY <1>1, <1>2, <1>5, <1>6
<1>7. CASE k # 0
  <2>1. k \in 1 .. n /\ k - 1 \in 0 .. n /\ k - 1 \notin bad
    BY <1>4, <1>5, <1>7
  <2>2. f[k - 1] = g[k - 1] /\ fs[k] = gs[k]
    BY <2>1
  <2> QED BY <1>1, <1>2, <1>5, <1>7, <2>2
<1> QED BY <1>6, <1>7

(* The replay of no fill settles, and one more fill is played after the others. *)
LEMMA PlayedOver ==
    ASSUME NEW S, NEW fs \in Seq(S), NEW x, NEW d, NEW l
    PROVE  /\ fs = <<>> => Played(l, fs, d) = ProcessSettlements(l, d, 10 * d)
           /\ Played(l, Append(fs, x), d) = PlayFill(Played(l, fs, d), x, d)
<1> DEFINE n == Len(fs)
           gs == Append(fs, x)
           f == CHOOSE ff : Plays(ff, l, fs, Len(fs), d)
           g == CHOOSE ff : Plays(ff, l, gs, Len(gs), d)
<1>1. n \in Nat /\ Len(gs) = n + 1 /\ gs[n + 1] = x /\ \A k \in 1 .. n : fs[k] = gs[k]
  OBVIOUS
<1>2. Plays(f, l, fs, n, d) /\ Plays(g, l, gs, n + 1, d)
  <2>1. Len(fs) \in Nat /\ Len(gs) \in Nat
    BY <1>1
  <2>2. Plays(f, l, fs, Len(fs), d)
    BY <2>1, PlaysExist
  <2>3. Plays(g, l, gs, Len(gs), d)
    BY <2>1, PlaysExist
  <2> QED BY <1>1, <2>2, <2>3
<1>3. Played(l, fs, d) = f[n] /\ Played(l, gs, d) = g[n + 1]
  BY <1>1 DEF Played
<1>4. fs = <<>> => n = 0
  OBVIOUS
<1> HIDE DEF f, g, gs, n
<1>5. n + 1 \in Nat /\ n <= n + 1 /\ n \in 0 .. n /\ n + 1 \in 0 .. n + 1 /\ n + 1 # 0
      /\ (n + 1) - 1 = n
  BY <1>1
<1>6. f[n] = g[n]
  <2> DEFINE p == n + 1
  <2>1. /\ n \in Nat /\ p \in Nat /\ n <= p /\ Plays(f, l, fs, n, d) /\ Plays(g, l, gs, p, d)
        /\ \A k \in 1 .. n : fs[k] = gs[k]
    BY <1>1, <1>2, <1>5
  <2> HIDE DEF p
  <2>2. \A k \in 0 .. n : f[k] = g[k]
    BY ONLY <2>1, PlaysAgree
  <2> QED BY <1>5, <2>2
<1>7. g[n + 1] = PlayFill(g[n], gs[n + 1], d)
  <2>1. \A k \in 0 .. n + 1 : g[k] = IF k = 0 THEN ProcessSettlements(l, d, 10 * d)
                                     ELSE PlayFill(g[k - 1], gs[k], d)
    BY <1>2, Zenon DEF Plays
  <2> QED BY <1>5, <2>1
<1>8. f[n] = IF n = 0 THEN ProcessSettlements(l, d, 10 * d) ELSE PlayFill(f[n - 1], fs[n], d)
  <2>1. \A k \in 0 .. n : f[k] = IF k = 0 THEN ProcessSettlements(l, d, 10 * d)
                                 ELSE PlayFill(f[k - 1], fs[k], d)
    BY <1>2, Zenon DEF Plays
  <2> QED BY <1>5, <2>1
<1> QED BY <1>1, <1>3, <1>4, <1>6, <1>7, <1>8 DEF gs

(* A day without fills only settles. *)
LEMMA PlayedNothing ==
    ASSUME NEW S, NEW fs \in Seq(S), NEW d, \A k \in DOMAIN fs : fs[k].day # d, NEW l
    PROVE  Played(l, fs, d) = ProcessSettlements(l, d, 10 * d)
<1> DEFINE n == Len(fs)
           start == ProcessSettlements(l, d, 10 * d)
           f == CHOOSE ff : Plays(ff, l, fs, Len(fs), d)
           bad == {k \in 0 .. n : f[k] # start}
<1>1. n \in Nat /\ DOMAIN fs = 1 .. n
  OBVIOUS
<1>2. Plays(f, l, fs, n, d) /\ Played(l, fs, d) = f[n]
  BY <1>1, PlaysExist DEF Played
<1> HIDE DEF f, n
<1>3. \A k \in 0 .. n : f[k] = IF k = 0 THEN start ELSE PlayFill(f[k - 1], fs[k], d)
  BY <1>2, Zenon DEF Plays
<1> HIDE DEF start
<1>4. bad = {}
  <2> SUFFICES ASSUME bad # {} PROVE FALSE
    OBVIOUS
  <2>1. bad \subseteq Nat
    BY <1>1
  <2>2. PICK k \in bad : \A j \in bad : k <= j
    BY <2>1, LeastNumber
  <2>3. k \in 0 .. n /\ k # 0
    BY <1>3, <2>2
  <2>4. k - 1 \in 0 .. n /\ k - 1 \notin bad /\ k \in DOMAIN fs
    BY <1>1, <2>2, <2>3
  <2>5. f[k] = f[k - 1]
    BY <1>3, <2>3, <2>4 DEF PlayFill
  <2> QED BY <2>2, <2>4, <2>5
<1> QED BY <1>1, <1>2, <1>4 DEF start

(* The ledgers at the end of the first n days. *)
PlaysDays(h, fs, ms, n) ==
    h = [d \in 0 .. n |-> IF d = 0 THEN OpenLedger(DeskCash, 0)
                          ELSE PlayDay(h[d - 1], fs, ms[d], d)]

\* The ledger at the end of day n, and that of the n-th day before its marks.
Past(fs, ms, n) == (CHOOSE h : PlaysDays(h, fs, ms, n))[n]

Ongoing(fs, ms, n) ==
    IF n = 0 THEN OpenLedger(DeskCash, 0) ELSE Played(Past(fs, ms, n - 1), fs, n)

(* The ledgers of the days are a function of the day. *)
LEMMA PlaysDaysExist ==
    ASSUME NEW fs, NEW ms, NEW n \in Nat
    PROVE  \E h : PlaysDays(h, fs, ms, n)
<1> DEFINE bad == {d \in Nat : ~\E h : PlaysDays(h, fs, ms, d)}
           start == OpenLedger(DeskCash, 0)
<1> SUFFICES ASSUME bad # {} PROVE FALSE
  OBVIOUS
<1>1. PICK d \in bad : \A j \in bad : d <= j
  BY LeastNumber
<1>2. CASE d = 0
  <2> DEFINE f == [j \in 0 .. 0 |-> start]
  <2>1. f = [j \in 0 .. 0 |-> IF j = 0 THEN start ELSE PlayDay(f[j - 1], fs, ms[j], j)]
    OBVIOUS
  <2> HIDE DEF f
  <2>2. PlaysDays(f, fs, ms, d)
    BY <1>2, <2>1 DEF PlaysDays
  <2> QED BY <2>2
<1>3. CASE d # 0
  <2>1. d - 1 \in Nat /\ d - 1 \notin bad
    BY <1>1, <1>3
  <2>2. PICK g : PlaysDays(g, fs, ms, d - 1)
    BY <2>1
  <2> DEFINE f == [j \in 0 .. d |-> IF j = d THEN PlayDay(g[d - 1], fs, ms[d], d) ELSE g[j]]
  <2>3. \A j \in 0 .. d - 1 : g[j] = IF j = 0 THEN start ELSE PlayDay(g[j - 1], fs, ms[j], j)
    BY <2>2, Zenon DEF PlaysDays
  <2> HIDE DEF start
  <2>4. \A j \in 0 .. d : f[j] = IF j = 0 THEN start ELSE PlayDay(f[j - 1], fs, ms[j], j)
    <3> SUFFICES ASSUME NEW j \in 0 .. d
                 PROVE  f[j] = IF j = 0 THEN start ELSE PlayDay(f[j - 1], fs, ms[j], j)
      OBVIOUS
    <3>1. CASE j = d
      <4>1. f[j] = PlayDay(g[d - 1], fs, ms[d], d) /\ f[j - 1] = g[d - 1]
        BY <1>1, <1>3, <3>1
      <4> HIDE DEF f
      <4> QED BY <1>3, <3>1, <4>1
    <3>2. CASE j # d
      <4>1. j \in 0 .. d - 1 /\ f[j] = g[j]
        BY <1>1, <3>2
      <4>2. j # 0 => f[j - 1] = g[j - 1]
        BY <1>1, <4>1
      <4> HIDE DEF f
      <4> QED BY <2>3, <4>1, <4>2
    <3> QED BY <3>1, <3>2
  <2>5. DOMAIN f = 0 .. d /\ f = [j \in DOMAIN f |-> f[j]]
    OBVIOUS
  <2> HIDE DEF f
  <2>6. PlaysDays(f, fs, ms, d)
    BY <2>4, <2>5 DEF PlaysDays, start
  <2> QED BY <2>6
<1> QED BY <1>2, <1>3

(* Days whose replays agree lead to the same ledgers. *)
LEMMA PlaysDaysAgree ==
    ASSUME NEW n \in Nat, NEW p \in Nat, n <= p,
           NEW fs, NEW ms, NEW f, PlaysDays(f, fs, ms, n),
           NEW gs, NEW ns, NEW g, PlaysDays(g, gs, ns, p),
           \A d \in 1 .. n : \A l : PlayDay(l, fs, ms[d], d) = PlayDay(l, gs, ns[d], d)
    PROVE  \A d \in 0 .. n : f[d] = g[d]
<1> DEFINE bad == {d \in 0 .. n : f[d] # g[d]}
           start == OpenLedger(DeskCash, 0)
<1> SUFFICES ASSUME bad # {} PROVE FALSE
  OBVIOUS
<1>1. \A d \in 0 .. n : f[d] = IF d = 0 THEN start ELSE PlayDay(f[d - 1], fs, ms[d], d)
  BY Zenon DEF PlaysDays
<1>2. \A d \in 0 .. p : g[d] = IF d = 0 THEN start ELSE PlayDay(g[d - 1], gs, ns[d], d)
  BY Zenon DEF PlaysDays
<1>3. bad \subseteq Nat
  OBVIOUS
<1>4. PICK d \in bad : \A j \in bad : d <= j
  BY <1>3, LeastNumber
<1> HIDE DEF start
<1>5. d \in 0 .. n /\ d \in 0 .. p /\ f[d] # g[d]
  BY <1>4
<1>6. CASE d = 0
  BY <1>1, <1>2, <1>5, <1>6
<1>7. CASE d # 0
  <2>1. d \in 1 .. n /\ d - 1 \in 0 .. n /\ d - 1 \notin bad
    BY <1>4, <1>5, <1>7
  <2>2. f[d - 1] = g[d - 1]
    BY <2>1
  <2>3. \A l : PlayDay(l, fs, ms[d], d) = PlayDay(l, gs, ns[d], d)
    BY <2>1
  <2>4. f[d] = PlayDay(f[d - 1], fs, ms[d], d) /\ g[d] = PlayDay(g[d - 1], gs, ns[d], d)
    BY <1>1, <1>2, <1>5, <1>7
  <2> QED BY <1>5, <2>2, <2>3, <2>4
<1> QED BY <1>6, <1>7

(* Ledgers of pasts that agree. *)
LEMMA PastAgrees ==
    ASSUME NEW n \in Nat, NEW fs, NEW ms, NEW gs, NEW ns,
           \A d \in 1 .. n : \A l : PlayDay(l, fs, ms[d], d) = PlayDay(l, gs, ns[d], d)
    PROVE  Past(fs, ms, n) = Past(gs, ns, n)
<1> DEFINE f == CHOOSE h : PlaysDays(h, fs, ms, n)
           g == CHOOSE h : PlaysDays(h, gs, ns, n)
<1>1. PlaysDays(f, fs, ms, n)
  BY PlaysDaysExist
<1>2. PlaysDays(g, gs, ns, n)
  BY PlaysDaysExist
<1>3. Past(fs, ms, n) = f[n] /\ Past(gs, ns, n) = g[n]
  BY DEF Past
<1> HIDE DEF f, g
<1>4. n <= n /\ n \in 0 .. n
  OBVIOUS
<1>5. \A d \in 0 .. n : f[d] = g[d]
  BY <1>1, <1>2, <1>4, PlaysDaysAgree
<1> QED BY <1>3, <1>4, <1>5

(* One day after the other. *)
LEMMA PastNext ==
    ASSUME NEW n \in Nat, NEW fs, NEW ms
    PROVE  /\ Past(fs, ms, 0) = OpenLedger(DeskCash, 0)
           /\ n # 0 => Past(fs, ms, n) = PlayDay(Past(fs, ms, n - 1), fs, ms[n], n)
<1>1. \A p \in Nat : \E h : PlaysDays(h, fs, ms, p) /\ Past(fs, ms, p) = h[p]
  <2> SUFFICES ASSUME NEW p \in Nat
               PROVE  \E h : PlaysDays(h, fs, ms, p) /\ Past(fs, ms, p) = h[p]
    OBVIOUS
  <2> DEFINE f == CHOOSE h : PlaysDays(h, fs, ms, p)
  <2>1. PlaysDays(f, fs, ms, p)
    BY PlaysDaysExist
  <2>2. Past(fs, ms, p) = f[p]
    BY DEF Past
  <2> QED BY <2>1, <2>2
<1>2. Past(fs, ms, 0) = OpenLedger(DeskCash, 0)
  <2>1. PICK h : PlaysDays(h, fs, ms, 0) /\ Past(fs, ms, 0) = h[0]
    BY <1>1
  <2>2. \A d \in 0 .. 0 : h[d] = IF d = 0 THEN OpenLedger(DeskCash, 0)
                                 ELSE PlayDay(h[d - 1], fs, ms[d], d)
    BY <2>1, Zenon DEF PlaysDays
  <2> QED BY <2>1, <2>2
<1>3. CASE n # 0
  <2> DEFINE p == n - 1
  <2>1. p \in Nat /\ p <= n /\ p \in 0 .. p /\ n \in 0 .. n
    BY <1>3
  <2>2. PICK f : PlaysDays(f, fs, ms, p) /\ Past(fs, ms, p) = f[p]
    BY <1>1, <2>1
  <2>3. PICK g : PlaysDays(g, fs, ms, n) /\ Past(fs, ms, n) = g[n]
    BY <1>1
  <2> HIDE DEF p
  <2>4. \A d \in 0 .. p : f[d] = g[d]
    <3>1. \A d \in 1 .. p : \A l : PlayDay(l, fs, ms[d], d) = PlayDay(l, fs, ms[d], d)
      OBVIOUS
    <3> QED BY <2>1, <2>2, <2>3, <3>1, PlaysDaysAgree
  <2>5. \A d \in 0 .. n : g[d] = IF d = 0 THEN OpenLedger(DeskCash, 0)
                                 ELSE PlayDay(g[d - 1], fs, ms[d], d)
    BY <2>3, Zenon DEF PlaysDays
  <2>6. g[n] = PlayDay(g[n - 1], fs, ms[n], n)
    BY <1>3, <2>1, <2>5
  <2>7. g[n - 1] = f[p]
    BY <2>1, <2>4 DEF p
  <2> QED BY <1>2, <2>2, <2>3, <2>6, <2>7 DEF p
<1> QED BY <1>2, <1>3

(* A day of project is a day of this replay, over the fills and the markets of the desk. *)
LEMMA ReplayDayIs ==
    ASSUME NEW l, NEW d PROVE ReplayDay(l, d) = PlayDay(l, fills, markets[d], d)
BY DEF ReplayDay, ReplayDeskFill, PlayDay, Played, Plays, PlayFill, Marked

(* And so is the whole. *)
LEMMA ReplayedIs ==
    ASSUME DeskTyped PROVE Replayed = Past(fills, markets, Today)
<1> DEFINE f == CHOOSE h : DaysReplay(h, Today)
           g == CHOOSE h : PlaysDays(h, fills, markets, Today)
<1>1. Today \in Nat
  BY DEF DeskTyped, Today
<1>2. DaysReplay(f, Today) /\ PlaysDays(g, fills, markets, Today)
  BY <1>1, DaysReplayExists, PlaysDaysExist
<1>3. Replayed = f[Today] /\ Past(fills, markets, Today) = g[Today]
  BY DEF Replayed, DaysReplay, Past
<1> HIDE DEF f, g
<1> DEFINE n == Today
<1> HIDE DEF n
<1>4. PlaysDays(f, fills, markets, n)
  <2>1. f = [d \in 0 .. n |-> IF d = 0 THEN OpenLedger(DeskCash, 0) ELSE ReplayDay(f[d - 1], d)]
    BY <1>2 DEF DaysReplay, n
  <2>2. \A l, d : ReplayDay(l, d) = PlayDay(l, fills, markets[d], d)
    BY ReplayDayIs
  <2> QED BY <2>1, <2>2 DEF PlaysDays
<1>5. n \in Nat /\ n <= n /\ n \in 0 .. n
  BY <1>1 DEF n
<1>6. \A d \in 1 .. n : \A l : PlayDay(l, fills, markets[d], d) = PlayDay(l, fills, markets[d], d)
  OBVIOUS
<1>7. PlaysDays(g, fills, markets, n)
  BY <1>2 DEF n
<1>8. \A d \in 0 .. n : f[d] = g[d]
  BY ONLY <1>4, <1>5, <1>6, <1>7, PlaysDaysAgree
<1> QED BY <1>3, <1>5, <1>8 DEF n

(* A fill of today is played into the ledger of today, and leaves the past alone. *)
LEMMA OngoingFill ==
    ASSUME NEW S, NEW fs \in Seq(S), NEW x, NEW ms, NEW n \in Nat, n # 0, x.day = n
    PROVE  /\ Past(Append(fs, x), ms, n - 1) = Past(fs, ms, n - 1)
           /\ Ongoing(Append(fs, x), ms, n) = ApplyFill(Ongoing(fs, ms, n), x, n, DeskHorizon)
<1> DEFINE gs == Append(fs, x)
<1>1. ASSUME NEW d \in 1 .. n - 1, NEW l
      PROVE  PlayDay(l, gs, ms[d], d) = PlayDay(l, fs, ms[d], d)
  <2>1. Played(l, gs, d) = PlayFill(Played(l, fs, d), x, d)
    BY PlayedOver
  <2>2. x.day # d
    BY <1>1
  <2> QED BY <2>1, <2>2 DEF PlayDay, PlayFill
<1>2. n - 1 \in Nat
  OBVIOUS
<1>3. Past(gs, ms, n - 1) = Past(fs, ms, n - 1)
  <2> DEFINE p == n - 1
  <2>1. p \in Nat /\ \A d \in 1 .. p : \A l : PlayDay(l, gs, ms[d], d) = PlayDay(l, fs, ms[d], d)
    BY <1>1, <1>2
  <2> HIDE DEF p, gs
  <2>2. Past(gs, ms, p) = Past(fs, ms, p)
    BY ONLY <2>1, PastAgrees
  <2> QED BY <2>2 DEF p
<1> DEFINE l == Past(fs, ms, n - 1)
<1>4. Played(l, gs, n) = PlayFill(Played(l, fs, n), x, n)
  BY PlayedOver
<1> QED BY <1>3, <1>4 DEF Ongoing, PlayFill

(* A new day settles what the day before left, which its market does not change. *)
LEMMA OngoingDay ==
    ASSUME NEW S, NEW fs \in Seq(S), NEW M, NEW ms \in Seq(M), NEW m, NEW n, n = Len(ms),
           \A k \in DOMAIN fs : fs[k].day # n + 1
    PROVE  /\ Past(fs, Append(ms, m), n) = Past(fs, ms, n)
           /\ Ongoing(fs, Append(ms, m), n + 1)
                 = ProcessSettlements(Past(fs, ms, n), n + 1, 10 * (n + 1))
<1> DEFINE ns == Append(ms, m)
<1>1. n \in Nat /\ \A d \in 1 .. n : ns[d] = ms[d]
  OBVIOUS
<1>2. Past(fs, ns, n) = Past(fs, ms, n)
  <2>1. \A d \in 1 .. n : \A l : PlayDay(l, fs, ns[d], d) = PlayDay(l, fs, ms[d], d)
    BY <1>1
  <2> HIDE DEF ns
  <2> QED BY ONLY <1>1, <2>1, PastAgrees
<1> HIDE DEF ns
<1>3. n + 1 # 0 /\ (n + 1) - 1 = n
  BY <1>1
<1>4. Ongoing(fs, ns, n + 1) = Played(Past(fs, ns, n), fs, n + 1)
  BY <1>3 DEF Ongoing
<1> DEFINE d == n + 1
<1>5. \A k \in DOMAIN fs : fs[k].day # d
  OBVIOUS
<1> HIDE DEF d
<1>6. \A l : Played(l, fs, d) = ProcessSettlements(l, d, 10 * d)
  BY <1>5, PlayedNothing
<1> QED BY <1>2, <1>4, <1>6 DEF d, ns

(* The ledger at the end of a day is that of the day with its marks. *)
LEMMA PastOngoing ==
    ASSUME NEW fs, NEW ms, NEW n \in Nat, n # 0 => Good(Past(fs, ms, n - 1))
    PROVE  Past(fs, ms, n) = IF n = 0 THEN Ongoing(fs, ms, n) ELSE Marked(Ongoing(fs, ms, n), ms[n])
BY PastNext DEF Ongoing, PlayDay

-----------------------------------------------------------------------------
(* A ledger in which nothing is wrong, which owes no more than it has, and which no sale made
   poorer. *)
Solvent(l) == Sound(l) /\ SalesPayIn(l) /\ Available(l) >= 0

(* The marks of a day change no figure of the cash, and leave no mark stale. *)
LEMMA MarkedFacts ==
    ASSUME NEW l, Solvent(l), NEW m, ValidMarket(m)
    PROVE  LET n == Marked(l, m)
           IN /\ Solvent(n) /\ n.lastAt = l.lastAt /\ Available(n) = Available(l)
              /\ \A i \in Instruments : n.positions[i].quantity = l.positions[i].quantity
              /\ Checked(n) = n
<1> DEFINE price == [i \in Instruments |-> m[i].price]
           k == MarkAll(l, price)
           n == Marked(l, m)
<1>1. \A i \in Instruments \cap DOMAIN price : price[i] \in Int
  BY DEF ValidMarket
<1>2. Sound(l) /\ LedgerTyped(l) /\ Good(l) /\ KnownShares(l) /\ Available(l) >= 0 /\ SalesPayIn(l)
  BY DEF Solvent, Sound
<1>3. DOMAIN l = Fields /\ l.positions \in [Instruments -> Positions]
  BY <1>2 DEF LedgerTyped
<1>4. \A i \in Instruments : k.positions[i] = Mark(l, i, price[i]).positions[i]
  BY <1>3 DEF MarkAll, Fields
<1>5. ASSUME NEW i \in Instruments, l.positions[i].known
      PROVE  Mark(l, i, price[i]).positions[i].stale = 0
  BY <1>2, <1>3, <1>5 DEF Mark, Fields, Positions
<1> HIDE DEF price
<1>6. Sound(k) /\ k.lastAt = l.lastAt
  BY <1>1, <1>2, MarkSound
<1>7. /\ SameCash(l, k)
      /\ \A i \in Instruments : k.positions[i].quantity = l.positions[i].quantity
  BY <1>1, <1>2, MarkFacts
<1>8. n = AgeUnmarked(k, Instruments)
  BY DEF Marked, price
<1>9. \A i \in Instruments : k.positions[i].quantity # 0 => k.positions[i].stale = 0
  BY <1>2, <1>4, <1>5, <1>7 DEF KnownShares
<1> HIDE DEF k, n
<1>10. LedgerTyped(k) /\ Good(k) /\ DOMAIN k = Fields /\ k.positions \in [Instruments -> Positions]
  BY <1>6 DEF Sound, LedgerTyped
<1>11. Sound(n) /\ n.lastAt = k.lastAt
  BY <1>6, <1>8, AgeSound
<1>12. /\ SameCash(k, n)
       /\ \A i \in Instruments : n.positions[i].quantity = k.positions[i].quantity
  BY <1>8, <1>10, AgeFacts
<1>13. \A i \in Instruments : n.positions[i] = k.positions[i]
  BY <1>8, <1>10 DEF AgeUnmarked, Fields
<1>14. Available(n) = Available(l) /\ n.pending = l.pending /\ Available(n) >= 0
  BY <1>2, <1>7, <1>12 DEF SameCash
<1>15. Solvent(n)
  BY <1>2, <1>11, <1>14 DEF Solvent, SalesPayIn
<1>16. Checked(n) = n
  <2>1. Reconcile(n) = n
    BY <1>11, <1>14, SoundReconciles
  <2>2. ~\E i \in Instruments : /\ n.positions[i].quantity # 0
                                /\ n.positions[i].stale > MaximumStaleSessions
    BY <1>9, <1>13, LedgerAssumption
  <2> QED BY <2>1, <2>2 DEF Checked
<1> QED BY <1>6, <1>7, <1>11, <1>12, <1>14, <1>15, <1>16 DEF n

(* The settlements of a solvent account go through, and leave at least as much available. *)
LEMMA SettlementsPay ==
    ASSUME NEW l, Solvent(l), NEW date \in Nat, NEW at \in Int, l.lastAt <= at
    PROVE  LET m == ProcessSettlements(l, date, at)
           IN Solvent(m) /\ m.lastAt <= at /\ Available(m) >= Available(l)
<1> DEFINE s == SettleTrades(l, date, at)
           n == PayDividends(s, date, at)
           m == ProcessSettlements(l, date, at)
<1>1. m = Reconcile(n)
  BY DEF ProcessSettlements
<1>2. Sound(l) /\ LedgerTyped(l) /\ SalesPayIn(l) /\ Available(l) >= 0
  BY DEF Solvent, Sound
<1>3. Sound(s) /\ s.lastAt <= at
  BY <1>2, SettleTradesSound
<1>4. LedgerTyped(s) /\ Good(s)
  BY <1>3 DEF Sound
<1>5. SettledFrom(l, s)
  BY <1>2, <1>4, SettleTradesFacts
<1> HIDE DEF s
<1>6. Sound(n) /\ n.lastAt <= at
  BY <1>3, PayDividendsSound
<1>7. LedgerTyped(n) /\ Good(n)
  BY <1>6 DEF Sound
<1>8. SettledFrom(s, n)
  BY <1>4, <1>7, PayDividendsFacts
<1> HIDE DEF n, m
<1>9. SalesPayIn(s) /\ Available(s) >= Available(l)
  BY <1>2, <1>5 DEF SettledFrom, SalesPayIn
<1>10. SalesPayIn(n) /\ Available(n) >= Available(s)
  BY <1>8, <1>9 DEF SettledFrom, SalesPayIn
<1>11. Available(l) \in Int /\ Available(s) \in Int /\ Available(n) \in Int
  BY <1>2, <1>4, <1>7, LedgerNumbers
<1>12. Available(n) >= Available(l) /\ Available(n) >= 0
  BY ONLY <1>2, <1>9, <1>10, <1>11
<1>13. m = n
  BY <1>1, <1>6, <1>12, SoundReconciles
<1> QED BY <1>6, <1>10, <1>12, <1>13 DEF Solvent, m

(* A fill that the account can pay, and a sale of shares it has. *)
Payable(l, fill) ==
    /\ Spent(fill) <= Available(l)
    /\ fill.side = "sell" => /\ fill.quantity <= l.positions[fill.instrument].quantity
                             /\ fill.fee + fill.tax <= fill.price * fill.quantity

(* A fill that can be paid goes through, and takes what it spends. *)
LEMMA FillPays ==
    ASSUME NEW l, Solvent(l), NEW fill, FillTyped(fill), Payable(l, fill),
           NEW date \in Nat, NEW horizon \in Nat, date + SettlementLag <= horizon, date # 0,
           fill.at \in Int, l.lastAt <= fill.at
    PROVE  LET m == ApplyFill(l, fill, date, horizon)
           IN Solvent(m) /\ m.lastAt = fill.at /\ Available(m) = Available(l) - Spent(fill)
<1> DEFINE m == ApplyFill(l, fill, date, horizon)
<1>1. Sound(l) /\ LedgerTyped(l) /\ SalesPayIn(l) /\ Available(l) >= 0 /\ l.pending \in Seq(Items)
  BY DEF Solvent, Sound, LedgerTyped
<1>2. DueDate(date, horizon) # 0
  BY PolicyAssumption DEF DueDate
<1>3. Sound(m) /\ m.lastAt = fill.at
  BY <1>1, <1>2, FillBooked DEF Payable
<1>4. Good(m)
  BY <1>3 DEF Sound
<1>5. /\ Available(m) = Available(l) - Spent(fill) /\ Available(m) >= 0
      /\ m.pending = Append(l.pending, Obligation(fill, date + SettlementLag, Owing(fill)))
  BY <1>1, <1>4, FillFacts
<1> HIDE DEF m
<1>6. Owing(fill) >= 0
  <2>1. /\ fill.side \in Sides /\ fill.fee \in Nat /\ fill.tax \in Nat
        /\ fill.price \in Nat /\ fill.quantity \in Nat
    BY DEF FillTyped
  <2> DEFINE gross == fill.price * fill.quantity
  <2>2. gross \in Nat
    BY <2>1
  <2>3. fill.side = "sell" => fill.fee + fill.tax <= gross
    BY DEF Payable
  <2>4. Owing(fill) = IF fill.side = "buy" THEN gross + fill.fee ELSE gross - fill.fee - fill.tax
    BY DEF Owing, Proceeds
  <2> HIDE DEF gross
  <2>5. CASE fill.side = "buy"
    BY <2>1, <2>2, <2>4, <2>5
  <2>6. CASE fill.side = "sell"
    BY <2>1, <2>2, <2>3, <2>4, <2>6
  <2> QED BY <2>1, <2>5, <2>6 DEF Sides
<1>7. SalesPayIn(m)
  <2> DEFINE item == Obligation(fill, date + SettlementLag, Owing(fill))
  <2>1. item.amount = Owing(fill)
    BY DEF Obligation
  <2> HIDE DEF item
  <2>2. m.pending = Append(l.pending, item)
    BY <1>5 DEF item
  <2>3. \A k \in DOMAIN m.pending : m.pending[k] = item \/ (k \in DOMAIN l.pending
                                                            /\ m.pending[k] = l.pending[k])
    BY <1>1, <2>2
  <2> QED BY <1>1, <1>6, <2>1, <2>3 DEF SalesPayIn
<1> QED BY <1>3, <1>5, <1>7 DEF Solvent, m

(* The replay of the past goes through, and today's ledger, which is as solvent, has the cash
   that the orders to come may spend and that the published portfolio promises. *)
Backed(fs, ms, c, p) ==
    LET n == Len(ms)
        l == Ongoing(fs, ms, n)
    IN  /\ n # 0 => Good(Past(fs, ms, n - 1))
        /\ Solvent(l) /\ l.lastAt <= 10 * n + 1
        /\ c <= Available(l)
        /\ p.covers = Len(fs) => p.available <= Available(l)

(* The end of the day of such a ledger. *)
LEMMA PastBacked ==
    ASSUME NEW fs, NEW ms \in Seq(Markets), NEW c, NEW p, Backed(fs, ms, c, p)
    PROVE  LET n == Len(ms)
               l == Ongoing(fs, ms, n)
               e == Past(fs, ms, n)
           IN /\ Solvent(e) /\ e.lastAt = l.lastAt /\ Available(e) = Available(l)
              /\ \A i \in Instruments : e.positions[i].quantity = l.positions[i].quantity
              /\ n # 0 => Checked(e) = e
<1> DEFINE n == Len(ms)
           l == Ongoing(fs, ms, n)
           e == Past(fs, ms, n)
<1>1. n \in Nat /\ (n # 0 => ms[n] \in Markets)
  OBVIOUS
<1>2. (n # 0 => Good(Past(fs, ms, n - 1))) /\ Solvent(l)
  BY DEF Backed
<1> HIDE DEF n
<1>3. e = IF n = 0 THEN l ELSE Marked(l, ms[n])
  BY <1>1, <1>2, PastOngoing
<1>4. CASE n = 0
  BY <1>2, <1>3, <1>4 DEF n
<1>5. CASE n # 0
  <2>1. ValidMarket(ms[n])
    BY <1>1, <1>5, DeskAssumption
  <2> DEFINE m == ms[n]
  <2> HIDE DEF l, m
  <2>2. e = Marked(l, m) /\ ValidMarket(m)
    BY <1>3, <1>5, <2>1 DEF m
  <2> HIDE DEF e
  <2>3. /\ Solvent(e) /\ e.lastAt = l.lastAt /\ Available(e) = Available(l)
        /\ \A i \in Instruments : e.positions[i].quantity = l.positions[i].quantity
        /\ Checked(e) = e
    BY <1>2, <2>2, MarkedFacts
  <2> QED BY <2>3 DEF e, l, n
<1> QED BY <1>4, <1>5

(* A new day leaves at least as much available. *)
LEMMA BackedDay ==
    ASSUME NEW S, NEW fs \in Seq(S), NEW ms \in Seq(Markets), NEW m,
           \A k \in DOMAIN fs : fs[k].day \in 1 .. Len(ms),
           NEW c \in Int, NEW p, p.available \in Int, Backed(fs, ms, c, p)
    PROVE  Backed(fs, Append(ms, m), c, p)
<1> DEFINE n == Len(ms)
           l == Ongoing(fs, ms, n)
           e == Past(fs, ms, n)
           ns == Append(ms, m)
           k == Ongoing(fs, ns, n + 1)
<1>1. n \in Nat /\ Len(ns) = n + 1 /\ n + 1 # 0 /\ (n + 1) - 1 = n /\ n + 1 \in Nat
  OBVIOUS
<1>2. /\ Solvent(l) /\ l.lastAt <= 10 * n + 1 /\ c <= Available(l)
      /\ p.covers = Len(fs) => p.available <= Available(l)
  BY DEF Backed
<1>3. Solvent(e) /\ e.lastAt = l.lastAt /\ Available(e) = Available(l)
  BY PastBacked
<1>4. Past(fs, ns, n) = e /\ k = ProcessSettlements(e, n + 1, 10 * (n + 1))
  <2>1. \A j \in DOMAIN fs : fs[j].day # n + 1
    BY <1>1
  <2> QED BY <2>1, OngoingDay
<1> HIDE DEF e, l, k, ns, n
<1>5. l.lastAt \in Int /\ Available(l) \in Int
  BY <1>2, LedgerNumbers DEF Solvent, Sound, BooksTyped
<1>6. e.lastAt <= 10 * (n + 1) /\ 10 * (n + 1) \in Int
  BY <1>1, <1>2, <1>3, <1>5
<1>7. Solvent(k) /\ k.lastAt <= 10 * (n + 1) /\ Available(k) >= Available(e)
  BY <1>1, <1>3, <1>4, <1>6, SettlementsPay
<1>8. k.lastAt \in Int /\ Available(k) \in Int
  BY <1>7, LedgerNumbers DEF Solvent, Sound, BooksTyped
<1>9. k.lastAt <= 10 * (n + 1) + 1 /\ c <= Available(k)
      /\ (p.covers = Len(fs) => p.available <= Available(k))
  BY <1>1, <1>2, <1>3, <1>5, <1>7, <1>8
<1>10. Good(Past(fs, ns, n))
  BY <1>3, <1>4 DEF Solvent, Sound
<1> QED BY <1>1, <1>7, <1>9, <1>10 DEF Backed, k, ns

(* A fill of today leaves what it does not spend. *)
LEMMA BackedFill ==
    ASSUME NEW S, NEW fs \in Seq(S), NEW ms, NEW n \in Nat, n = Len(ms), n # 0,
           n + SettlementLag <= DeskHorizon,
           NEW x, FillTyped(x), x.day = n, x.at = 10 * n + 1,
           NEW c \in Int, NEW p, p.covers \in Nat, p.covers <= Len(fs), Backed(fs, ms, c, p),
           Payable(Ongoing(fs, ms, n), x), NEW b \in Int, b <= c - Spent(x)
    PROVE  Backed(Append(fs, x), ms, b, p)
<1> DEFINE l == Ongoing(fs, ms, n)
           gs == Append(fs, x)
           k == Ongoing(gs, ms, n)
<1>1. Good(Past(fs, ms, n - 1)) /\ Solvent(l) /\ l.lastAt <= 10 * n + 1 /\ c <= Available(l)
  BY DEF Backed
<1>2. Past(gs, ms, n - 1) = Past(fs, ms, n - 1) /\ k = ApplyFill(l, x, n, DeskHorizon)
  BY OngoingFill
<1>3. Payable(l, x)
  OBVIOUS
<1> HIDE DEF l, k, gs
<1>4. x.at \in Int /\ l.lastAt <= x.at /\ DeskHorizon \in Nat
  BY <1>1, DeskAssumption
<1>5. Solvent(k) /\ k.lastAt = x.at /\ Available(k) = Available(l) - Spent(x)
  BY <1>1, <1>2, <1>3, <1>4, FillPays
<1>6. Available(k) \in Int /\ Available(l) \in Int
  BY <1>1, <1>5, LedgerNumbers DEF Solvent, Sound
<1>7. Spent(x) \in Int
  <2>1. x.price \in Nat /\ x.quantity \in Nat /\ x.fee \in Nat
    BY DEF FillTyped
  <2> QED BY <2>1 DEF Spent
<1>8. b <= Available(k) /\ k.lastAt <= 10 * n + 1
  BY <1>1, <1>5, <1>6, <1>7
<1>9. Len(gs) = Len(fs) + 1 /\ Len(fs) \in Nat
  BY DEF gs
<1>10. p.covers # Len(gs)
  BY <1>9
<1> QED BY <1>1, <1>2, <1>5, <1>8, <1>10 DEF Backed, k, gs

(* What the desk projects from such a ledger: its marks, and the holdings of the fills. *)
LEMMA BackedProjects ==
    ASSUME DeskTyped, FillsOfThePast, Today # 0, NEW c, NEW p, Backed(fills, markets, c, p)
    PROVE  LET l == Ongoing(fills, markets, Today)
           IN /\ Good(Projection) /\ Available(Projection) = Available(l)
              /\ \A i \in Instruments : l.positions[i].quantity = TrueHolding(i)
              /\ \A i \in Instruments : Held(Projection)[i] = TrueHolding(i)
<1> DEFINE l == Ongoing(fills, markets, Today)
           e == Past(fills, markets, Today)
<1>1. markets \in Seq(Markets) /\ Today = Len(markets)
  BY DEF DeskTyped, Today
<1>2. /\ Solvent(e) /\ Available(e) = Available(l) /\ Checked(e) = e
      /\ \A i \in Instruments : e.positions[i].quantity = l.positions[i].quantity
  <2>1. Len(markets) # 0 /\ l = Ongoing(fills, markets, Len(markets))
        /\ e = Past(fills, markets, Len(markets))
    BY <1>1
  <2> HIDE DEF l, e
  <2> QED BY <1>1, <2>1, PastBacked
<1>3. Replayed = e
  BY ReplayedIs
<1> HIDE DEF l, e
<1>4. Projection = e
  BY <1>2, <1>3 DEF Projection
<1>5. Good(Projection)
  BY <1>2, <1>4 DEF Solvent, Sound
<1>6. \A i \in Instruments : Projection.positions[i].quantity = TrueHolding(i)
  BY <1>5, ProjectionFacts
<1> QED BY <1>2, <1>4, <1>5, <1>6 DEF Held, l

-----------------------------------------------------------------------------
(* What the orders that wait for the broker may spend. *)
CashOf(o) == IF o.state = "submit_pending" THEN o.cash ELSE 0

Funded == SumOver(orders, LAMBDA o : CashOf(o))

(* An order that was submitted has reserved what it can cost at the price of its approval. *)
OrderFunded(o) ==
    /\ o.cash \in Nat /\ o.price \in Nat
    /\ o.state = "submit_pending" /\ o.side = "buy" =>
          o.cash = o.price * o.quantity + Fee(o.price * o.quantity)

OrdersFunded == \A k \in DOMAIN orders : OrderFunded(orders[k])

(* Every sale has brought in its fee and its tax. *)
DeskSalesPay ==
    \A n \in DOMAIN fills : fills[n].side = "sell" =>
        fills[n].fee + fills[n].tax <= fills[n].price * fills[n].quantity

(* Every execution has seen every fill, no purchase cost more than was approved, every sale
   brought in its costs, and what is traded today settles within the calendar. *)
Undisturbed ==
    ~blind /\ ~repriced /\ DeskSalesPay /\ Today + SettlementLag <= DeskHorizon

MoneyInvariant ==
    OrdersFunded /\ (Undisturbed => Backed(fills, markets, Funded, portfolio))

(* The cash of the orders that wait, as a sum over them. *)
LEMMA FundedIs == Funded = SumFunction([k \in DOMAIN orders |-> CashOf(orders[k])])
BY DEF Funded, SumOver, CashOf

(* The orders that wait ask for no more than is reserved. *)
LEMMA FundedNat ==
    ASSUME DeskTyped, OrdersSound, OrdersFunded
    PROVE  /\ Funded \in Nat /\ DeskReservedCash \in Nat /\ Funded <= DeskReservedCash
           /\ \A k \in DOMAIN orders : CashOf(orders[k]) \in Nat
<1>1. PICK n \in Nat : n = Len(orders)
  BY OrderRows
<1>2. DOMAIN orders = 1 .. n
  BY <1>1, OrderRows
<1>3. \A k \in 1 .. n : orders[k].cash \in Nat
  BY <1>2 DEF OrdersFunded, OrderFunded
<1>4. \A k \in 1 .. n : CashOf(orders[k]) \in Nat /\ CashOf(orders[k]) <= orders[k].cash
  BY <1>3 DEF CashOf
<1> DEFINE f == [k \in DOMAIN orders |-> orders[k].cash]
           g == [k \in DOMAIN orders |-> CashOf(orders[k])]
<1>5. DOMAIN f = 1 .. n /\ DOMAIN g = 1 .. n /\ \A j \in 1 .. n : f[j] \in Nat /\ g[j] \in Nat /\ g[j] <= f[j]
  BY <1>2, <1>3, <1>4
<1>6. DeskReservedCash = SumFunction(f) /\ Funded = SumFunction(g)
  BY FundedIs DEF DeskReservedCash, SumOver
<1> HIDE DEF f, g
<1> QED BY <1>2, <1>4, <1>5, <1>6, SumOfSmaller

(* A new order asks for its cash. *)
LEMMA FundedAfterOrder ==
    ASSUME DeskTyped, OrdersSound, OrdersFunded, NEW o, OrderFunded(o), orders' = Append(orders, o)
    PROVE  OrdersFunded' /\ Funded' = Funded + CashOf(o)
<1>1. PICK n \in Nat : n = Len(orders)
  BY OrderRows
<1>2. DOMAIN orders = 1 .. n
  BY <1>1, OrderRows
<1>3. /\ DOMAIN orders' = 1 .. n + 1 /\ orders'[n + 1] = o
      /\ \A k \in 1 .. n : orders'[k] = orders[k]
  BY <1>1, <1>2 DEF DeskTyped
<1> DEFINE f == [k \in DOMAIN orders |-> CashOf(orders[k])]
           g == [k \in DOMAIN orders' |-> CashOf(orders'[k])]
<1>4. /\ DOMAIN f = 1 .. n /\ DOMAIN g = 1 .. n + 1 /\ g[n + 1] = CashOf(o)
      /\ \A k \in 1 .. n + 1 : g[k] \in Int
      /\ \A k \in 1 .. n : g[k] = f[k]
  <2>1. \A k \in 1 .. n : CashOf(orders[k]) \in Nat
    BY <1>2, FundedNat
  <2>2. CashOf(o) \in Nat
    BY DEF OrderFunded, CashOf
  <2> QED BY <1>2, <1>3, <2>1, <2>2
<1>5. Funded = SumFunction(f)
  BY FundedIs
<1>6. Funded' = SumFunction(g)
  BY DEF Funded, SumOver, CashOf
<1>7. OrdersFunded'
  <2>1. \A k \in DOMAIN orders' : OrderFunded(orders'[k])
    BY <1>2, <1>3 DEF OrdersFunded
  <2> QED BY <2>1 DEF OrdersFunded, OrderFunded
<1> HIDE DEF f, g
<1> QED BY <1>4, <1>5, <1>6, <1>7, SumOfAppended

(* A changed order asks for what it asks now. *)
LEMMA FundedAfterChange ==
    ASSUME DeskTyped, OrdersSound, OrdersFunded, NEW k \in DOMAIN orders, NEW o, OrderFunded(o),
           orders' = [orders EXCEPT ![k] = o]
    PROVE  OrdersFunded' /\ Funded' = Funded - CashOf(orders[k]) + CashOf(o)
<1>1. PICK n \in Nat : n = Len(orders)
  BY OrderRows
<1>2. DOMAIN orders = 1 .. n
  BY <1>1, OrderRows
<1>3. /\ DOMAIN orders' = 1 .. n /\ orders'[k] = o
      /\ \A j \in 1 .. n : j # k => orders'[j] = orders[j]
  BY <1>1, <1>2 DEF DeskTyped
<1> DEFINE f == [j \in DOMAIN orders |-> CashOf(orders[j])]
           g == [j \in DOMAIN orders' |-> CashOf(orders'[j])]
<1>4. /\ DOMAIN f = 1 .. n /\ DOMAIN g = 1 .. n /\ g[k] = CashOf(o)
      /\ f[k] = CashOf(orders[k]) /\ k \in 1 .. n
      /\ \A j \in 1 .. n : f[j] \in Int /\ g[j] \in Int
      /\ \A j \in 1 .. n : j # k => g[j] = f[j]
  <2>1. \A j \in 1 .. n : CashOf(orders[j]) \in Nat
    BY <1>2, FundedNat
  <2>2. CashOf(o) \in Nat
    BY DEF OrderFunded, CashOf
  <2> QED BY <1>2, <1>3, <2>1, <2>2
<1>5. Funded = SumFunction(f)
  BY FundedIs
<1>6. Funded' = SumFunction(g)
  BY DEF Funded, SumOver, CashOf
<1>7. OrdersFunded'
  <2>1. \A j \in DOMAIN orders' : OrderFunded(orders'[j])
    BY <1>2, <1>3 DEF OrdersFunded
  <2> QED BY <2>1 DEF OrdersFunded, OrderFunded
<1> HIDE DEF f, g
<1>8. RowChanged(f, g, n, k)
  BY ONLY <1>1, <1>4 DEF RowChanged
<1>9. SumMoves(f, g, k)
  BY ONLY <1>8, SumOfChanged, Zenon
<1>10. f[k] = CashOf(orders[k]) /\ g[k] = CashOf(o)
  BY <1>4
<1> QED BY ONLY <1>5, <1>6, <1>7, <1>9, <1>10 DEF SumMoves

-----------------------------------------------------------------------------
(* A step that asks for no more cash, and leaves markets, fills and portfolio alone. *)
LEMMA MoneyKept ==
    ASSUME DeskInvariant, MoneyInvariant, UNCHANGED <<markets, fills, portfolio, repriced>>,
           ~blind' => ~blind, OrdersFunded', NEW c \in Int, Funded' = c, c <= Funded
    PROVE  MoneyInvariant'
<1>1. ASSUME Undisturbed' PROVE Backed(fills, markets, Funded, portfolio)
  <2>1. Undisturbed
    BY <1>1 DEF Undisturbed, DeskSalesPay, Today
  <2> QED BY <2>1 DEF MoneyInvariant
<1>2. Funded \in Nat
  BY FundedNat DEF DeskInvariant, MoneyInvariant
<1>3. ASSUME Backed(fills, markets, Funded, portfolio)
      PROVE  Backed(fills, markets, c, portfolio)
  <2> DEFINE l == Ongoing(fills, markets, Len(markets))
  <2>1. Solvent(l) /\ Funded <= Available(l)
    BY <1>3 DEF Backed
  <2>2. Available(l) \in Int
    BY <2>1, LedgerNumbers DEF Solvent, Sound
  <2>3. c <= Available(l)
    BY <1>2, <2>1, <2>2
  <2> QED BY <1>3, <2>3 DEF Backed
<1> QED BY <1>1, <1>3 DEF MoneyInvariant

(* A step that leaves the orders alone as well. *)
LEMMA MoneyStill ==
    ASSUME DeskInvariant, MoneyInvariant,
           UNCHANGED <<markets, fills, portfolio, repriced, orders>>, ~blind' => ~blind
    PROVE  MoneyInvariant'
<1>1. OrdersFunded' /\ Funded' = Funded
  BY DEF MoneyInvariant, OrdersFunded, OrderFunded, Funded, SumOver, CashOf
<1>2. Funded \in Int /\ Funded <= Funded
  BY FundedNat DEF DeskInvariant, MoneyInvariant
<1> QED BY <1>1, <1>2, MoneyKept

(* The scheduler, the decision and the sizing move no money. *)
LEMMA StillActions ==
    ASSUME DeskInvariant, MoneyInvariant,
           \/ StartCycle \/ SkipJob \/ ClaimJob \/ ReadTarget \/ Size \/ EvaluateRisk
           \/ RiskLimitFails \/ OutboxEmpty \/ CrashDesk \/ OperatorResumes \/ UNCHANGED deskVars
    PROVE  MoneyInvariant'
<1>1. CASE Size
  <2>1. UNCHANGED <<markets, fills, portfolio, orders>> /\ UNCHANGED repriced /\ (~blind' => ~blind)
    BY <1>1 DEF Size, oms, audit
  <2> QED BY <2>1, MoneyStill
<1>2. CASE UNCHANGED deskVars
  BY <1>2, MoneyStill DEF deskVars
<1>3. CASE \/ StartCycle \/ SkipJob \/ ClaimJob \/ ReadTarget \/ EvaluateRisk
           \/ RiskLimitFails \/ OutboxEmpty \/ CrashDesk \/ OperatorResumes
  <2>1. UNCHANGED <<markets, oms, portfolio, audit>>
    BY <1>3, Zenon DEF StartCycle, SkipJob, ClaimJob, ReadTarget, EvaluateRisk, RiskLimitFails, OutboxEmpty,
           CrashDesk, OperatorResumes
  <2>2. UNCHANGED <<markets, fills, portfolio, repriced, orders>> /\ blind' = blind
    BY <2>1 DEF oms, audit
  <2> QED BY <2>2, MoneyStill
<1> QED BY <1>1, <1>2, <1>3

(* A new day. *)
LEMMA DayFunds ==
    ASSUME DeskInvariant, MoneyInvariant, StartDay
    PROVE  MoneyInvariant'
<1>1. PICK m \in Markets : markets' = Append(markets, m)
  BY DEF StartDay
<1>2. UNCHANGED <<orders, fills, portfolio, blind, repriced>>
  BY DEF StartDay, oms, audit
<1>3. /\ DeskTyped /\ FillsOfThePast /\ markets \in Seq(Markets) /\ fills \in Seq(DeskFills)
      /\ portfolio.available \in Int /\ Funded \in Int
  BY FundedNat DEF DeskInvariant, DeskTyped, MoneyInvariant
<1>4. OrdersFunded' /\ Funded' = Funded
  BY <1>2 DEF MoneyInvariant, OrdersFunded, OrderFunded, Funded, SumOver, CashOf
<1>5. Today \in Nat /\ Today' = Today + 1
  BY <1>1, <1>3 DEF Today
<1>6. ASSUME Undisturbed' PROVE Backed(fills, markets, Funded, portfolio)
  <2>1. Today + SettlementLag <= DeskHorizon
    <3>1. Today + 1 + SettlementLag <= DeskHorizon
      BY <1>5, <1>6 DEF Undisturbed
    <3> QED BY <1>5, <3>1, PolicyAssumption, DeskAssumption
  <2>2. DeskSalesPay /\ ~blind /\ ~repriced
    BY <1>2, <1>6 DEF Undisturbed, DeskSalesPay
  <2> QED BY <2>1, <2>2 DEF MoneyInvariant, Undisturbed
<1>7. \A k \in DOMAIN fills : fills[k].day \in 1 .. Len(markets)
  BY <1>3 DEF FillsOfThePast, FillSound, Today
<1>8. ASSUME Backed(fills, markets, Funded, portfolio)
      PROVE  Backed(fills, Append(markets, m), Funded, portfolio)
  BY <1>3, <1>7, <1>8, BackedDay
<1> QED BY <1>1, <1>2, <1>4, <1>6, <1>8 DEF MoneyInvariant

(* _project publishes what is available. *)
LEMMA ProjectFunds ==
    ASSUME DeskInvariant, MoneyInvariant, Project
    PROVE  MoneyInvariant'
<1>1. UNCHANGED <<markets, orders, fills, blind, repriced>>
  BY DEF Project, oms, audit
<1>2. CASE ~Good(Projection)
  BY <1>1, <1>2, MoneyStill DEF Project
<1>3. CASE Good(Projection)
  <2>1. portfolio' = Document(Projection)
    BY <1>3 DEF Project, Publish
  <2>2. DeskTyped /\ FillsOfThePast /\ Today = Len(markets) /\ Today # 0
    <3>1. DeskTyped /\ FillsOfThePast /\ CycleSound
      BY DEF DeskInvariant
    <3>2. cycle.job # 0
      BY <3>1, BusyIs DEF Project
    <3> QED BY <3>1, <3>2 DEF CycleSound, Today
  <2>3. OrdersFunded' /\ Funded' = Funded
    BY <1>1 DEF MoneyInvariant, OrdersFunded, OrderFunded, Funded, SumOver, CashOf
  <2>4. ASSUME Undisturbed' PROVE Backed(fills, markets, Funded, portfolio)
    <3>1. Undisturbed
      BY <1>1, <2>4 DEF Undisturbed, DeskSalesPay, Today
    <3> QED BY <3>1 DEF MoneyInvariant
  <2>5. ASSUME Backed(fills, markets, Funded, portfolio)
        PROVE  Backed(fills, markets, Funded, portfolio')
    <3> DEFINE l == Ongoing(fills, markets, Len(markets))
    <3>1. Available(Projection) = Available(l)
      BY <2>2, <2>5, BackedProjects
    <3>2. portfolio'.available = Available(l)
      BY <2>1, <3>1 DEF Document
    <3>3. Available(l) \in Int
      BY <2>5, LedgerNumbers DEF Backed, Solvent, Sound
    <3>4. portfolio'.available <= Available(l)
      BY <3>2, <3>3
    <3> QED BY <2>5, <3>4 DEF Backed
  <2> QED BY <1>1, <2>3, <2>4, <2>5 DEF MoneyInvariant
<1> QED BY <1>2, <1>3

(* One of the rows is no more than their sum. *)
LEMMA SumHasPart ==
    ASSUME NEW n \in Nat, NEW f, DOMAIN f = 1 .. n, \A j \in 1 .. n : f[j] \in Nat, NEW k \in 1 .. n
    PROVE  f[k] <= SumFunction(f)
<1> DEFINE g == [j \in 1 .. n |-> IF j = k THEN 0 ELSE f[j]]
<1>1. /\ DOMAIN g = 1 .. n /\ g[k] = 0 /\ \A j \in 1 .. n : g[j] \in Nat /\ g[j] <= f[j]
      /\ \A j \in 1 .. n : j # k => g[j] = f[j]
  OBVIOUS
<1> HIDE DEF g
<1>2. SumFunction(f) \in Nat /\ SumFunction(g) \in Nat
  BY <1>1, SumOfSmaller
<1>3. RowChanged(f, g, n, k)
  BY <1>1 DEF RowChanged
<1>4. SumMoves(f, g, k)
  BY ONLY <1>3, SumOfChanged, Zenon
<1>5. SumFunction(g) = SumFunction(f) - f[k] + 0 /\ f[k] \in Nat
  BY <1>1, <1>4 DEF SumMoves
<1> QED BY ONLY <1>2, <1>5

(* The cash of a new order is what its purchase is estimated to cost. *)
LEMMA NewOrderFunded ==
    ASSUME DeskTyped, Len(markets) > 0, NEW c \in DeskCommands,
           NEW state \in {"submit_pending", "risk_rejected", "risk_approved"}
    PROVE  LET o == NewOrder(c, state)
           IN /\ OrderFunded(o)
              /\ CashOf(o) = IF state = "submit_pending" /\ c.side = "buy" THEN Required(c) ELSE 0
<1> DEFINE o == NewOrder(c, state)
           gross == EstimatedCost(c) * c.quantity
           price == markets[Today][c.instrument].price
           slip == (price * SlippageRate) \div RateUnit
<1>1. c.instrument \in Instruments /\ c.side \in Sides /\ c.quantity \in Nat \ {0}
  BY DEF DeskCommands
<1>2. price \in Nat /\ RateUnit \in Nat \ {0} /\ SlippageRate \in Nat
  BY <1>1, TodaysMarket, PolicyAssumption
<1>3. EstimatedCost(c) \in Nat
  <2>1. EstimatedCost(c) = IF c.side = "buy" THEN price + slip ELSE price
    BY DEF EstimatedCost
  <2> HIDE DEF price
  <2>2. price * SlippageRate \in Nat
    BY <1>2
  <2>3. \A a \in Nat, b \in Nat \ {0} : a \div b \in Nat
    OBVIOUS
  <2>4. slip \in Nat
    BY <1>2, <2>2, <2>3
  <2> HIDE DEF slip
  <2> QED BY <1>2, <2>1, <2>4
<1>4. gross \in Nat /\ Required(c) = gross + Fee(gross) + Tax(c.side, gross)
  BY <1>1, <1>3 DEF Required
<1>5. /\ o.side = c.side /\ o.quantity = c.quantity /\ o.state = state /\ o.price = EstimatedCost(c)
      /\ o.cash = IF state = "submit_pending" /\ c.side = "buy" THEN Required(c) ELSE 0
  BY DEF NewOrder
<1>6. o.price * o.quantity = gross
  BY <1>5
<1> HIDE DEF o, gross
<1>7. Fee(gross) \in Nat /\ (c.side = "buy" => Tax(c.side, gross) = 0)
  BY <1>4, FeeFacts DEF Tax
<1>8. c.side = "buy" => Required(c) = gross + Fee(gross) /\ Required(c) \in Nat
  BY <1>4, <1>7
<1>9. CASE state = "submit_pending" /\ c.side = "buy"
  <2>1. o.cash = gross + Fee(gross) /\ o.cash \in Nat
    BY <1>5, <1>8, <1>9
  <2> QED BY <1>3, <1>5, <1>6, <1>9, <2>1 DEF OrderFunded, CashOf, o
<1>10. CASE ~(state = "submit_pending" /\ c.side = "buy")
  <2>1. o.cash = 0 /\ ~(o.state = "submit_pending" /\ o.side = "buy")
    BY <1>5, <1>10
  <2> QED BY <1>3, <1>5, <1>10, <2>1 DEF OrderFunded, CashOf, o
<1> QED BY <1>9, <1>10

(* queue: a purchase is submitted only if what the portfolio has available covers it next to
   what is reserved. *)
LEMMA QueueFunds ==
    ASSUME DeskInvariant, MoneyInvariant, NEW c \in cycle.todo, QueueOrder(c)
    PROVE  MoneyInvariant'
<1> DEFINE state == IF Affordable(c) THEN "submit_pending" ELSE "risk_rejected"
           o == NewOrder(c, state)
<1>1. /\ UNCHANGED <<markets, fills, portfolio, repriced>> /\ blind' = blind
      /\ orders' = Append(orders, o)
  BY DEF QueueOrder, audit
<1>2. /\ DeskTyped /\ OrdersSound /\ CycleSound /\ CommandsWithin /\ cycle \in Cycles /\ OrdersFunded
  BY DEF DeskInvariant, DeskTyped, MoneyInvariant
<1>3. cycle.job = 2 /\ Len(markets) > 0 /\ c \in DeskCommands
  BY <1>2 DEF CommandsWithin, CycleSound, Cycles
<1>4. state \in {"submit_pending", "risk_rejected", "risk_approved"}
  OBVIOUS
<1>5. state = "submit_pending" => Affordable(c)
  OBVIOUS
<1> HIDE DEF state
<1>6. /\ OrderFunded(o)
      /\ CashOf(o) = IF state = "submit_pending" /\ c.side = "buy" THEN Required(c) ELSE 0
  BY <1>2, <1>3, <1>4, NewOrderFunded
<1> HIDE DEF o
<1>7. OrdersFunded' /\ Funded' = Funded + CashOf(o)
  BY <1>1, <1>2, <1>6, FundedAfterOrder
<1>8. Funded \in Nat /\ DeskReservedCash \in Nat /\ Funded <= DeskReservedCash
  BY <1>2, FundedNat
<1>9. CashOf(o) \in Nat
  BY <1>6 DEF CashOf, OrderFunded
<1>10. CASE CashOf(o) = 0
  <2>1. Funded' = Funded /\ Funded \in Int /\ Funded <= Funded
    BY <1>7, <1>8, <1>10
  <2> QED BY <1>1, <1>7, <2>1, MoneyKept
<1>11. CASE CashOf(o) # 0
  <2>1. /\ Affordable(c) /\ c.side = "buy" /\ CashOf(o) = Required(c)
    BY <1>5, <1>6, <1>11
  <2>2. Required(c) <= portfolio.available - DeskReservedCash
    BY <2>1 DEF Affordable
  <2>3. portfolio.available \in Int
    BY <1>2 DEF DeskTyped
  <2>4. Funded + CashOf(o) <= portfolio.available
    BY <1>8, <1>9, <2>1, <2>2, <2>3
  <2>5. ASSUME Undisturbed' PROVE Backed(fills, markets, Funded + CashOf(o), portfolio)
    <3>1. Undisturbed
      BY <1>1, <2>5 DEF Undisturbed, DeskSalesPay, Today
    <3>2. Backed(fills, markets, Funded, portfolio)
      BY <3>1 DEF MoneyInvariant
    <3>3. portfolio.covers = Len(fills)
      BY <1>2, <3>1 DEF CommandsWithin, Undisturbed
    <3> DEFINE l == Ongoing(fills, markets, Len(markets))
    <3>4. Solvent(l) /\ portfolio.available <= Available(l)
      BY <3>2, <3>3 DEF Backed
    <3>5. Available(l) \in Int
      BY <3>4, LedgerNumbers DEF Solvent, Sound
    <3>6. Funded + CashOf(o) <= Available(l)
      BY <1>8, <1>9, <2>3, <2>4, <3>4, <3>5
    <3> QED BY <3>2, <3>6 DEF Backed
  <2> QED BY <1>1, <1>7, <2>5 DEF MoneyInvariant
<1> QED BY <1>10, <1>11

(* An order that a crash left inside queue has reserved nothing. *)
LEMMA CrashFunds ==
    ASSUME DeskInvariant, MoneyInvariant, NEW c \in cycle.todo, CrashInQueue(c)
    PROVE  MoneyInvariant'
<1> DEFINE o == NewOrder(c, "risk_approved")
<1>1. /\ UNCHANGED <<markets, fills, portfolio, repriced>> /\ blind' = blind
      /\ orders' = Append(orders, o)
  BY DEF CrashInQueue, audit
<1>2. /\ DeskTyped /\ OrdersSound /\ CycleSound /\ CommandsWithin /\ cycle \in Cycles /\ OrdersFunded
  BY DEF DeskInvariant, DeskTyped, MoneyInvariant
<1>3. cycle.job = 2 /\ Len(markets) > 0 /\ c \in DeskCommands
  BY <1>2 DEF CommandsWithin, CycleSound, Cycles
<1>4. OrderFunded(o) /\ CashOf(o) = 0
  <2>1. "risk_approved" \in {"submit_pending", "risk_rejected", "risk_approved"}
    OBVIOUS
  <2> QED BY <1>2, <1>3, <2>1, NewOrderFunded
<1> HIDE DEF o
<1>5. OrdersFunded' /\ Funded' = Funded + CashOf(o)
  BY <1>1, <1>2, <1>4, FundedAfterOrder
<1>6. Funded' = Funded /\ Funded \in Int /\ Funded <= Funded
  BY <1>2, <1>4, <1>5, FundedNat
<1> QED BY <1>1, <1>5, <1>6, MoneyKept

(* A step that changes one order into one that asks for no more. *)
LEMMA ReleaseFunds ==
    ASSUME DeskInvariant, MoneyInvariant, NEW k \in DOMAIN orders, NEW o,
           UNCHANGED <<markets, fills, portfolio, repriced, blind>>, OrderFunded(o),
           orders' = [orders EXCEPT ![k] = o], o.state # "submit_pending"
    PROVE  MoneyInvariant'
<1>1. DeskTyped /\ OrdersSound /\ OrdersFunded
  BY DEF DeskInvariant, MoneyInvariant
<1>2. OrdersFunded' /\ Funded' = Funded - CashOf(orders[k]) + CashOf(o)
  BY <1>1, FundedAfterChange
<1>3. CashOf(o) = 0
  BY DEF CashOf
<1>4. Funded \in Nat /\ CashOf(orders[k]) \in Nat
  BY <1>1, FundedNat
<1> DEFINE c == Funded - CashOf(orders[k])
<1>5. Funded' = c /\ c \in Int /\ c <= Funded
  BY <1>2, <1>3, <1>4
<1> HIDE DEF c
<1> QED BY <1>2, <1>5, MoneyKept

(* An answer without a fill, and a cancellation. *)
LEMMA UnfilledFunds ==
    ASSUME DeskInvariant, MoneyInvariant, NEW k \in DOMAIN orders,
           DeliverUnfilled(k) \/ DeliverRaises(k) \/ OperatorCancels(k)
    PROVE  MoneyInvariant'
<1>1. orders[k] \in DeskOrders /\ OrderFunded(orders[k])
  BY DEF DeskInvariant, DeskTyped, MoneyInvariant, OrdersFunded
<1>2. \A v \in DeskOrders : /\ Delivered(v).cash = v.cash /\ Delivered(v).price = v.price
                            /\ Delivered(v).state = v.state
  BY DEF Delivered, DeskOrders
<1>3. \A v \in DeskOrders, s \in DeskStates :
          /\ [v EXCEPT !.state = s] \in DeskOrders /\ [v EXCEPT !.state = s].state = s
          /\ [v EXCEPT !.state = s].cash = v.cash /\ [v EXCEPT !.state = s].price = v.price
  BY DEF DeskOrders
<1>4. "acknowledged" \in DeskStates /\ "cancelled" \in DeskStates
  BY DEF DeskStates, OpenStates
<1> DEFINE a == Acknowledged(orders[k])
<1>5. /\ a \in DeskOrders /\ a.state # "submit_pending"
      /\ a.cash = orders[k].cash /\ a.price = orders[k].price
  <2>1. CASE orders[k].state = "submit_pending"
    <3>1. a = [orders[k] EXCEPT !.state = "acknowledged"]
      BY <2>1 DEF Acknowledged
    <3> HIDE DEF a
    <3> QED BY <1>1, <1>3, <1>4, <3>1
  <2>2. CASE orders[k].state # "submit_pending"
    <3>1. a = orders[k]
      BY <2>2 DEF Acknowledged
    <3> HIDE DEF a
    <3> QED BY <1>1, <2>2, <3>1
  <2> QED BY <2>1, <2>2
<1> HIDE DEF a
<1>6. CASE DeliverUnfilled(k)
  <2>1. /\ UNCHANGED <<markets, fills, portfolio, repriced, blind>>
        /\ orders' = [orders EXCEPT ![k] = Delivered(a)]
    BY <1>6 DEF DeliverUnfilled, audit, a
  <2> DEFINE u == Delivered(a)
  <2>2. u.cash = a.cash /\ u.price = a.price /\ u.state = a.state
    BY <1>2, <1>5
  <2> HIDE DEF u
  <2>3. OrderFunded(u) /\ u.state # "submit_pending"
    BY <1>1, <1>5, <2>2 DEF OrderFunded
  <2> QED BY <2>1, <2>3, ReleaseFunds DEF u
<1>7. CASE DeliverRaises(k)
  <2>1. /\ UNCHANGED <<markets, fills, portfolio, repriced, blind>>
        /\ orders' = [orders EXCEPT ![k] = a]
    BY <1>7 DEF DeliverRaises, audit, a
  <2>2. OrderFunded(a)
    BY <1>1, <1>5 DEF OrderFunded
  <2> QED BY <1>5, <2>1, <2>2, ReleaseFunds
<1>8. CASE OperatorCancels(k)
  <2> DEFINE v == [orders[k] EXCEPT !.state = "cancelled"]
             w == [v EXCEPT !.cash = 0]
             u == [w EXCEPT !.shares = 0]
  <2>1. UNCHANGED <<markets, fills, portfolio, repriced, blind>>
    BY <1>8 DEF OperatorCancels, audit
  <2>2. orders' = [orders EXCEPT ![k] = u]
    <3>1. orders' = [orders EXCEPT ![k].state = "cancelled", ![k].cash = 0, ![k].shares = 0]
      BY <1>8 DEF OperatorCancels
    <3> QED BY <3>1
  <2>3. v \in DeskOrders /\ v.state = "cancelled" /\ v.price = orders[k].price
    BY <1>1, <1>3, <1>4
  <2> HIDE DEF v
  <2>4. w \in DeskOrders /\ w.state = "cancelled" /\ w.price = v.price /\ w.cash = 0
    BY <2>3 DEF DeskOrders
  <2> HIDE DEF w
  <2>5. u.state = "cancelled" /\ u.price = w.price /\ u.cash = 0
    BY <2>4 DEF DeskOrders
  <2> HIDE DEF u
  <2>6. OrderFunded(u) /\ u.state # "submit_pending"
    BY <1>1, <2>3, <2>4, <2>5 DEF OrderFunded
  <2> QED BY <2>1, <2>2, <2>6, ReleaseFunds
<1> QED BY <1>6, <1>7, <1>8

(* A purchase that is not above its approval costs no more than its order has reserved. *)
LEMMA FillCosts ==
    ASSUME DeskTyped, Len(markets) > 0, NEW k \in DOMAIN orders, OrderSound(orders[k]),
           OrderFunded(orders[k]), Fillable(k), ~AboveApproval(orders[k])
    PROVE  Spent(FillOf(k)) \in Nat /\ Spent(FillOf(k)) <= CashOf(orders[k])
<1> DEFINE o == orders[k]
           n == FillQuantity(o)
           p == BrokerPrice(o)
           x == FillOf(k)
<1>1. o \in DeskOrders
  BY DEF DeskTyped
<1>2. x \in DeskFills /\ n \in 1 .. o.quantity
  BY BrokerFills
<1>3. /\ x.side = o.side /\ x.quantity = n /\ x.price = p /\ x.fee = Fee(p * n)
  BY DEF FillOf
<1>4. o.state = "submit_pending" /\ (o.side = "buy" => p <= o.price)
  <2>1. p \in Int /\ o.price \in Int
    BY <1>1, <1>2, <1>3 DEF DeskFills, DeskOrders
  <2> QED BY <2>1 DEF Fillable, AboveApproval
<1>5. OrderFunded(o) /\ o.quantity \in Nat /\ o.side \in Sides
  BY <1>1 DEF DeskOrders
<1> HIDE DEF o, n, p, x
<1>6. p \in Nat /\ n \in Nat /\ n <= o.quantity /\ o.price \in Nat /\ o.cash \in Nat
  BY <1>2, <1>3, <1>5 DEF DeskFills, OrderFunded
<1>7. CASE o.side = "buy"
  <2> DEFINE g == p * n
             h == o.price * o.quantity
  <2>1. g \in Nat /\ h \in Nat /\ g <= h
    <3>1. p * n <= o.price * n
      BY <1>4, <1>6, <1>7
    <3>2. o.price * n <= o.price * o.quantity
      BY <1>5, <1>6
    <3>3. p * n \in Nat /\ o.price * n \in Nat /\ o.price * o.quantity \in Nat
      BY <1>5, <1>6
    <3> QED BY <3>1, <3>2, <3>3
  <2>2. Spent(x) = g + Fee(g)
    BY <1>3, <1>7 DEF Spent
  <2>3. CashOf(o) = h + Fee(h)
    BY <1>4, <1>5, <1>7 DEF OrderFunded, CashOf
  <2> HIDE DEF g, h
  <2>4. Fee(g) \in Nat /\ Fee(h) \in Nat /\ Fee(g) <= Fee(h)
    BY <2>1, FeeFacts, FeeMonotone
  <2>5. Spent(x) \in Nat /\ Spent(x) <= CashOf(o)
    BY ONLY <2>1, <2>2, <2>3, <2>4
  <2> QED BY <2>5 DEF o, x
<1>8. CASE o.side # "buy"
  <2>1. Spent(x) = 0 /\ CashOf(o) \in Nat
    BY <1>3, <1>6, <1>8 DEF Spent, CashOf
  <2> QED BY <2>1 DEF o, x
<1> QED BY <1>7, <1>8

(* A sale is of shares that are held. *)
LEMMA SaleIsHeld ==
    ASSUME DeskInvariant, ~blind, Len(markets) > 0, NEW k \in DOMAIN orders, Fillable(k),
           orders[k].side = "sell"
    PROVE  FillQuantity(orders[k]) <= TrueHolding(orders[k].instrument)
<1> DEFINE o == orders[k]
           i == o.instrument
           m == FillQuantity(o)
<1>1. PICK n \in Nat : n = Len(orders)
  BY OrderRows DEF DeskInvariant
<1>2. /\ DOMAIN orders = 1 .. n
      /\ \A j \in 1 .. n : orders[j] \in DeskOrders /\ OrderSound(orders[j])
  BY <1>1, OrderRows DEF DeskInvariant
<1>3. o \in DeskOrders /\ OrderSound(o) /\ k \in 1 .. n
  BY <1>2
<1>4. m \in 1 .. o.quantity
  BY <1>3, BrokerFills DEF DeskInvariant
<1> DEFINE f == [j \in DOMAIN orders |-> LiveOf(orders[j], "sell", i)]
<1>5. DOMAIN f = 1 .. n /\ \A j \in 1 .. n : f[j] \in Nat
  BY <1>2, OrderNumbers
<1>6. f[k] = LiveOf(o, "sell", i)
  OBVIOUS
<1>7. LiveQuantity("sell", i) = SumFunction(f)
  BY LiveQuantityIs
<1> HIDE DEF f
<1>8. f[k] <= LiveQuantity("sell", i)
  BY <1>3, <1>5, <1>7, SumHasPart
<1>9. i \in Instruments /\ o.quantity \in Nat /\ o.filled = 0 /\ o.state = "submit_pending" /\ o.side = "sell"
  BY <1>3 DEF Fillable, OrderSound, DeskOrders
<1> HIDE DEF o
<1>10. LiveOf(o, "sell", i) = o.quantity
  <2>1. o.state \in LiveStates
    BY <1>9 DEF LiveStates, OpenStates
  <2> QED BY <1>9, <2>1 DEF LiveOf, Remaining
<1>11. LiveQuantity("sell", i) <= TrueHolding(i)
  BY <1>9 DEF DeskInvariant, NeverBeyondTarget
<1>12. LiveQuantity("sell", i) \in Nat /\ TrueHolding(i) \in Int
  BY OrderSums, HoldingInt DEF DeskInvariant
<1> HIDE DEF i, m
<1>13. m <= TrueHolding(i)
  BY <1>4, <1>6, <1>8, <1>9, <1>10, <1>11, <1>12
<1> QED BY <1>13 DEF m, i, o

(* What an order keeps of its cash when it is filled. *)
LEMMA FilledOrder ==
    ASSUME NEW o \in DeskOrders, OrderFunded(o), NEW n \in 1 .. o.quantity,
           NEW u \in {AfterDeskFill(o, n), Delivered(AfterDeskFill(o, n))}
    PROVE  OrderFunded(u) /\ CashOf(u) = 0
<1> DEFINE rest == o.quantity - n
           cash == (o.cash * rest) \div o.quantity
           state == IF rest = 0 THEN "filled" ELSE "partially_filled"
           v == AfterDeskFill(o, n)
<1>1. rest \in Nat /\ n \in Nat /\ o.quantity \in Nat \ {0} /\ o.cash \in Nat /\ o.price \in Nat
  BY DEF DeskOrders, OrderFunded
<1>2. cash \in Nat
  <2>1. o.cash * rest \in Nat
    BY <1>1
  <2>2. \A a \in Nat, b \in Nat \ {0} : a \div b \in Nat
    OBVIOUS
  <2> QED BY <1>1, <2>1, <2>2
<1>3. v = [o EXCEPT !.filled = n, !.shares = rest, !.cash = cash, !.state = state]
  BY DEF AfterDeskFill
<1>4. state \in DeskStates /\ state # "submit_pending"
  BY DEF DeskStates, OpenStates
<1>5. u = v \/ u = Delivered(v)
  OBVIOUS
<1> HIDE DEF rest, cash, state, v
<1>6. v \in DeskOrders /\ v.cash = cash /\ v.state = state /\ v.price = o.price
  <2>1. o \in DeskOrders /\ n \in Nat /\ rest \in Nat /\ cash \in Int /\ state \in DeskStates
    BY <1>1, <1>2, <1>4
  <2>2. v \in DeskOrders
    BY ONLY <1>3, <2>1 DEF DeskOrders
  <2>3. v.cash = cash /\ v.state = state /\ v.price = o.price
    BY ONLY <1>3, <2>1 DEF DeskOrders
  <2> QED BY <2>2, <2>3
<1>7. /\ Delivered(v).cash = v.cash /\ Delivered(v).state = v.state /\ Delivered(v).price = v.price
  BY <1>6 DEF Delivered, DeskOrders
<1>8. u.cash \in Nat /\ u.price \in Nat /\ u.state # "submit_pending"
  BY <1>1, <1>2, <1>4, <1>5, <1>6, <1>7
<1> QED BY <1>8 DEF OrderFunded, CashOf

(* A fill spends no more than its order has reserved, and sells what is held. *)
LEMMA FilledFunds ==
    ASSUME DeskInvariant, MoneyInvariant, NEW k \in DOMAIN orders, DeliverFilled(k)
    PROVE  MoneyInvariant'
<1> DEFINE o == orders[k]
           n == FillQuantity(o)
           x == FillOf(k)
           l == Ongoing(fills, markets, Today)
<1>1. /\ DeskTyped /\ OrdersSound /\ FillsOfThePast /\ CycleSound /\ PortfolioTrue /\ OrdersFunded
      /\ o \in DeskOrders /\ OrderSound(o) /\ OrderFunded(o)
  BY DEF DeskInvariant, DeskTyped, OrdersSound, MoneyInvariant, OrdersFunded
<1>2. Len(markets) > 0 /\ Fillable(k)
  BY <1>1, BusyIs DEF DeliverFilled, CycleSound
<1>3. PICK u \in {AfterDeskFill(o, n), Delivered(AfterDeskFill(o, n))} :
          orders' = [orders EXCEPT ![k] = u]
  BY DEF DeliverFilled
<1>4. /\ UNCHANGED <<markets, portfolio, blind>> /\ fills' = Append(fills, x)
      /\ repriced' = (repriced \/ AboveApproval(o))
  BY DEF DeliverFilled
<1>5. x \in DeskFills /\ FillSound(x) /\ n \in 1 .. o.quantity
  BY <1>1, <1>2, BrokerFills
<1>6. /\ x.instrument = o.instrument /\ x.side = o.side /\ x.quantity = n /\ x.day = Today
      /\ x.at = 10 * Today + 1
  BY DEF FillOf
<1>7. OrderFunded(u) /\ CashOf(u) = 0
  BY <1>1, <1>5, FilledOrder
<1>8. ~AboveApproval(o) => Spent(x) \in Nat /\ Spent(x) <= CashOf(o)
  BY <1>1, <1>2, FillCosts
<1>9. ~blind /\ o.side = "sell" => n <= TrueHolding(o.instrument)
  BY <1>2, SaleIsHeld
<1>10. o.instrument \in Instruments
  BY <1>1 DEF DeskOrders
<1>11. CashOf(o) \in Nat /\ Funded \in Nat /\ CashOf(o) <= Funded
  <2>1. CashOf(o) \in Nat /\ Funded \in Nat
    BY <1>1, FundedNat
  <2>2. PICK j \in Nat : j = Len(orders)
    BY <1>1, OrderRows
  <2> DEFINE f == [m \in DOMAIN orders |-> CashOf(orders[m])]
  <2>3. DOMAIN f = 1 .. j /\ (\A m \in 1 .. j : f[m] \in Nat) /\ k \in 1 .. j /\ f[k] = CashOf(o)
    <3>1. DOMAIN orders = 1 .. j
      BY <1>1, <2>2, OrderRows
    <3>2. \A m \in DOMAIN orders : CashOf(orders[m]) \in Nat
      BY <1>1, FundedNat
    <3> QED BY <3>1, <3>2
  <2>4. Funded = SumFunction(f)
    BY FundedIs
  <2> HIDE DEF f
  <2>5. f[k] <= SumFunction(f)
    BY <2>3, SumHasPart
  <2> QED BY <2>1, <2>3, <2>4, <2>5
<1> HIDE DEF x, n, l
<1>12. OrdersFunded' /\ Funded' = Funded - CashOf(o) + CashOf(u)
  BY <1>1, <1>3, <1>7, FundedAfterChange
<1> HIDE DEF o
<1>13. Funded' = Funded - CashOf(o) /\ Funded - CashOf(o) \in Int
  BY <1>7, <1>11, <1>12
<1>14. Today \in Nat /\ Today # 0 /\ Today = Len(markets) /\ Today' = Today
  BY <1>1, <1>2, <1>4 DEF Today, DeskTyped
<1>15. fills \in Seq(DeskFills) /\ fills' \in Seq(DeskFills) /\ Len(fills) \in Nat
       /\ DOMAIN fills' = 1 .. Len(fills) + 1 /\ fills'[Len(fills) + 1] = x
       /\ \A j \in DOMAIN fills : j \in DOMAIN fills' /\ fills'[j] = fills[j]
  BY <1>1, <1>4, <1>5 DEF DeskTyped
<1>16. ASSUME Undisturbed' PROVE Backed(fills', markets, Funded - CashOf(o), portfolio)
  <2>1. /\ Undisturbed /\ ~AboveApproval(o) /\ ~blind
        /\ x.side = "sell" => x.fee + x.tax <= x.price * x.quantity
    <3>1. /\ ~blind /\ ~repriced /\ ~AboveApproval(o) /\ Today + SettlementLag <= DeskHorizon
      BY <1>4, <1>14, <1>16 DEF Undisturbed
    <3>2. \A j \in DOMAIN fills' : fills'[j].side = "sell" =>
              fills'[j].fee + fills'[j].tax <= fills'[j].price * fills'[j].quantity
      BY <1>16 DEF Undisturbed, DeskSalesPay
    <3>3. DeskSalesPay
      BY <1>15, <3>2 DEF DeskSalesPay
    <3>4. Len(fills) + 1 \in DOMAIN fills'
      BY <1>15
    <3> QED BY <1>15, <3>1, <3>2, <3>3, <3>4 DEF Undisturbed
  <2>2. Backed(fills, markets, Funded, portfolio)
    BY <2>1 DEF MoneyInvariant
  <2>3. Solvent(l) /\ Funded <= Available(l)
    BY <1>14, <2>2 DEF Backed, l
  <2>4. \A i \in Instruments : l.positions[i].quantity = TrueHolding(i)
    BY <1>1, <1>14, <2>2, BackedProjects DEF l
  <2>5. Available(l) \in Int
    BY <2>3, LedgerNumbers DEF Solvent, Sound
  <2>6. Spent(x) <= Available(l) /\ Spent(x) \in Nat /\ Spent(x) <= CashOf(o)
    <3>1. Spent(x) \in Nat /\ Spent(x) <= CashOf(o)
      BY <1>8, <2>1
    <3> QED BY <1>11, <2>3, <2>5, <3>1
  <2>7. Payable(l, x)
    BY <1>6, <1>9, <1>10, <2>1, <2>4, <2>6 DEF Payable
  <2>8. FillTyped(x)
    BY <1>5 DEF DeskFills, FillTyped, FillSound, OrderIds
  <2> DEFINE b == Funded - CashOf(o)
             d == Today
             c == Funded
  <2>9. b \in Int /\ c \in Int /\ b <= c - Spent(x)
    BY <1>11, <1>13, <2>6
  <2>10. portfolio.covers \in Nat /\ portfolio.covers <= Len(fills)
    BY <1>1 DEF DeskTyped, PortfolioTrue
  <2>11. d \in Nat /\ d = Len(markets) /\ d # 0 /\ d + SettlementLag <= DeskHorizon
         /\ x.day = d /\ x.at = 10 * d + 1 /\ Payable(Ongoing(fills, markets, d), x)
    BY <1>6, <1>14, <2>1, <2>7 DEF Undisturbed, l
  <2> HIDE DEF b, c, d
  <2>12. Backed(fills, markets, c, portfolio)
    BY <2>2 DEF c
  <2>13. Backed(Append(fills, x), markets, b, portfolio)
    BY ONLY <1>15, <2>8, <2>9, <2>10, <2>11, <2>12, BackedFill
  <2> QED BY <1>4, <2>13 DEF b
<1> QED BY <1>4, <1>12, <1>13, <1>16 DEF MoneyInvariant

(* An account that has not traded. *)
LEMMA MoneyStarts ==
    ASSUME DeskInit
    PROVE  MoneyInvariant
<1>1. /\ markets = <<>> /\ orders = <<>> /\ fills = <<>> /\ portfolio = NothingPublished
  BY DEF DeskInit
<1>2. OrdersFunded
  BY <1>1 DEF OrdersFunded
<1>3. Funded = 0
  <2> DEFINE f == [k \in DOMAIN orders |-> CashOf(orders[k])]
  <2>1. DOMAIN f = {}
    BY <1>1
  <2>2. Funded = SumFunction(f)
    BY FundedIs
  <2> HIDE DEF f
  <2> QED BY <2>1, <2>2, SumOfNone DEF SumFunction
<1>4. DeskCash \in Nat
  BY DeskAssumption
<1> DEFINE l == OpenLedger(DeskCash, 0)
<1>5. Sound(l) /\ l.lastAt = 0
  BY <1>4, OpenLedgerSound
<1>6. Available(l) = DeskCash /\ l.pending = <<>>
  BY <1>4, OpenLedgerFacts
<1>7. Ongoing(fills, markets, 0) = l
  BY DEF Ongoing
<1>8. portfolio.available = DeskCash /\ Len(markets) = 0
  BY <1>1 DEF NothingPublished
<1> HIDE DEF l
<1>9. SalesPayIn(l)
  BY <1>6 DEF SalesPayIn
<1>10. Solvent(l)
  BY <1>4, <1>5, <1>6, <1>9 DEF Solvent
<1>11. Backed(fills, markets, Funded, portfolio)
  BY <1>3, <1>4, <1>5, <1>6, <1>7, <1>8, <1>10 DEF Backed
<1> QED BY <1>2, <1>11 DEF MoneyInvariant

(* The desk stays able to pay: at every step of an undisturbed desk the replay of the past goes
   through, and today's ledger has the cash that the submitted orders have reserved and, when
   it has seen every fill, what the portfolio calls available (oms/service.py queue and deliver
   against operations/accounting.py project). *)
THEOREM FundsTheorem == DeskSpec => []MoneyInvariant
<1>1. DeskInit => MoneyInvariant
  BY MoneyStarts
<1>2. DeskInvariant /\ MoneyInvariant /\ [DeskNext]_deskVars => MoneyInvariant'
  <2> SUFFICES ASSUME DeskInvariant, MoneyInvariant, [DeskNext]_deskVars PROVE MoneyInvariant'
    OBVIOUS
  <2>1. CASE \/ StartCycle \/ SkipJob \/ ClaimJob \/ ReadTarget \/ Size \/ EvaluateRisk
             \/ RiskLimitFails \/ OutboxEmpty \/ CrashDesk \/ OperatorResumes
             \/ UNCHANGED deskVars
    BY <2>1, StillActions
  <2>2. CASE StartDay
    BY <2>2, DayFunds
  <2>3. CASE \E c \in cycle.todo : QueueOrder(c) \/ CrashInQueue(c)
    BY <2>3, QueueFunds, CrashFunds
  <2>4. CASE \E k \in DOMAIN orders : \/ DeliverUnfilled(k) \/ DeliverFilled(k)
                                      \/ DeliverRaises(k) \/ OperatorCancels(k)
    BY <2>4, UnfilledFunds, FilledFunds
  <2>5. CASE Project
    BY <2>5, ProjectFunds
  <2> QED BY <2>1, <2>2, <2>3, <2>4, <2>5 DEF DeskNext
<1> QED BY <1>1, <1>2, DeskTheorem, PTL DEF DeskSpec

(* FillsStayAffordable for any markets, targets, policies and interruptions, as long as the
   calendar reaches the settlement of today's trades and no sale has cost more than it brought
   in (operations/accounting.py project). *)
THEOREM SolventDeskTheorem ==
    DeskSpec => [](DeskSalesPay /\ Today + SettlementLag <= DeskHorizon => FillsStayAffordable)
<1> DEFINE Goal == DeskSalesPay /\ Today + SettlementLag <= DeskHorizon => FillsStayAffordable
<1>1. DeskInvariant /\ MoneyInvariant => Goal
  <2> SUFFICES ASSUME DeskInvariant, MoneyInvariant, DeskSalesPay,
                      Today + SettlementLag <= DeskHorizon, Busy("reconcile") \/ Busy("mark"),
                      ~blind, ~repriced
               PROVE  Good(Projection) /\ \A i \in Instruments : Held(Projection)[i] = TrueHolding(i)
    BY DEF FillsStayAffordable
  <2>1. DeskTyped /\ FillsOfThePast /\ CycleSound
    BY DEF DeskInvariant
  <2>2. Today # 0
    <3>1. cycle.job # 0
      BY <2>1, BusyIs
    <3> QED BY <2>1, <3>1 DEF CycleSound, Today
  <2>3. Backed(fills, markets, Funded, portfolio)
    BY DEF MoneyInvariant, Undisturbed
  <2> QED BY <2>1, <2>2, <2>3, BackedProjects
<1> QED BY <1>1, DeskTheorem, FundsTheorem, PTL

-----------------------------------------------------------------------------
(* A sale of any shares at a price of a market brings in its fee and its tax. *)
DeskSalesFetchTheirCosts ==
    \A m \in Markets, i \in Instruments, n \in Nat \ {0} :
        LET gross == (m[i].price - (m[i].price * SlippageRate) \div RateUnit) * n
        IN  Fee(gross) + Tax("sell", gross) <= gross

(* The calendar reaches the settlement of the last session. *)
CalendarReaches == DeskDays + SettlementLag <= DeskHorizon

SalesInvariant == Today <= DeskDays /\ DeskSalesPay

(* Every sale is at a price of its day's market. *)
LEMMA SalesKept ==
    ASSUME DeskSalesFetchTheirCosts, DeskInvariant, SalesInvariant, [DeskNext]_deskVars
    PROVE  SalesInvariant'
<1>1. CASE UNCHANGED <<markets, fills>>
  BY <1>1 DEF SalesInvariant, DeskSalesPay, Today
<1>2. CASE \/ StartCycle \/ SkipJob \/ ClaimJob \/ ReadTarget \/ Size \/ EvaluateRisk
           \/ RiskLimitFails \/ OutboxEmpty \/ Project \/ CrashDesk \/ OperatorResumes
  <2>1. UNCHANGED <<markets, oms>>
    BY <1>2, Zenon DEF StartCycle, SkipJob, ClaimJob, ReadTarget, Size, EvaluateRisk, RiskLimitFails,
           OutboxEmpty, Project, CrashDesk, OperatorResumes
  <2> QED BY <1>1, <2>1 DEF oms
<1>3. CASE \E c \in cycle.todo : QueueOrder(c) \/ CrashInQueue(c)
  BY <1>1, <1>3 DEF QueueOrder, CrashInQueue
<1>4. CASE \E k \in DOMAIN orders : DeliverUnfilled(k) \/ DeliverRaises(k) \/ OperatorCancels(k)
  BY <1>1, <1>4 DEF DeliverUnfilled, DeliverRaises, OperatorCancels
<1>5. CASE StartDay
  <2>1. PICK m \in Markets : markets' = Append(markets, m)
    BY <1>5 DEF StartDay
  <2>2. fills' = fills /\ Today < DeskDays
    BY <1>5 DEF StartDay, oms
  <2>3. Today \in Nat /\ Today' = Today + 1
    BY <2>1 DEF DeskInvariant, DeskTyped, Today
  <2>4. Today' <= DeskDays
    BY <2>2, <2>3, DeskAssumption
  <2> QED BY <2>2, <2>4 DEF SalesInvariant, DeskSalesPay
<1>6. CASE \E k \in DOMAIN orders : DeliverFilled(k)
  <2>1. PICK k \in DOMAIN orders : DeliverFilled(k)
    BY <1>6
  <2> DEFINE o == orders[k]
             x == FillOf(k)
             n == FillQuantity(o)
             m == markets[Today]
             gross == BrokerPrice(o) * n
  <2>2. /\ DeskTyped /\ CycleSound /\ OrderSound(o) /\ o \in DeskOrders
    BY DEF DeskInvariant, DeskTyped, OrdersSound
  <2>3. Len(markets) > 0 /\ Fillable(k)
    BY <2>1, <2>2, BusyIs DEF DeliverFilled, CycleSound
  <2>4. n \in 1 .. o.quantity /\ o.quantity \in Nat /\ o.instrument \in Instruments
    BY <2>2, <2>3, BrokerFills DEF DeskOrders
  <2>5. m \in Markets
    BY <2>2, <2>3 DEF DeskTyped, Today
  <2>6. markets' = markets /\ fills' = Append(fills, x)
    BY <2>1 DEF DeliverFilled
  <2>7. /\ x.side = o.side /\ x.fee = Fee(gross) /\ x.tax = Tax(o.side, gross)
        /\ x.price * x.quantity = gross
    BY DEF FillOf
  <2>8. o.side = "sell" =>
           BrokerPrice(o) = m[o.instrument].price - (m[o.instrument].price * SlippageRate) \div RateUnit
    BY DEF BrokerPrice
  <2>9. n \in Nat \ {0}
    BY <2>4
  <2> HIDE DEF x, m, n
  <2>10. x.side = "sell" => x.fee + x.tax <= x.price * x.quantity
    <3> SUFFICES ASSUME x.side = "sell" PROVE Fee(gross) + Tax("sell", gross) <= gross
      BY <2>7
    <3> DEFINE i == o.instrument
               g == (m[i].price - (m[i].price * SlippageRate) \div RateUnit) * n
    <3>1. Fee(g) + Tax("sell", g) <= g
      BY <2>4, <2>5, <2>9 DEF DeskSalesFetchTheirCosts
    <3>2. g = gross
      BY <2>7, <2>8
    <3> HIDE DEF g, gross
    <3> QED BY <3>1, <3>2
  <2> HIDE DEF gross
  <2>11. \A j \in DOMAIN fills' : fills'[j] = x \/ (j \in DOMAIN fills /\ fills'[j] = fills[j])
    BY <2>2, <2>6 DEF DeskTyped
  <2>12. DeskSalesPay'
    BY <2>10, <2>11 DEF SalesInvariant, DeskSalesPay
  <2> QED BY <2>6, <2>12 DEF SalesInvariant, Today
<1>7. CASE UNCHANGED deskVars
  BY <1>1, <1>7 DEF deskVars
<1> QED BY <1>2, <1>3, <1>4, <1>5, <1>6, <1>7 DEF DeskNext

(* FillsStayAffordable at every step, when every sale fetches its costs at the prices there are
   and the calendar reaches the settlement of the last session: the cash that queue lets orders
   reserve is there when they are filled, whatever died in between (oms/service.py queue against
   operations/accounting.py project). *)
THEOREM AffordableTheorem ==
    ASSUME DeskSalesFetchTheirCosts, CalendarReaches
    PROVE  DeskSpec => []FillsStayAffordable
<1>1. DeskInit => SalesInvariant
  <2> SUFFICES ASSUME DeskInit PROVE SalesInvariant
    OBVIOUS
  <2>1. Len(markets) = 0 /\ DOMAIN fills = {}
    BY DEF DeskInit
  <2> QED BY <2>1, DeskAssumption DEF SalesInvariant, DeskSalesPay, Today
<1>2. DeskInvariant /\ SalesInvariant /\ [DeskNext]_deskVars => SalesInvariant'
  BY SalesKept
<1>3. DeskSpec => []SalesInvariant
  BY <1>1, <1>2, DeskTheorem, PTL DEF DeskSpec
<1>4. DeskInvariant /\ SalesInvariant => DeskSalesPay /\ Today + SettlementLag <= DeskHorizon
  <2> SUFFICES ASSUME DeskInvariant, SalesInvariant
               PROVE  DeskSalesPay /\ Today + SettlementLag <= DeskHorizon
    OBVIOUS
  <2>1. Today \in Nat /\ Today <= DeskDays /\ DeskSalesPay
    BY DEF DeskInvariant, DeskTyped, SalesInvariant, Today
  <2>2. DeskDays + SettlementLag <= DeskHorizon /\ DeskDays \in Nat /\ SettlementLag \in Nat
        /\ DeskHorizon \in Nat
    BY DeskAssumption, PolicyAssumption DEF CalendarReaches
  <2> QED BY <2>1, <2>2
<1> QED BY <1>3, <1>4, DeskTheorem, SolventDeskTheorem, PTL
=============================================================================
